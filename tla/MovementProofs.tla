--------------------------- MODULE MovementProofs ---------------------------
(***************************************************************************)
(* Proofs about Movement, for every room size, mailbox size and timing     *)
(* assumption: type correctness, no lost wake-up, no orphaned signal, the  *)
(* engine is never started over an obstacle, and the return is final.      *)
(***************************************************************************)
EXTENDS Movement, TLAPS

\* Which statements each thread may be at, and that only Task2 ever ends.
PcOK ==
    /\ pc["TaskS"] \in {"recv", "return", "write"}
    /\ pc["Task1"] \in {"recv", "return", "read", "kill", "send", "spin"}
    /\ stat["TaskS"] # "close" /\ stat["Task1"] # "close"
    /\ stat["Task2"] = "close" <=> pc["Task2"] = "exit"

\* The handler frame exists only for a signal that is pending and unmasked.
EntryOK == sig_entry => sig_pending /\ sig_mask

\* The robot is heading home from the mail on; the mask follows the direction.
ReturnOK ==
    /\ pc["Task2"] = "mask" => direction = "RETURN"
    /\ ~sig_mask => direction = "RETURN"

\* The inductive invariant.
IInv == TypeOK /\ PcOK /\ NoLostWakeup /\ SignalArmed /\ EntryOK /\ ReturnOK

-----------------------------------------------------------------------------
(* Lemmas about the room *)

\* A step from any position is a pair of integers again.
LEMMA StepType ==
    ASSUME position \in [{0, 1} -> Int], NEW d \in Moves
    PROVE  Step(d) \in [{0, 1} -> Int]
BY DEF Step, Moves

\* Marking a tile keeps the map a map, inside the room or outside.
LEMMA MarkType ==
    ASSUME map \in [Tiles -> {0, 1, 2}], NEW v \in {0, 1, 2}
    PROVE  Mark(v) \in [Tiles -> {0, 1, 2}]
BY DEF Mark

LEMMA OppositeType ==
    ASSUME NEW d \in Moves
    PROVE  Opposite[d] \in Moves
BY DEF Opposite, Moves

\* find_new_position answers with one of the directions it may take.
LEMMA FindType ==
    ASSUME NEW foreign, Candidates(foreign) # {}
    PROVE  find_new_position(foreign) \in Moves
<1>1. Candidates(foreign) \subseteq {"UP", "DOWN", "LEFT", "RIGHT"}
  BY DEF Candidates, Moves
<1>2. CASE "UP" \in Candidates(foreign)
  BY <1>2 DEF find_new_position, Moves
<1>3. CASE "UP" \notin Candidates(foreign) /\ "DOWN" \in Candidates(foreign)
  BY <1>3 DEF find_new_position, Moves
<1>4. CASE Candidates(foreign) \cap {"UP", "DOWN"} = {} /\ "LEFT" \in Candidates(foreign)
  BY <1>4 DEF find_new_position, Moves
<1>5. CASE "UP" \notin Candidates(foreign) /\ "DOWN" \notin Candidates(foreign)
           /\ "LEFT" \notin Candidates(foreign)
  <2>1. Candidates(foreign) = {"RIGHT"}
    BY <1>1, <1>5
  <2> QED BY <2>1 DEF find_new_position, Moves
<1> QED BY <1>1, <1>2, <1>3, <1>4, <1>5

-----------------------------------------------------------------------------
(* The invariant *)

LEMMA InitInv == Init => IInv
<1> SUFFICES ASSUME Init PROVE IInv
  OBVIOUS
<1>1. TypeThreads
  BY DEF Init, TypeThreads, Threads
<1>2. TypeSignals /\ fired \in SUBSET {"Task1", "Task2"} /\ due \in BOOLEAN
  BY DEF Init, TypeSignals
<1>3. TypeRobot
  BY MovementAssumption DEF MovementAssumption, Init, TypeRobot, Moves
<1>4. TypeCounters
  BY MovementAssumption DEF MovementAssumption, Init, TypeCounters
<1>5. PcOK /\ NoLostWakeup /\ SignalArmed /\ EntryOK /\ ReturnOK
  BY DEF Init, PcOK, NoLostWakeup, SignalArmed, EntryOK, ReturnOK, Threads
<1> QED BY <1>1, <1>2, <1>3, <1>4, <1>5 DEF IInv, TypeOK

\* rt_event_send and rt_event_recv keep the wake-up discipline of every thread.
LEMMA EventSendInv ==
    ASSUME TypeThreads, PcOK, NoLostWakeup, NEW t \in Threads, event_send(t), UNCHANGED pc
    PROVE  /\ TypeThreads' /\ PcOK' /\ NoLostWakeup'
           /\ stat["Task2"] = "ready" => stat'["Task2"] = "ready"
           /\ stat'["Task2"] = "close" <=> stat["Task2"] = "close"
<1>1. CASE stat[t] = "suspend"
  BY <1>1 DEF event_send, TypeThreads, PcOK, NoLostWakeup, Threads
<1>2. CASE stat[t] # "suspend"
  BY <1>2 DEF event_send, TypeThreads, PcOK, NoLostWakeup, Threads
<1> QED BY <1>1, <1>2

LEMMA EventRecvInv ==
    ASSUME TypeThreads, PcOK, NoLostWakeup, NEW t \in Threads, event_recv(t)
    PROVE  /\ TypeThreads' /\ PcOK' /\ NoLostWakeup'
           /\ stat'["Task2"] = "close" <=> stat["Task2"] = "close"
           /\ t # "Task2" => stat'["Task2"] = stat["Task2"] /\ pc'["Task2"] = pc["Task2"]
           /\ pc'["Task2"] # "mask" \/ pc["Task2"] = "mask"
<1> USE DEF event_recv, Running, TypeThreads, Threads
<1>1. pc' = [pc EXCEPT ![t] = "return"] /\ stat[t] = "ready"
  OBVIOUS
<1>2. CASE t \in flag
  <2>1. flag' = flag \ {t} /\ stat' = stat
    BY <1>2
  <2>2. TypeThreads' /\ NoLostWakeup'
    BY <1>1, <2>1 DEF NoLostWakeup
  <2>3. PcOK' /\ (pc'["Task2"] # "mask" \/ pc["Task2"] = "mask")
    BY <1>1, <2>1 DEF PcOK
  <2> QED BY <1>1, <2>1, <2>2, <2>3
<1>3. CASE t \notin flag
  <2>1. flag' = flag /\ stat' = [stat EXCEPT ![t] = "suspend"]
    BY <1>3
  <2>2. TypeThreads' /\ NoLostWakeup'
    BY <1>1, <1>3, <2>1 DEF NoLostWakeup
  <2>3. PcOK' /\ (pc'["Task2"] # "mask" \/ pc["Task2"] = "mask")
    BY <1>1, <2>1 DEF PcOK
  <2> QED BY <1>1, <2>1, <2>2, <2>3
<1> QED BY <1>2, <1>3

\* A thread that moves on within its own program disturbs no wake-up.
LEMMA GotoInv ==
    ASSUME TypeThreads, PcOK, NoLostWakeup, NEW t \in Threads, NEW from, NEW to,
           Goto(t, from, to), UNCHANGED <<stat, flag>>,
           \/ t = "TaskS" /\ to \in {"recv", "return", "write"}
           \/ t = "Task1" /\ to \in {"recv", "return", "read", "kill", "send", "spin"}
           \/ t = "Task2" /\ to \in {"recv", "return", "mb_recv", "set_return", "mask",
                                     "reset", "mb_send", "clean", "move", "decide", "spin"}
    PROVE  TypeThreads' /\ PcOK' /\ NoLostWakeup'
BY DEF Goto, Running, TypeThreads, PcOK, NoLostWakeup, Threads

\* What is left of the invariant when only threads and events have changed.
LEMMA RestInv ==
    ASSUME IInv, UNCHANGED <<signals, robot, engine, mailboxes, sys_pending, obstacles>>,
           stat["Task2"] = "ready" => stat'["Task2"] = "ready",
           stat'["Task2"] = "close" <=> stat["Task2"] = "close",
           pc'["Task2"] = "mask" => direction = "RETURN"
    PROVE  /\ TypeSignals' /\ TypeRobot' /\ TypeCounters'
           /\ SignalArmed' /\ EntryOK' /\ ReturnOK'
<1>1. UNCHANGED <<sig_pending, sig_mask, sig_entry, error, sys_pending, position, direction,
                  map, stuck, engine, garbage, mb2_3, mb2_5, obstacles>>
  BY DEF signals, robot, mailboxes
<1>2. TypeSignals' /\ TypeRobot' /\ TypeCounters'
  BY <1>1 DEF IInv, TypeOK, TypeSignals, TypeRobot, TypeCounters
<1>3. SignalArmed' /\ EntryOK' /\ ReturnOK'
  BY <1>1 DEF IInv, SignalArmed, EntryOK, ReturnOK
<1> QED BY <1>2, <1>3

\* The timers: an activation bit reaches its thread whatever the thread is doing.
LEMMA TimerInv ==
    ASSUME IInv, timeout_obstacle_control \/ timeout_movement_control
    PROVE  IInv'
<1>1. PICK t \in {"Task1", "Task2"} : event_send(t)
  BY DEF timeout_obstacle_control, timeout_movement_control
<1>2. /\ UNCHANGED pc
      /\ UNCHANGED <<signals, robot, engine, mailboxes, sys_pending, obstacles>>
  BY DEF timeout_obstacle_control, timeout_movement_control
<1>3. fired' \in SUBSET {"Task1", "Task2"} /\ due' \in BOOLEAN
  BY DEF timeout_obstacle_control, timeout_movement_control, IInv, TypeOK
<1>4. /\ TypeThreads' /\ PcOK' /\ NoLostWakeup'
      /\ stat["Task2"] = "ready" => stat'["Task2"] = "ready"
      /\ stat'["Task2"] = "close" <=> stat["Task2"] = "close"
  BY <1>1, <1>2, EventSendInv DEF IInv, TypeOK, Threads
<1>5. pc'["Task2"] = "mask" => direction = "RETURN"
  BY <1>2 DEF IInv, ReturnOK
<1>6. /\ TypeSignals' /\ TypeRobot' /\ TypeCounters'
      /\ SignalArmed' /\ EntryOK' /\ ReturnOK'
  BY <1>2, <1>4, <1>5, RestInv
<1> QED BY <1>3, <1>4, <1>6 DEF IInv, TypeOK

\* TaskS only waits and stops the engine.
LEMMA StopInv ==
    ASSUME IInv, movement_stop
    PROVE  IInv'
<1>1. CASE S_recv
  <2>1. event_recv("TaskS") /\ UNCHANGED timers
        /\ UNCHANGED <<signals, robot, engine, mailboxes, sys_pending, obstacles>>
    BY <1>1 DEF S_recv
  <2>2. /\ TypeThreads' /\ PcOK' /\ NoLostWakeup'
        /\ stat'["Task2"] = stat["Task2"] /\ pc'["Task2"] = pc["Task2"]
    BY <2>1, EventRecvInv DEF IInv, TypeOK, Threads
  <2>3. /\ TypeSignals' /\ TypeRobot' /\ TypeCounters'
        /\ SignalArmed' /\ EntryOK' /\ ReturnOK'
    BY <2>1, <2>2, RestInv DEF IInv, ReturnOK
  <2> QED BY <2>1, <2>2, <2>3 DEF IInv, TypeOK, timers
<1>2. CASE S_return
  <2>1. Goto("TaskS", "return", "write") /\ UNCHANGED <<stat, flag>> /\ UNCHANGED timers
        /\ UNCHANGED <<signals, robot, engine, mailboxes, sys_pending, obstacles>>
    BY <1>2 DEF S_return
  <2>2. TypeThreads' /\ PcOK' /\ NoLostWakeup'
    BY <2>1, GotoInv DEF IInv, TypeOK, Threads
  <2>3. pc'["Task2"] = pc["Task2"] /\ stat' = stat
    BY <2>1 DEF Goto, IInv, TypeOK, TypeThreads, Threads
  <2>4. /\ TypeSignals' /\ TypeRobot' /\ TypeCounters'
        /\ SignalArmed' /\ EntryOK' /\ ReturnOK'
    BY <2>1, <2>3, RestInv DEF IInv, ReturnOK
  <2> QED BY <2>1, <2>2, <2>4 DEF IInv, TypeOK, timers
<1>3. CASE S_write
  <2>1. Goto("TaskS", "write", "recv") /\ UNCHANGED <<stat, flag>> /\ UNCHANGED timers
        /\ engine' = "STOP"
        /\ UNCHANGED <<sig_pending, sig_mask, sig_entry, error, sys_pending, position,
                       direction, map, stuck, garbage, mb2_3, mb2_5, obstacles>>
    BY <1>3 DEF S_write, signals, robot, mailboxes
  <2>2. TypeThreads' /\ PcOK' /\ NoLostWakeup'
    BY <2>1, GotoInv DEF IInv, TypeOK, Threads
  <2>3. pc'["Task2"] = pc["Task2"] /\ stat' = stat
    BY <2>1 DEF Goto, IInv, TypeOK, TypeThreads, Threads
  <2>4. TypeSignals' /\ TypeRobot' /\ TypeCounters'
    BY <2>1 DEF IInv, TypeOK, TypeSignals, TypeRobot, TypeCounters
  <2>5. SignalArmed' /\ EntryOK' /\ ReturnOK'
    BY <2>1, <2>3 DEF IInv, SignalArmed, EntryOK, ReturnOK
  <2> QED BY <2>1, <2>2, <2>4, <2>5 DEF IInv, TypeOK, timers
<1> QED BY <1>1, <1>2, <1>3 DEF movement_stop

\* Task1: waiting, reading the sensor, the signal, the event, the busy wait.
LEMMA ObstacleInv ==
    ASSUME IInv, obstacle_control
    PROVE  IInv'
<1>1. CASE T1_recv
  <2>1. event_recv("Task1") /\ UNCHANGED timers
        /\ UNCHANGED <<signals, robot, engine, mailboxes, sys_pending, obstacles>>
    BY <1>1 DEF T1_recv
  <2>2. /\ TypeThreads' /\ PcOK' /\ NoLostWakeup'
        /\ stat'["Task2"] = stat["Task2"] /\ pc'["Task2"] = pc["Task2"]
    BY <2>1, EventRecvInv DEF IInv, TypeOK, Threads
  <2>3. /\ TypeSignals' /\ TypeRobot' /\ TypeCounters'
        /\ SignalArmed' /\ EntryOK' /\ ReturnOK'
    BY <2>1, <2>2, RestInv DEF IInv, ReturnOK
  <2> QED BY <2>1, <2>2, <2>3 DEF IInv, TypeOK, timers
<1>2. CASE T1_return \/ T1_spin
  <2>1. /\ Goto("Task1", "return", "read") \/ Goto("Task1", "spin", "recv")
        /\ UNCHANGED <<stat, flag>> /\ UNCHANGED timers
        /\ UNCHANGED <<signals, robot, engine, mailboxes, sys_pending, obstacles>>
    BY <1>2 DEF T1_return, T1_spin
  <2>2. TypeThreads' /\ PcOK' /\ NoLostWakeup'
    BY <2>1, GotoInv DEF IInv, TypeOK, Threads
  <2>3. pc'["Task2"] = pc["Task2"] /\ stat' = stat
    BY <2>1 DEF Goto, IInv, TypeOK, TypeThreads, Threads
  <2>4. /\ TypeSignals' /\ TypeRobot' /\ TypeCounters'
        /\ SignalArmed' /\ EntryOK' /\ ReturnOK'
    BY <2>1, <2>3, RestInv DEF IInv, ReturnOK
  <2> QED BY <2>1, <2>2, <2>4 DEF IInv, TypeOK, timers
<1>3. ASSUME NEW obstacle \in BOOLEAN, T1_read(obstacle) PROVE IInv'
  <2>1. /\ \E to \in {"kill", "spin"} : Goto("Task1", "read", to)
        /\ UNCHANGED <<stat, flag>> /\ UNCHANGED timers
        /\ UNCHANGED <<sig_pending, sig_mask, sig_entry, error, sys_pending, position,
                       direction, map, stuck, engine, garbage, mb2_3, mb2_5>>
        /\ obstacles' = obstacles \/ (obstacles < MaxObstacles /\ obstacles' = obstacles + 1)
    BY <1>3 DEF T1_read, signals, robot, mailboxes
  <2>2. TypeThreads' /\ PcOK' /\ NoLostWakeup'
    BY <2>1, GotoInv DEF IInv, TypeOK, Threads
  <2>3. pc'["Task2"] = pc["Task2"] /\ stat' = stat
    BY <2>1 DEF Goto, IInv, TypeOK, TypeThreads, Threads
  <2>4. TypeSignals' /\ TypeRobot'
    BY <2>1 DEF IInv, TypeOK, TypeSignals, TypeRobot
  <2>5. TypeCounters'
    BY <2>1, MovementAssumption DEF MovementAssumption, IInv, TypeOK, TypeCounters
  <2>6. SignalArmed' /\ EntryOK' /\ ReturnOK'
    BY <2>1, <2>3 DEF IInv, SignalArmed, EntryOK, ReturnOK
  <2> QED BY <2>1, <2>2, <2>4, <2>5, <2>6 DEF IInv, TypeOK, timers
<1>4. CASE T1_kill
  <2>1. /\ Goto("Task1", "kill", "send") /\ kill_Task2 /\ UNCHANGED timers
        /\ UNCHANGED <<flag, sig_mask, error, sys_pending, position, direction, map, stuck,
                       engine, garbage, mb2_3, mb2_5, obstacles>>
    BY <1>4 DEF T1_kill, robot, mailboxes
  <2>2. pc' = [pc EXCEPT !["Task1"] = "send"] /\ pc'["Task2"] = pc["Task2"]
        /\ stat["Task1"] = "ready"
    BY <2>1 DEF Goto, Running, IInv, TypeOK, TypeThreads, Threads
  <2>3. CASE ~sig_pending /\ sig_mask /\ stat["Task2"] = "suspend"
    <3>1. stat' = [stat EXCEPT !["Task2"] = "ready"] /\ sig_entry' = TRUE /\ sig_pending' = TRUE
      BY <2>1, <2>3 DEF kill_Task2
    <3>2. TypeThreads' /\ PcOK' /\ NoLostWakeup'
      BY <2>1, <2>2, <2>3, <3>1 DEF IInv, TypeOK, TypeThreads, PcOK, NoLostWakeup, Threads
    <3>3. SignalArmed' /\ EntryOK' /\ ReturnOK' /\ TypeSignals'
      BY <2>1, <2>2, <2>3, <3>1
         DEF IInv, TypeOK, TypeThreads, TypeSignals, SignalArmed, EntryOK, ReturnOK, Threads
    <3> QED BY <3>2, <3>3, <2>1
            DEF IInv, TypeOK, TypeRobot, TypeCounters, timers
  <2>4. CASE ~(~sig_pending /\ sig_mask /\ stat["Task2"] = "suspend")
    <3>1. stat' = stat /\ sig_pending' = TRUE
          /\ sig_entry' = (sig_entry \/ (~sig_pending /\ sig_mask))
      BY <2>1, <2>4 DEF kill_Task2
    <3>2. TypeThreads' /\ PcOK' /\ NoLostWakeup'
      BY <2>1, <2>2, <3>1 DEF IInv, TypeOK, TypeThreads, PcOK, NoLostWakeup, Threads
    <3>3. TypeSignals' /\ EntryOK' /\ ReturnOK'
      BY <2>1, <2>2, <3>1 DEF IInv, TypeOK, TypeSignals, EntryOK, ReturnOK
    <3>4. SignalArmed'
      BY <2>1, <2>4, <3>1
         DEF IInv, TypeOK, TypeThreads, TypeSignals, SignalArmed, EntryOK, Threads
    <3> QED BY <3>2, <3>3, <3>4, <2>1
            DEF IInv, TypeOK, TypeRobot, TypeCounters, timers
  <2> QED BY <2>3, <2>4
<1>5. CASE T1_send
  <2>1. Goto("Task1", "send", "spin") /\ event_send("TaskS") /\ UNCHANGED timers
        /\ UNCHANGED <<signals, robot, engine, mailboxes, sys_pending, obstacles>>
    BY <1>5 DEF T1_send
  <2>2. pc' = [pc EXCEPT !["Task1"] = "spin"] /\ pc'["Task2"] = pc["Task2"]
        /\ stat["Task1"] = "ready"
    BY <2>1 DEF Goto, Running, IInv, TypeOK, TypeThreads, Threads
  <2>3. /\ TypeThreads' /\ PcOK' /\ NoLostWakeup' /\ stat'["Task2"] = stat["Task2"]
    <3>1. CASE stat["TaskS"] = "suspend"
      BY <2>1, <2>2, <3>1
         DEF event_send, IInv, TypeOK, TypeThreads, PcOK, NoLostWakeup, Threads
    <3>2. CASE stat["TaskS"] # "suspend"
      BY <2>1, <2>2, <3>2
         DEF event_send, IInv, TypeOK, TypeThreads, PcOK, NoLostWakeup, Threads
    <3> QED BY <3>1, <3>2
  <2>4. /\ TypeSignals' /\ TypeRobot' /\ TypeCounters'
        /\ SignalArmed' /\ EntryOK' /\ ReturnOK'
    BY <2>1, <2>2, <2>3, RestInv DEF IInv, ReturnOK
  <2> QED BY <2>1, <2>3, <2>4 DEF IInv, TypeOK, timers
<1> QED BY <1>1, <1>2, <1>3, <1>4, <1>5 DEF obstacle_control

\* A Task2 step within its program leaves threads, signals and events in order;
\* no signal is pending and unmasked when it happens.
LEMMA Task2Goto ==
    ASSUME IInv, NEW from, UNCHANGED <<stat, flag>>,
           NEW to \in {"reset", "recv", "return", "mb_recv", "set_return", "mask",
                       "mb_send", "clean", "move", "decide", "spin"},
           Task2At(from, to)
    PROVE  /\ TypeThreads' /\ PcOK' /\ NoLostWakeup'
           /\ pc'["Task2"] = to /\ pc["Task2"] = from
           /\ ~sig_entry /\ ~(sig_pending /\ sig_mask)
<1>1. Goto("Task2", from, to) /\ ~sig_entry
  BY DEF Task2At
<1>2. TypeThreads' /\ PcOK' /\ NoLostWakeup'
  BY <1>1, GotoInv DEF IInv, TypeOK, Threads
<1>3. pc'["Task2"] = to /\ pc["Task2"] = from /\ stat["Task2"] = "ready"
  BY <1>1 DEF Goto, Running, IInv, TypeOK, TypeThreads, Threads
<1>4. ~(sig_pending /\ sig_mask)
  BY <1>1, <1>3 DEF IInv, SignalArmed
<1> QED BY <1>1, <1>2, <1>3, <1>4

\* The handler marks the tile and steps back; the signal is consumed.
LEMMA HandlerInv ==
    ASSUME IInv, T2_handler
    PROVE  IInv'
<1>1. /\ UNCHANGED <<stat, pc, flag, sig_mask, direction, stuck, garbage, engine, mb2_3,
                     mb2_5, sys_pending, obstacles, fired, due>>
      /\ sig_pending' = FALSE /\ sig_entry' = FALSE /\ error' = "EINTR"
      /\ map' = Mark(1)
      /\ position' = IF direction = "RETURN" THEN position ELSE Step(Opposite[direction])
  BY DEF T2_handler, mailboxes, timers
<1>2. TypeThreads' /\ TypeSignals' /\ TypeCounters'
  BY <1>1 DEF IInv, TypeOK, TypeThreads, TypeSignals, TypeCounters
<1>3. map' \in [Tiles -> {0, 1, 2}]
  BY <1>1, MarkType DEF IInv, TypeOK, TypeRobot
<1>4. position' \in [{0, 1} -> Int]
  <2>1. CASE direction = "RETURN"
    BY <1>1, <2>1 DEF IInv, TypeOK, TypeRobot
  <2>2. CASE direction \in Moves
    BY <1>1, <2>2, OppositeType, StepType DEF IInv, TypeOK, TypeRobot, Moves
  <2> QED BY <2>1, <2>2 DEF IInv, TypeOK, TypeRobot
<1>5. TypeRobot'
  BY <1>1, <1>3, <1>4 DEF IInv, TypeOK, TypeRobot
<1>6. PcOK' /\ NoLostWakeup' /\ SignalArmed' /\ EntryOK' /\ ReturnOK'
  BY <1>1 DEF IInv, PcOK, NoLostWakeup, SignalArmed, EntryOK, ReturnOK
<1> QED BY <1>1, <1>2, <1>5, <1>6 DEF IInv, TypeOK

\* Task2's rt_event_recv: no signal is waiting when it suspends.
LEMMA Task2RecvInv ==
    ASSUME IInv, T2_recv
    PROVE  IInv'
<1>1. /\ event_recv("Task2") /\ ~sig_entry /\ UNCHANGED error
      /\ UNCHANGED <<sig_pending, sig_mask, sig_entry, sys_pending, position, direction, map,
                     stuck, engine, garbage, mb2_3, mb2_5, obstacles, fired, due>>
  BY DEF T2_recv, signals, robot, mailboxes, timers
<1>2. /\ TypeThreads' /\ PcOK' /\ NoLostWakeup'
  BY <1>1, EventRecvInv DEF IInv, TypeOK, Threads
<1>3. stat["Task2"] = "ready" /\ pc'["Task2"] = "return"
  BY <1>1 DEF event_recv, Running, IInv, TypeOK, TypeThreads, Threads
<1>4. ~(sig_pending /\ sig_mask)
  BY <1>1, <1>3 DEF IInv, SignalArmed
<1>5. TypeSignals' /\ TypeRobot' /\ TypeCounters'
  BY <1>1 DEF IInv, TypeOK, TypeSignals, TypeRobot, TypeCounters
<1>6. SignalArmed' /\ EntryOK' /\ ReturnOK'
  BY <1>1, <1>3, <1>4 DEF IInv, SignalArmed, EntryOK, ReturnOK
<1> QED BY <1>1, <1>2, <1>5, <1>6 DEF IInv, TypeOK

\* The steps of Task2 that do not move the robot and do not end the thread.
LEMMA Task2QuietInv ==
    ASSUME IInv, \/ T2_return \/ T2_mb_recv \/ T2_set_return \/ T2_mask \/ T2_mb_send
                 \/ T2_start \/ T2_spin \/ T2_reset
    PROVE  IInv'
<1> USE DEF signals, robot, mailboxes, timers
<1>1. CASE T2_return
  <2>1. PICK to \in {"mb_recv", "reset"} : Task2At("return", to)
    BY <1>1 DEF T2_return
  <2>2. /\ UNCHANGED <<stat, flag, fired>> /\ due' \in BOOLEAN
        /\ UNCHANGED <<signals, robot, engine, mailboxes, sys_pending, obstacles>>
    BY <1>1 DEF T2_return
  <2>3. TypeThreads' /\ PcOK' /\ NoLostWakeup' /\ pc'["Task2"] = to
    BY <2>1, <2>2, Task2Goto
  <2>4. /\ TypeSignals' /\ TypeRobot' /\ TypeCounters'
        /\ SignalArmed' /\ EntryOK' /\ ReturnOK'
    BY <2>2, <2>3, RestInv
  <2> QED BY <2>2, <2>3, <2>4 DEF IInv, TypeOK
<1>2. CASE T2_mb_recv
  <2>1. PICK to \in {"set_return", "clean"} : Task2At("mb_recv", to)
    BY <1>2 DEF T2_mb_recv
  <2>2. /\ UNCHANGED <<stat, flag, sig_pending, sig_mask, sig_entry, error, sys_pending,
                       position, direction, map, stuck, engine, garbage, mb2_5, obstacles,
                       fired, due>>
        /\ mb2_3' = IF mb2_3 > 0 THEN mb2_3 - 1 ELSE mb2_3
    BY <1>2 DEF T2_mb_recv
  <2>3. TypeThreads' /\ PcOK' /\ NoLostWakeup' /\ pc'["Task2"] = to
    BY <2>1, <2>2, Task2Goto
  <2>4. TypeSignals' /\ TypeRobot'
    BY <2>2 DEF IInv, TypeOK, TypeSignals, TypeRobot
  <2>5. TypeCounters'
    BY <2>2, MovementAssumption DEF MovementAssumption, IInv, TypeOK, TypeCounters
  <2>6. SignalArmed' /\ EntryOK' /\ ReturnOK'
    BY <2>2, <2>3 DEF IInv, SignalArmed, EntryOK, ReturnOK
  <2> QED BY <2>2, <2>3, <2>4, <2>5, <2>6 DEF IInv, TypeOK
<1>3. CASE T2_set_return
  <2>1. /\ Task2At("set_return", "mask") /\ direction' = "RETURN"
        /\ UNCHANGED <<stat, flag, sig_pending, sig_mask, sig_entry, error, sys_pending,
                       position, map, stuck, engine, garbage, mb2_3, mb2_5, obstacles,
                       fired, due>>
    BY <1>3 DEF T2_set_return
  <2>2. TypeThreads' /\ PcOK' /\ NoLostWakeup'
    BY <2>1, Task2Goto
  <2>3. TypeSignals' /\ TypeRobot' /\ TypeCounters'
    BY <2>1 DEF IInv, TypeOK, TypeSignals, TypeRobot, TypeCounters
  <2>4. SignalArmed' /\ EntryOK' /\ ReturnOK'
    BY <2>1 DEF IInv, SignalArmed, EntryOK, ReturnOK
  <2> QED BY <2>1, <2>2, <2>3, <2>4 DEF IInv, TypeOK
<1>4. CASE T2_mask
  <2>1. /\ Task2At("mask", "mb_send") /\ sig_mask' = FALSE
        /\ UNCHANGED <<stat, flag, sig_pending, sig_entry, error, sys_pending, position,
                       direction, map, stuck, engine, garbage, mb2_3, mb2_5, obstacles,
                       fired, due>>
    BY <1>4 DEF T2_mask
  <2>2. /\ TypeThreads' /\ PcOK' /\ NoLostWakeup' /\ ~sig_entry /\ pc["Task2"] = "mask"
    BY <2>1, Task2Goto
  <2>3. TypeSignals' /\ TypeRobot' /\ TypeCounters'
    BY <2>1 DEF IInv, TypeOK, TypeSignals, TypeRobot, TypeCounters
  <2>4. SignalArmed' /\ EntryOK' /\ ReturnOK'
    BY <2>1, <2>2 DEF IInv, SignalArmed, EntryOK, ReturnOK
  <2> QED BY <2>1, <2>2, <2>3, <2>4 DEF IInv, TypeOK
<1>5. CASE T2_mb_send
  <2>1. /\ Task2At("mb_send", "clean")
        /\ mb2_5' = IF mb2_5 < MailCap THEN mb2_5 + 1 ELSE mb2_5
        /\ UNCHANGED <<stat, flag, sig_pending, sig_mask, sig_entry, error, sys_pending,
                       position, direction, map, stuck, engine, garbage, mb2_3, obstacles,
                       fired, due>>
    BY <1>5 DEF T2_mb_send
  <2>2. TypeThreads' /\ PcOK' /\ NoLostWakeup' /\ pc'["Task2"] = "clean"
    BY <2>1, Task2Goto
  <2>3. TypeSignals' /\ TypeRobot'
    BY <2>1 DEF IInv, TypeOK, TypeSignals, TypeRobot
  <2>4. TypeCounters'
    BY <2>1, MovementAssumption DEF MovementAssumption, IInv, TypeOK, TypeCounters
  <2>5. SignalArmed' /\ EntryOK' /\ ReturnOK'
    BY <2>1, <2>2 DEF IInv, SignalArmed, EntryOK, ReturnOK
  <2> QED BY <2>1, <2>2, <2>3, <2>4, <2>5 DEF IInv, TypeOK
<1>6. CASE T2_start \/ T2_spin
  <2>1. PICK from \in {"decide", "spin"}, to \in {"spin", "reset"} : Task2At(from, to)
    BY <1>6 DEF T2_start, T2_spin
  <2>2. /\ UNCHANGED <<stat, flag, sig_pending, sig_mask, sig_entry, error, sys_pending,
                       position, direction, map, stuck, garbage, mb2_3, mb2_5, obstacles,
                       fired, due>>
        /\ engine' \in {"STOP", "START"}
    BY <1>6 DEF T2_start, T2_spin, IInv, TypeOK, TypeRobot
  <2>3. TypeThreads' /\ PcOK' /\ NoLostWakeup' /\ pc'["Task2"] = to
    BY <2>1, <2>2, Task2Goto
  <2>4. TypeSignals' /\ TypeRobot' /\ TypeCounters'
    BY <2>2 DEF IInv, TypeOK, TypeSignals, TypeRobot, TypeCounters
  <2>5. SignalArmed' /\ EntryOK' /\ ReturnOK'
    BY <2>2, <2>3 DEF IInv, SignalArmed, EntryOK, ReturnOK
  <2> QED BY <2>2, <2>3, <2>4, <2>5 DEF IInv, TypeOK
<1>7. CASE T2_reset
  <2>1. /\ Task2At("reset", "recv") /\ error' = "EOK"
        /\ UNCHANGED <<stat, flag, sig_pending, sig_mask, sig_entry, sys_pending, position,
                       direction, map, stuck, engine, garbage, mb2_3, mb2_5, obstacles, fired,
                       due>>
    BY <1>7 DEF T2_reset
  <2>2. TypeThreads' /\ PcOK' /\ NoLostWakeup' /\ pc'["Task2"] = "recv"
    BY <2>1, Task2Goto
  <2>3. TypeSignals' /\ TypeRobot' /\ TypeCounters'
    BY <2>1 DEF IInv, TypeOK, TypeSignals, TypeRobot, TypeCounters
  <2>4. SignalArmed' /\ EntryOK' /\ ReturnOK'
    BY <2>1, <2>2 DEF IInv, SignalArmed, EntryOK, ReturnOK
  <2> QED BY <2>1, <2>2, <2>3, <2>4 DEF IInv, TypeOK
<1> QED BY <1>1, <1>2, <1>3, <1>4, <1>5, <1>6, <1>7

\* The steps that clean a tile or move the robot, wherever the robot may be.
LEMMA Task2MoveInv ==
    ASSUME IInv, T2_clean \/ T2_move \/ T2_move_back
    PROVE  IInv'
<1> USE DEF signals, robot, mailboxes, timers
<1>1. PICK from \in {"clean", "move"}, to \in {"move", "decide"} : Task2At(from, to)
  BY DEF T2_clean, T2_move, T2_move_back
<1>2. UNCHANGED <<stat, flag, sig_pending, sig_mask, sig_entry, error, sys_pending, engine,
                  mb2_3, mb2_5, obstacles, fired, due>>
  BY DEF T2_clean, T2_move, T2_move_back
<1>3. TypeThreads' /\ PcOK' /\ NoLostWakeup' /\ pc'["Task2"] = to
  BY <1>1, <1>2, Task2Goto
<1>4. TypeSignals' /\ SignalArmed' /\ EntryOK'
  BY <1>2 DEF IInv, TypeOK, TypeSignals, SignalArmed, EntryOK
<1>5. /\ map' \in [Tiles -> {0, 1, 2}] /\ garbage' \in 0 .. MaxGarbage
      /\ position' \in [{0, 1} -> Int] /\ direction' \in Moves \cup {"RETURN"}
      /\ stuck' \in {0, 1}
      /\ direction = "RETURN" => direction' = "RETURN"
  <2>1. CASE T2_clean
    <3>1. PICK dirty \in BOOLEAN :
            /\ map' = IF dirty THEN Mark(2) ELSE map
            /\ garbage' = IF dirty /\ garbage < MaxGarbage THEN garbage + 1 ELSE garbage
      BY <2>1 DEF T2_clean
    <3>2. map' \in [Tiles -> {0, 1, 2}]
      BY <3>1, MarkType DEF IInv, TypeOK, TypeRobot
    <3>3. garbage' \in 0 .. MaxGarbage
      BY <3>1, MovementAssumption DEF MovementAssumption, IInv, TypeOK, TypeCounters
    <3>4. UNCHANGED <<position, direction, stuck>>
      BY <2>1 DEF T2_clean
    <3> QED BY <3>2, <3>3, <3>4 DEF IInv, TypeOK, TypeRobot
  <2>2. CASE T2_move
    <3>1. UNCHANGED <<map, garbage>> /\ direction # "RETURN" /\ direction \in Moves
      BY <2>2 DEF T2_move, IInv, TypeOK, TypeRobot
    <3>2. PICK foreign \in SUBSET Moves :
            \/ position' = Step(direction) /\ UNCHANGED <<direction, stuck>>
            \/ /\ Candidates(foreign) # {}
               /\ direction' = find_new_position(foreign)
               /\ position' = Step(find_new_position(foreign))
               /\ stuck' = 0
            \/ stuck' = 1 /\ UNCHANGED <<position, direction>>
      BY <2>2 DEF T2_move
    <3>3. position' \in [{0, 1} -> Int] /\ direction' \in Moves /\ stuck' \in {0, 1}
      BY <3>1, <3>2, StepType, FindType DEF IInv, TypeOK, TypeRobot
    <3> QED BY <3>1, <3>3 DEF IInv, TypeOK, TypeRobot, TypeCounters
  <2>3. CASE T2_move_back
    <3>1. UNCHANGED <<map, garbage, stuck, direction>>
          /\ position' \in {position, Step("UP"), Step("LEFT")}
      BY <2>3 DEF T2_move_back
    <3>2. position' \in [{0, 1} -> Int]
      BY <3>1, StepType DEF IInv, TypeOK, TypeRobot, Moves
    <3> QED BY <3>1, <3>2 DEF IInv, TypeOK, TypeRobot, TypeCounters
  <2> QED BY <2>1, <2>2, <2>3
<1>6. TypeRobot' /\ TypeCounters'
  BY <1>2, <1>5 DEF IInv, TypeOK, TypeRobot, TypeCounters
<1>7. ReturnOK'
  BY <1>2, <1>3, <1>5 DEF IInv, ReturnOK
<1> QED BY <1>2, <1>3, <1>4, <1>6, <1>7 DEF IInv, TypeOK

\* Task2 ends, stuck or at home; what is still pending stays pending.
LEMMA Task2ExitInv ==
    ASSUME IInv, T2_stuck \/ T2_home
    PROVE  IInv'
<1> USE DEF signals, robot, mailboxes, timers
<1>1. Task2Exits
  BY DEF T2_stuck, T2_home
<1>2. /\ UNCHANGED <<flag, sig_pending, sig_mask, sig_entry, error, position, direction, map,
                     stuck, engine, garbage, mb2_3, mb2_5, obstacles, fired, due>>
      /\ sys_pending' \in BOOLEAN
  BY DEF T2_stuck, T2_home, IInv, TypeOK, TypeSignals
<1>3. /\ stat' = [stat EXCEPT !["Task2"] = "close"]
      /\ pc' = [pc EXCEPT !["Task2"] = "exit"]
  BY <1>1 DEF Task2Exits, Task2At, Goto
<1>4. TypeThreads' /\ PcOK' /\ NoLostWakeup'
  BY <1>2, <1>3 DEF IInv, TypeOK, TypeThreads, PcOK, NoLostWakeup, Threads
<1>5. TypeSignals' /\ TypeRobot' /\ TypeCounters'
  BY <1>2 DEF IInv, TypeOK, TypeSignals, TypeRobot, TypeCounters
<1>6. SignalArmed' /\ EntryOK' /\ ReturnOK'
  BY <1>2, <1>3 DEF IInv, TypeOK, TypeThreads, SignalArmed, EntryOK, ReturnOK, Threads
<1> QED BY <1>2, <1>4, <1>5, <1>6 DEF IInv, TypeOK

\* Task3 and Task5 only touch the mailboxes.
LEMMA EnvironmentInv ==
    ASSUME IInv, Task3_mails \/ Task5_takes_mail
    PROVE  IInv'
<1> USE DEF signals, robot, mailboxes, timers
<1>1. UNCHANGED <<stat, pc, flag, sig_pending, sig_mask, sig_entry, error, sys_pending,
                  position, direction, map, stuck, engine, garbage, obstacles, fired, due>>
  BY DEF Task3_mails, Task5_takes_mail
<1>2. mb2_3' \in 0 .. MailCap /\ mb2_5' \in 0 .. MailCap
  BY MovementAssumption
     DEF MovementAssumption, Task3_mails, Task5_takes_mail, IInv, TypeOK, TypeCounters
<1>3. TypeThreads' /\ TypeSignals' /\ TypeRobot' /\ TypeCounters'
  BY <1>1, <1>2 DEF IInv, TypeOK, TypeThreads, TypeSignals, TypeRobot, TypeCounters
<1>4. PcOK' /\ NoLostWakeup' /\ SignalArmed' /\ EntryOK' /\ ReturnOK'
  BY <1>1 DEF IInv, PcOK, NoLostWakeup, SignalArmed, EntryOK, ReturnOK
<1> QED BY <1>1, <1>3, <1>4 DEF IInv, TypeOK

LEMMA StutterInv ==
    ASSUME IInv, UNCHANGED vars
    PROVE  IInv'
<1>1. UNCHANGED <<stat, pc, flag, sig_pending, sig_mask, sig_entry, error, sys_pending,
                  position, direction, map, stuck, engine, garbage, mb2_3, mb2_5, obstacles,
                  fired, due>>
  BY DEF vars, signals, robot, mailboxes, timers
<1>2. TypeThreads' /\ TypeSignals' /\ TypeRobot' /\ TypeCounters'
  BY <1>1 DEF IInv, TypeOK, TypeThreads, TypeSignals, TypeRobot, TypeCounters
<1>3. PcOK' /\ NoLostWakeup' /\ SignalArmed' /\ EntryOK' /\ ReturnOK'
  BY <1>1 DEF IInv, PcOK, NoLostWakeup, SignalArmed, EntryOK, ReturnOK
<1> QED BY <1>1, <1>2, <1>3 DEF IInv, TypeOK

LEMMA NextInv == IInv /\ [Next]_vars => IInv'
BY TimerInv, StopInv, ObstacleInv, HandlerInv, Task2RecvInv, Task2QuietInv, Task2MoveInv,
   Task2ExitInv, EnvironmentInv, StutterInv DEF Next, movement_control

\* IInv holds in every reachable state.
THEOREM Invariance == Spec => []IInv
BY InitInv, NextInv, PTL DEF Spec

-----------------------------------------------------------------------------
(* The properties *)

\* Every variable keeps its type, the mailboxes within their capacity.
THEOREM TypeCorrect == Spec => []TypeOK
<1>1. IInv => TypeOK
  BY DEF IInv
<1> QED BY <1>1, Invariance, PTL

\* rt_event_send / rt_event_recv / signal delivery lose no wake-up.
THEOREM NoLostWakeupHolds == Spec => []NoLostWakeup
<1>1. IInv => NoLostWakeup
  BY DEF IInv
<1> QED BY <1>1, Invariance, PTL

\* No SIGUSR1 is left pending behind a living Task2.
THEOREM SignalArmedHolds == Spec => []SignalArmed
<1>1. IInv => SignalArmed
  BY DEF IInv
<1> QED BY <1>1, Invariance, PTL

\* When Task2 writes START it has the CPU, so Task1 and TaskS are asleep with
\* nothing in hand, and no unmasked signal is pending.
LEMMA StartStep ==
    ASSUME IInv, T2_start
    PROVE  ~ObstacleOpen
<1>1. /\ ~sig_entry /\ stat["Task2"] = "ready"
      /\ \A u \in Threads : Priority[u] < Priority["Task2"] => stat[u] # "ready"
  BY DEF T2_start, Task2At, Goto, Running
<1>2. Priority["TaskS"] = 1 /\ Priority["Task1"] = 2 /\ Priority["Task2"] = 3
  BY DEF Priority, Threads
<1>3. stat["TaskS"] = "suspend" /\ stat["Task1"] = "suspend"
  BY <1>1, <1>2 DEF IInv, TypeOK, TypeThreads, PcOK, Threads
<1>4. pc["Task1"] = "return" /\ "TaskS" \notin flag
  BY <1>3 DEF IInv, NoLostWakeup, Threads
<1>5. ~(sig_pending /\ sig_mask)
  BY <1>1 DEF IInv, SignalArmed
<1> QED BY <1>3, <1>4, <1>5 DEF ObstacleOpen

\* Only T2_start takes Task2 from "decide" to "spin".
LEMMA OnlyStartStarts ==
    ASSUME IInv, [Next]_vars, pc["Task2"] = "decide", pc'["Task2"] = "spin"
    PROVE  T2_start
<1>1. ASSUME NEW t \in {"TaskS", "Task1"}, NEW from, NEW to, Goto(t, from, to) PROVE FALSE
  BY <1>1 DEF Goto, IInv, TypeOK, TypeThreads, Threads
<1>2. ASSUME NEW t \in Threads, event_recv(t) PROVE FALSE
  BY <1>2 DEF event_recv, IInv, TypeOK, TypeThreads, Threads
<1>3. ASSUME NEW from, NEW to \in {"reset", "recv", "return", "mb_recv", "set_return", "mask",
                                   "mb_send", "clean", "move", "decide", "exit"}, Task2At(from, to)
      PROVE FALSE
  BY <1>3 DEF Task2At, Goto, IInv, TypeOK, TypeThreads, Threads
<1>4. ASSUME UNCHANGED pc PROVE FALSE
  BY <1>4
<1>5. ~timeout_obstacle_control /\ ~timeout_movement_control /\ ~T2_handler
      /\ ~Task3_mails /\ ~Task5_takes_mail /\ ~(UNCHANGED vars)
  BY <1>4 DEF timeout_obstacle_control, timeout_movement_control, T2_handler, Task3_mails,
              Task5_takes_mail, vars
<1>6. ~movement_stop
  BY <1>1, <1>2 DEF movement_stop, S_recv, S_return, S_write, Threads
<1>7. ~obstacle_control
  BY <1>1, <1>2 DEF obstacle_control, T1_recv, T1_return, T1_read, T1_kill, T1_send, T1_spin,
                    Threads
<1>8. ~T2_recv /\ ~T2_return /\ ~T2_mb_recv /\ ~T2_set_return /\ ~T2_mask /\ ~T2_mb_send
      /\ ~T2_clean /\ ~T2_move /\ ~T2_move_back /\ ~T2_stuck /\ ~T2_home /\ ~T2_spin
      /\ ~T2_reset
  BY <1>2, <1>3 DEF T2_recv, T2_return, T2_mb_recv, T2_set_return, T2_mask, T2_mb_send,
                    T2_clean, T2_move, T2_move_back, T2_stuck, T2_home, T2_spin, T2_reset,
                    Task2Exits, Threads
<1> QED BY <1>5, <1>6, <1>7, <1>8 DEF Next, movement_control

\* Task2 never starts the engine over an obstacle Task1 has seen.
THEOREM NoStartOverObstacleHolds == Spec => NoStartOverObstacle
<1>1. IInv /\ [Next]_vars
        => [pc["Task2"] = "decide" /\ pc'["Task2"] = "spin" => ~ObstacleOpen]_vars
  BY OnlyStartStarts, StartStep
<1> QED BY <1>1, Invariance, PTL DEF Spec, NoStartOverObstacle

\* The way home, one step of it.
LEMMA BackStep ==
    ASSUME IInv, T2_move_back, position' # position, Inside
    PROVE  Inside' /\ Distance' = Distance - 1
<1>1. position \in [{0, 1} -> Int] /\ position[0] >= 0 /\ position[1] >= 0
  BY DEF IInv, TypeOK, TypeRobot, Inside
<1>2. CASE position[0] > 0
  <2>1. position' = [position EXCEPT ![0] = @ - 1]
    BY <1>2 DEF T2_move_back, Step
  <2> QED BY <1>1, <1>2, <2>1 DEF Inside, Distance
<1>3. CASE ~(position[0] > 0) /\ position[1] > 0
  <2>1. position' = [position EXCEPT ![1] = @ - 1]
    BY <1>3 DEF T2_move_back, Step
  <2> QED BY <1>1, <1>3, <2>1 DEF Inside, Distance
<1> QED BY <1>2, <1>3 DEF T2_move_back

\* A masked step moves the robot only by T2_move_back and marks no obstacle.
LEMMA MaskedStep ==
    ASSUME IInv, [Next]_vars, ~sig_mask
    PROVE  /\ ~sig_mask' /\ direction' = "RETURN"
           /\ \A i \in Tiles : map'[i] = 1 => map[i] = 1
           /\ position' # position /\ Inside => Inside' /\ Distance' = Distance - 1
<1> USE DEF signals, robot, mailboxes, timers
<1>1. direction = "RETURN"
  BY DEF IInv, ReturnOK
<1>2. ~T2_handler /\ ~T2_move
  BY <1>1 DEF T2_handler, T2_move
<1>3. CASE T2_clean
  <2>1. UNCHANGED <<sig_mask, direction, position>> /\ map' \in {map, Mark(2)}
    BY <1>3 DEF T2_clean
  <2>2. \A i \in Tiles : map'[i] = 1 => map[i] = 1
    BY <2>1 DEF Mark, IInv, TypeOK, TypeRobot
  <2> QED BY <1>1, <2>1, <2>2
<1>4. CASE T2_move_back
  <2>1. UNCHANGED <<sig_mask, direction, map>>
    BY <1>4 DEF T2_move_back
  <2> QED BY <1>1, <1>4, <2>1, BackStep
<1>5. CASE T2_set_return
  BY <1>5 DEF T2_set_return
<1>6. CASE T2_mask
  BY <1>1, <1>6 DEF T2_mask
<1>7. CASE UNCHANGED <<sig_mask, direction, map, position>>
  BY <1>1, <1>7
<1>8. \/ T2_clean \/ T2_move_back \/ T2_set_return \/ T2_mask
      \/ UNCHANGED <<sig_mask, direction, map, position>>
  <2>1. CASE timeout_obstacle_control \/ timeout_movement_control \/ movement_stop
             \/ Task3_mails \/ Task5_takes_mail \/ UNCHANGED vars
    BY <2>1 DEF timeout_obstacle_control, timeout_movement_control, movement_stop, S_recv,
                S_return, S_write, Task3_mails, Task5_takes_mail, vars
  <2>2. CASE obstacle_control
    BY <2>2 DEF obstacle_control, T1_recv, T1_return, T1_read, T1_kill, T1_send, T1_spin
  <2>3. CASE movement_control
    BY <2>3, <1>2 DEF movement_control, T2_recv, T2_return, T2_mb_recv, T2_mb_send, T2_stuck,
                      T2_home, T2_start, T2_spin, T2_reset
  <2> QED BY <2>1, <2>2, <2>3 DEF Next
<1> QED BY <1>3, <1>4, <1>5, <1>6, <1>7, <1>8

\* The return is final: no signal disturbs it and every move is one step nearer.
THEOREM ReturnIsFinalHolds == Spec => ReturnIsFinal
<1>1. IInv /\ [Next]_vars
        => [~sig_mask =>
              /\ ~sig_mask' /\ direction' = "RETURN"
              /\ \A i \in Tiles : map'[i] = 1 => map[i] = 1
              /\ position' # position /\ Inside => Inside' /\ Distance' = Distance - 1]_vars
  BY MaskedStep
<1> QED BY <1>1, Invariance, PTL DEF Spec, ReturnIsFinal

=============================================================================
