---------------------------- MODULE PowerProofs ----------------------------
(***************************************************************************)
(* Proofs about Power, for every battery, threshold and mailbox size and   *)
(* for all address bytes the link can produce: mutual exclusion on the     *)
(* battery, no lost wake-up, when TSystem may sleep on the mutex, and that *)
(* nobody but TSystem runs during the power-off.                           *)
(***************************************************************************)
EXTENDS Power, TLAPS

\* Which statements TSystem may be at.
PcOK == pc["TSystem"] \in {"loop", "take", "wait", "dec", "release", "off", "exit"}

\* The owner of battMutex is where it must be to release it.
OwnerOK ==
    /\ owner \in {"none", "Task3", "TSystem"}
    /\ owner = "Task3" => InSection("Task3")
    /\ owner = "TSystem" => pc["TSystem"] \in {"wait", "dec", "release"}

\* TSystem behind the rt_schedule of rt_mutex_take: it owns the mutex, or a signal
\* has woken it and the handler is still to run.
WaitOK ==
    ~turnOffFlag /\ pc["TSystem"] = "wait" =>
        /\ ~interrupted
        /\ stat["TSystem"] = "ready" => owner = "TSystem" \/ sig_entry

\* With Demoted Task3 outranks TSystem except while TSystem holds the mutex, and the
\* priority TSystem gets back at the release is again below Task3's.
DemotedOK ==
    Demoted =>
        /\ prio["Task3"] = 4
        /\ owner = "Task3" => original = 4
        /\ stat["TSystem"] # "suspend" /\ pc["TSystem"] # "wait"
        /\ ~turnOffFlag =>
              IF owner = "TSystem" THEN original > 4 ELSE prio["TSystem"] > 4
        /\ turnOffFlag /\ pc["TSystem"] = "take" => owner = "none"

\* The stages of the power-off.
ShutdownOK ==
    /\ turnOffFlag <=> ~sig_mask
    /\ nonpreempt <=> turnOffFlag /\ pc["TSystem"] # "exit"
    /\ pc["TSystem"] \in {"off", "exit"} => turnOffFlag
    /\ \A t \in {"Task3", "Task4"} : stat[t] = "close" <=> pc["TSystem"] \in {"off", "exit"}
    /\ stat["TSystem"] = "close" => pc["TSystem"] = "exit"
    /\ pc["TSystem"] = "exit" => stat["TSystem"] # "ready"

\* Threads, mutex and power-off: the part of the invariant that is about control.
Control ==
    /\ TypeThreads /\ PcOK /\ MutexExclusive /\ OwnerOK /\ WaitOK /\ DemotedOK /\ ShutdownOK
    /\ NoLostWakeup

\* The inductive invariant.
IInv == TypeOK /\ Control

-----------------------------------------------------------------------------

LEMMA InitInv == Init => IInv
<1> SUFFICES ASSUME Init PROVE IInv
  OBVIOUS
<1>1. TypeThreads /\ TypeFlags /\ TypeKernel
  <2>1. TypeThreads
    BY DEF Init, TypeThreads, Threads, Priority
  <2>2. TypeFlags
    BY DEF Init, TypeFlags
  <2>3. TypeKernel
    BY DEF Init, TypeKernel
  <2> QED BY <2>1, <2>2, <2>3
<1>2. TypeEnvironment
  <2>1. batteryStatus \in 0 .. Word - 1
        /\ task2 \in {"cleaning", "returning", "home", "stuck", "signalled", "closed"}
    BY PowerAssumption DEF PowerAssumption, Init
  <2>2. garbage \in 0 .. MaxGarbage /\ mb2_3 \in 0 .. MailCap /\ crowd \in 0 .. Slack
    BY PowerAssumption DEF PowerAssumption, Init
  <2> QED BY <2>1, <2>2 DEF TypeEnvironment
<1>3. PcOK /\ MutexExclusive /\ OwnerOK /\ WaitOK /\ ShutdownOK /\ NoLostWakeup
  BY DEF Init, PcOK, MutexExclusive, OwnerOK, WaitOK, ShutdownOK, NoLostWakeup, InSection,
         Waiting, Threads
<1>4. DemotedOK
  BY DEF Init, DemotedOK, Priority, Threads
<1> QED BY <1>1, <1>2, <1>3, <1>4 DEF IInv, TypeOK, Control

\* When TSystem has the CPU: what is asleep and who may own the mutex.
LEMMA TSystemAlone ==
    ASSUME Control, Running("TSystem")
    PROVE  /\ pc["TSystem"] # "exit" /\ stat["TSystem"] # "close"
           /\ ~turnOffFlag => stat["TSystem"] = "ready"
           /\ Demoted /\ ~turnOffFlag /\ owner # "TSystem" => owner = "none"
<1>1. pc["TSystem"] # "exit" /\ stat["TSystem"] # "close"
  BY DEF Running, Control, ShutdownOK
<1>2. ~turnOffFlag => stat["TSystem"] = "ready"
  BY DEF Running, Control, ShutdownOK
<1>3. ASSUME Demoted, ~turnOffFlag, owner # "TSystem" PROVE owner = "none"
  <2>1. prio["Task3"] = 4 /\ prio["TSystem"] > 4 /\ prio["TSystem"] \in Int /\ ~nonpreempt
    BY <1>3 DEF Control, DemotedOK, ShutdownOK, TypeThreads, Threads
  <2>2. stat["Task3"] # "ready" /\ stat["Task3"] # "close"
    BY <1>3, <2>1 DEF Running, Threads, Control, ShutdownOK
  <2>3. stat["Task3"] = "suspend"
    BY <2>2 DEF Control, TypeThreads, Threads
  <2>4. ~InSection("Task3")
    BY <2>3 DEF Control, NoLostWakeup, InSection, Waiting
  <2> QED BY <1>3, <2>4 DEF Control, OwnerOK
<1> QED BY <1>1, <1>2, <1>3

\* When Task3 or Task4 has the CPU, the power-off has not begun.
LEMMA TaskRuns ==
    ASSUME Control, NEW t \in {"Task3", "Task4"}, Running(t)
    PROVE  ~turnOffFlag /\ ~nonpreempt /\ stat[t] = "ready"
BY DEF Control, Running, ShutdownOK, TypeThreads, Threads

\* The three bytes are bytes.
LEMMA ByteType ==
    ASSUME Control
    PROVE  /\ byte["Task3"] \in 0 .. 255 /\ byte["TSystem"] \in 0 .. 255
           /\ byte["mutex"] \in 0 .. 255
BY PowerAssumption DEF PowerAssumption, Control, TypeThreads

\* Task3's timer.
LEMMA TimerControl == ASSUME Control, timeout_check_resources PROVE Control'
<1> USE DEF timeout_check_resources, mutex, signals, levels, machine
<1>1. TypeThreads' /\ PcOK' /\ MutexExclusive'
  BY DEF Control, TypeThreads, PcOK, MutexExclusive, InSection, Waiting, Threads, Demoted
<1>2. OwnerOK' /\ WaitOK' /\ DemotedOK' /\ ShutdownOK'
  BY DEF Control, TypeThreads, OwnerOK, WaitOK, DemotedOK, Demoted, ShutdownOK, InSection,
         Waiting, Threads
<1>3. NoLostWakeup'
  BY DEF Control, TypeThreads, NoLostWakeup, Threads
<1> QED BY <1>1, <1>2, <1>3 DEF Control

LEMMA Task3Control == ASSUME Control, check_resources PROVE Control'
<1> USE DEF Goto, mutex, signals, levels, events, machine, Control, TypeThreads, PcOK,
            MutexExclusive, OwnerOK, WaitOK, DemotedOK, Demoted, ShutdownOK, NoLostWakeup,
            InSection, Waiting, Threads
<1>0. ~turnOffFlag /\ ~nonpreempt /\ stat["Task3"] = "ready"
  BY TaskRuns DEF check_resources, T3_recv, T3_return, T3_take, T3_check, T3_kill, T3_warn,
     T3_mail, T3_release, T3_bag, T3_warn2, T3_mail2, T3_spin
<1>1. CASE T3_recv
  BY <1>0, <1>1 DEF T3_recv
<1>2. CASE T3_return \/ T3_bag \/ T3_spin \/ T3_mail2
  BY <1>0, <1>2 DEF T3_return, T3_bag, T3_spin, T3_mail2
<1>3. CASE T3_take
  <2>1. CASE owner = "none"
    BY <1>0, <1>3, <2>1 DEF T3_take
  <2>2. CASE owner # "none"
    <3>1. owner = "TSystem" /\ pc["Task3"] = "take"
      BY <1>3, <2>2 DEF T3_take
    <3>2. /\ pc' = [pc EXCEPT !["Task3"] = "check"]
          /\ stat' = [stat EXCEPT !["Task3"] = "suspend"]
          /\ UNCHANGED <<owner, original, byte, nonpreempt, activation, resources, sig_mask,
                         sig_entry, turnOffFlag, interrupted>>
      BY <1>3, <2>2 DEF T3_take
    <3>3. prio' = [prio EXCEPT !["TSystem"] = byte["Task3"]] \/ UNCHANGED prio
      BY <1>3, <2>2, <3>1 DEF T3_take, Inherit, change_priority
    <3>4. halted' \in {"table", halted}
      BY <1>3, <2>2, <3>1 DEF T3_take, Inherit, change_priority
    <3>5. TypeThreads'
      BY <3>2, <3>3, <3>4, ByteType
    <3>6. prio'["Task3"] = prio["Task3"]
      BY <3>3
    <3>7. DemotedOK'
      BY <3>1, <3>2, <3>6
    <3>8. PcOK' /\ MutexExclusive' /\ OwnerOK' /\ WaitOK' /\ ShutdownOK' /\ NoLostWakeup'
      BY <1>0, <3>1, <3>2
    <3> QED BY <3>5, <3>7, <3>8
  <2> QED BY <2>1, <2>2
<1>4. CASE T3_check \/ T3_mail
  BY <1>0, <1>4 DEF T3_check, T3_mail
<1>5. CASE T3_kill
  BY <1>0, <1>5 DEF T3_kill, kill_TSystem
<1>6. CASE T3_warn \/ T3_warn2
  BY <1>0, <1>6 DEF T3_warn, T3_warn2, event_send
<1>7. CASE T3_release
  <2>1. /\ pc["Task3"] = "release" /\ owner = "Task3"
        /\ pc' = [pc EXCEPT !["Task3"] = "bag"]
        /\ UNCHANGED <<byte, nonpreempt, activation, resources, sig_mask, sig_entry,
                       turnOffFlag, interrupted>>
    BY <1>0, <1>7 DEF T3_release
  <2>2. /\ prio' = [prio EXCEPT !["Task3"] = byte["mutex"]] \/ UNCHANGED prio
        /\ original = prio["Task3"] => UNCHANGED prio
    BY <1>7 DEF T3_release, Restore, change_priority
  <2>3. halted' \in {"table", halted}
    BY <1>7 DEF T3_release, Restore, change_priority
  <2>4. \/ /\ stat["TSystem"] = "suspend" /\ owner' = "TSystem"
           /\ stat' = [stat EXCEPT !["TSystem"] = "ready"]
        \/ stat["TSystem"] # "suspend" /\ owner' = "none" /\ UNCHANGED stat
    BY <1>7 DEF T3_release, HandOver
  <2>5. TypeThreads'
    BY <2>1, <2>2, <2>3, <2>4, ByteType
  <2>6. DemotedOK'
    <3> SUFFICES ASSUME Demoted PROVE DemotedOK'
      BY <2>1
    <3>1. UNCHANGED prio /\ owner' = "none" /\ UNCHANGED stat
      BY <2>1, <2>2, <2>4
    <3> QED BY <2>1, <3>1
  <2>7. PcOK' /\ MutexExclusive' /\ OwnerOK' /\ WaitOK' /\ ShutdownOK' /\ NoLostWakeup'
    BY <1>0, <2>1, <2>4
  <2> QED BY <2>5, <2>6, <2>7
<1> QED BY <1>1, <1>2, <1>3, <1>4, <1>5, <1>6, <1>7 DEF check_resources

LEMMA Task4Control == ASSUME Control, acoustic_signals PROVE Control'
<1> USE DEF Goto, mutex, signals, levels, events, machine, Control, TypeThreads, PcOK,
            MutexExclusive, OwnerOK, WaitOK, DemotedOK, Demoted, ShutdownOK, NoLostWakeup,
            InSection, Waiting, Threads
<1>0. ~turnOffFlag /\ ~nonpreempt /\ stat["Task4"] = "ready"
  BY TaskRuns DEF acoustic_signals, T4_recv, T4_alarm, T4_spin
<1>1. CASE T4_recv
  BY <1>0, <1>1 DEF T4_recv
<1>2. CASE T4_alarm \/ T4_spin
  BY <1>0, <1>2 DEF T4_alarm, T4_spin
<1> QED BY <1>1, <1>2 DEF acoustic_signals

\* rt_mutex_take by TSystem, at the first try or in the retry after the signal.
LEMMA TakeControl ==
    ASSUME Control, Running("TSystem"), ~sig_entry,
           pc["TSystem"] \in {"take", "wait"}, pc["TSystem"] = "wait" => interrupted,
           \/ Grab /\ pc' = [pc EXCEPT !["TSystem"] = "dec"]
           \/ Sleep /\ pc' = [pc EXCEPT !["TSystem"] = "wait"],
           pc["TSystem"] = "take" => ~interrupted',
           UNCHANGED <<byte, nonpreempt, activation, resources, sig_mask, sig_entry, turnOffFlag>>
    PROVE  Control'
<1> USE DEF Control, TypeThreads, PcOK, MutexExclusive, OwnerOK, WaitOK, DemotedOK, Demoted,
            ShutdownOK, NoLostWakeup, InSection, Waiting, Threads
<1>0. /\ pc["TSystem"] # "exit" /\ stat["TSystem"] # "close"
      /\ ~turnOffFlag => stat["TSystem"] = "ready"
      /\ Demoted /\ ~turnOffFlag /\ owner # "TSystem" => owner = "none"
  BY TSystemAlone
<1>1. CASE Grab /\ pc' = [pc EXCEPT !["TSystem"] = "dec"]
  BY <1>0, <1>1 DEF Grab
<1>2. CASE Sleep /\ pc' = [pc EXCEPT !["TSystem"] = "wait"]
  <2>1. /\ owner # "none" /\ UNCHANGED <<owner, original>>
        /\ stat' = [stat EXCEPT !["TSystem"] = "suspend"]
    BY <1>2 DEF Sleep
  <2>2. \E t \in Threads : prio' = [prio EXCEPT ![t] = byte["TSystem"]] \/ UNCHANGED prio
    BY <1>2, <2>1 DEF Sleep, Inherit, change_priority
  <2>3. halted' \in {"table", halted}
    BY <1>2 DEF Sleep, Inherit, change_priority
  <2>4. ~Demoted
    BY <1>0, <2>1
  <2>5. TypeThreads'
    BY <1>2, <2>1, <2>2, <2>3, ByteType
  <2>6. DemotedOK'
    BY <2>4
  <2>7. ~turnOffFlag => owner = "Task3"
    BY <2>1
  <2>8. PcOK' /\ MutexExclusive' /\ OwnerOK' /\ WaitOK' /\ ShutdownOK' /\ NoLostWakeup'
    BY <1>0, <1>2, <2>1, <2>4, <2>7
  <2> QED BY <2>5, <2>6, <2>8
<1> QED BY <1>1, <1>2

LEMMA TSystemControl == ASSUME Control, TSystem PROVE Control'
<1> USE DEF TSystemAt, Goto, mutex, signals, levels, events, machine
<1>0. Running("TSystem")
  BY DEF TSystem, turnOffSystem, Sys_idle, Sys_due, Sys_take, Sys_taken, Sys_again, Sys_dec,
     Sys_release, closeAllTasks, Sys_off
<1>a. CASE Sys_take
  <2>1. /\ ~sig_entry /\ pc["TSystem"] = "take" /\ interrupted' = FALSE
        /\ UNCHANGED <<byte, nonpreempt, activation, resources, sig_mask, sig_entry, turnOffFlag>>
    BY <1>a DEF Sys_take
  <2>2. \/ Grab /\ pc' = [pc EXCEPT !["TSystem"] = "dec"]
        \/ Sleep /\ pc' = [pc EXCEPT !["TSystem"] = "wait"]
    BY <1>a DEF Sys_take
  <2> QED BY <1>0, <2>1, <2>2, TakeControl
<1>b. CASE Sys_again
  <2>1. /\ ~sig_entry /\ pc["TSystem"] = "wait" /\ interrupted /\ interrupted' = interrupted
        /\ UNCHANGED <<byte, nonpreempt, activation, resources, sig_mask, sig_entry, turnOffFlag>>
    BY <1>b DEF Sys_again
  <2>2. \/ Grab /\ pc' = [pc EXCEPT !["TSystem"] = "dec"]
        \/ Sleep /\ pc' = [pc EXCEPT !["TSystem"] = "wait"]
    BY <1>b DEF Sys_again
  <2> QED BY <1>0, <2>1, <2>2, TakeControl
<1> USE DEF Control, TypeThreads, PcOK, MutexExclusive, OwnerOK, WaitOK, DemotedOK, Demoted,
            ShutdownOK, NoLostWakeup, InSection, Waiting, Threads
<1>c. /\ pc["TSystem"] # "exit" /\ stat["TSystem"] # "close"
      /\ ~turnOffFlag => stat["TSystem"] = "ready"
      /\ Demoted /\ ~turnOffFlag /\ owner # "TSystem" => owner = "none"
  BY <1>0, TSystemAlone
<1>1. CASE turnOffSystem
  BY <1>c, <1>1 DEF turnOffSystem
<1>2. CASE Sys_idle \/ Sys_due
  BY <1>c, <1>2 DEF Sys_idle, Sys_due
<1>3. CASE Sys_taken
  BY <1>c, <1>3 DEF Sys_taken
<1>4. CASE Sys_dec
  BY <1>c, <1>4 DEF Sys_dec
<1>5. CASE Sys_release
  <2>1. /\ pc["TSystem"] = "release" /\ pc' = [pc EXCEPT !["TSystem"] = "loop"]
        /\ UNCHANGED <<byte, nonpreempt, activation, resources, sig_mask, sig_entry,
                       turnOffFlag, interrupted>>
    BY <1>5 DEF Sys_release
  <2>2. CASE owner # "TSystem"
    BY <1>c, <1>5, <2>1, <2>2 DEF Sys_release
  <2>3. CASE owner = "TSystem"
    <3>1. \/ prio' = [prio EXCEPT !["TSystem"] = byte["mutex"]]
          \/ original = prio["TSystem"] /\ UNCHANGED prio
      BY <1>5, <2>3 DEF Sys_release, Restore, change_priority
    <3>2. halted' \in {"table", halted}
      BY <1>5, <2>3 DEF Sys_release, Restore, change_priority
    <3>3. \/ /\ Waiting /\ owner' = "Task3" /\ original' = prio["Task3"]
             /\ stat' = [stat EXCEPT !["Task3"] = "ready"]
          \/ ~Waiting /\ owner' = "none" /\ UNCHANGED stat
      BY <1>5, <2>3 DEF Sys_release, HandOver
    <3>4. TypeThreads'
      BY <2>1, <3>1, <3>2, <3>3, ByteType
    <3>5. DemotedOK'
      BY <2>1, <2>3, <3>1, <3>3
    <3>6. PcOK' /\ MutexExclusive' /\ OwnerOK' /\ WaitOK' /\ ShutdownOK' /\ NoLostWakeup'
      BY <1>c, <2>1, <2>3, <3>3
    <3> QED BY <3>4, <3>5, <3>6
  <2> QED BY <2>2, <2>3
<1>6. CASE closeAllTasks
  <2>1. CASE task2 = "signalled"
    BY <1>c, <1>6, <2>1 DEF closeAllTasks
  <2>2. CASE task2 # "signalled"
    BY <1>c, <1>6, <2>2 DEF closeAllTasks
  <2> QED BY <2>1, <2>2
<1>7. CASE Sys_off
  <2>1. /\ pc["TSystem"] = "off" /\ pc' = [pc EXCEPT !["TSystem"] = "exit"]
        /\ prio' = [prio EXCEPT !["TSystem"] = 10] /\ nonpreempt' = FALSE
        /\ UNCHANGED <<activation, resources, owner, original, sig_mask, sig_entry, turnOffFlag,
                       byte, interrupted, halted>>
    BY <1>7 DEF Sys_off
  <2>2. \/ stat' = [stat EXCEPT !["TSystem"] = "close"]
        \/ stat["TSystem"] = "suspend" /\ stat' = stat
    BY <1>7 DEF Sys_off
  <2>3. TypeThreads' /\ PcOK' /\ WaitOK' /\ DemotedOK' /\ NoLostWakeup'
    BY <2>1, <2>2
  <2>4. MutexExclusive' /\ OwnerOK'
    BY <2>1, <2>2
  <2>5. ShutdownOK'
    BY <2>1, <2>2
  <2> QED BY <2>3, <2>4, <2>5
<1> QED BY <1>a, <1>b, <1>1, <1>2, <1>3, <1>4, <1>5, <1>6, <1>7 DEF TSystem

LEMMA EnvironmentControl == ASSUME Control, Environment \/ UNCHANGED vars PROVE Control'
<1> USE DEF Control, TypeThreads, PcOK, MutexExclusive, OwnerOK, WaitOK, DemotedOK, Demoted,
            ShutdownOK, NoLostWakeup, InSection, Waiting
<1>1. CASE T2_home
  BY <1>1 DEF T2_home, kill_TSystem, events, mutex, machine, levels, Threads
<1>2. CASE UNCHANGED <<stat, pc, activation, resources, mutex, nonpreempt, sig_mask, sig_entry,
                       turnOffFlag, machine>>
  BY <1>2 DEF mutex, machine
<1> QED BY <1>1, <1>2 DEF Environment, Clock, T2_cleans, T2_takes_mail, T2_stuck, T1_signals,
                          vars, events, signals

LEMMA NextControl == ASSUME Control, [Next]_vars PROVE Control'
BY TimerControl, Task3Control, Task4Control, TSystemControl, EnvironmentControl DEF Next

\* The types of the events and the mutex.
LEMMA KernelType == ASSUME IInv, [Next]_vars PROVE TypeKernel'
<1> USE DEF IInv, TypeOK, TypeKernel, mutex, events, machine
<1>1. CASE timeout_check_resources \/ Environment \/ UNCHANGED vars
  BY <1>1 DEF timeout_check_resources, Environment, Clock, T2_cleans, T2_takes_mail, T2_home,
              T2_stuck, T1_signals, vars
<1>2. CASE check_resources
  <2>1. CASE T3_take \/ T3_release
    <3>1. /\ owner' \in {"none", "Task3", "TSystem", owner}
          /\ original' \in {prio["Task3"], prio["TSystem"], 255, original}
          /\ UNCHANGED <<resources, e, speaker>>
      BY <2>1 DEF T3_take, T3_release, HandOver
    <3> QED BY <3>1 DEF TypeThreads, Threads
  <2>2. CASE T3_warn \/ T3_warn2
    BY <2>2 DEF T3_warn, T3_warn2, event_send
  <2>3. CASE T3_recv \/ T3_kill \/ T3_return \/ T3_check \/ T3_mail \/ T3_bag \/ T3_mail2
             \/ T3_spin
    BY <2>3 DEF T3_recv, T3_kill, T3_return, T3_check, T3_mail, T3_bag, T3_mail2, T3_spin
  <2> QED BY <1>2, <2>1, <2>2, <2>3 DEF check_resources
<1>3. CASE acoustic_signals
  BY <1>3 DEF acoustic_signals, T4_recv, T4_alarm, T4_spin
<1>4. CASE TSystem
  <2>1. CASE Sys_take \/ Sys_again \/ Sys_release
    <3>1. /\ owner' \in {"none", "Task3", "TSystem", owner}
          /\ original' \in {prio["Task3"], prio["TSystem"], 255, original}
          /\ UNCHANGED <<resources, e, speaker>>
      BY <2>1 DEF Sys_take, Sys_again, Sys_release, Grab, Sleep, HandOver
    <3> QED BY <3>1 DEF TypeThreads, Threads
  <2>2. CASE turnOffSystem \/ Sys_idle \/ Sys_due \/ Sys_taken \/ Sys_dec \/ closeAllTasks
             \/ Sys_off
    BY <2>2 DEF turnOffSystem, Sys_idle, Sys_due, Sys_taken, Sys_dec, closeAllTasks, Sys_off
  <2> QED BY <1>4, <2>1, <2>2 DEF TSystem
<1> QED BY <1>1, <1>2, <1>3, <1>4 DEF Next

\* The flags are Boolean.
LEMMA FlagsType == ASSUME IInv, [Next]_vars PROVE TypeFlags'
<1> USE DEF IInv, TypeOK, TypeFlags, mutex, signals, levels, events, machine
<1>1. CASE timeout_check_resources
  BY <1>1 DEF timeout_check_resources
<1>2. CASE Environment
  BY <1>2 DEF Environment, Clock, T2_cleans, T2_takes_mail, T2_home, T2_stuck, T1_signals,
              kill_TSystem
<1>3. CASE check_resources
  <2>1. CASE T3_kill
    BY <2>1 DEF T3_kill, kill_TSystem
  <2>2. CASE T3_recv
    BY <2>2 DEF T3_recv
  <2>3. CASE UNCHANGED <<nonpreempt, activation, turnOffFlag, signals, window, interrupted>>
    BY <2>3
  <2> QED BY <1>3, <2>1, <2>2, <2>3
          DEF check_resources, T3_return, T3_take, T3_check, T3_warn, T3_mail, T3_release,
              T3_bag, T3_warn2, T3_mail2, T3_spin
<1>4. CASE acoustic_signals
  BY <1>4 DEF acoustic_signals, T4_recv, T4_alarm, T4_spin
<1>5. CASE TSystem
  BY <1>5 DEF TSystem, turnOffSystem, Sys_idle, Sys_due, Sys_take, Sys_taken, Sys_again,
              Sys_dec, Sys_release, closeAllTasks, Sys_off
<1>6. CASE UNCHANGED vars
  BY <1>6 DEF vars
<1> QED BY <1>1, <1>2, <1>3, <1>4, <1>5, <1>6 DEF Next

\* The battery stays a machine word, the counters stay within their bounds.
LEMMA EnvironmentType == ASSUME IInv, [Next]_vars PROVE TypeEnvironment'
<1> USE PowerAssumption DEF IInv, TypeOK, TypeEnvironment, mutex, signals, levels, events, machine,
                            PowerAssumption
<1>1. CASE timeout_check_resources
  BY <1>1 DEF timeout_check_resources
<1>2. CASE Environment
  BY <1>2 DEF Environment, Clock, T2_cleans, T2_takes_mail, T2_home, T2_stuck, T1_signals
<1>3. CASE check_resources
  BY <1>3 DEF check_resources, T3_recv, T3_return, T3_take, T3_check, T3_kill, T3_warn,
              T3_mail, T3_release, T3_bag, T3_warn2, T3_mail2, T3_spin, mb_send
<1>4. CASE acoustic_signals
  BY <1>4 DEF acoustic_signals, T4_recv, T4_alarm, T4_spin
<1>5. CASE Sys_dec
  <2>1. /\ batteryStatus' = (batteryStatus - DEC_VALUE) % Word
        /\ UNCHANGED <<garbage, mb2_3, window, task2, crowd>>
    BY <1>5 DEF Sys_dec
  <2>2. batteryStatus - DEC_VALUE \in Int /\ Word \in Nat \ {0}
    OBVIOUS
  <2>3. batteryStatus' \in 0 .. Word - 1
    BY <2>1, <2>2
  <2> QED BY <2>1, <2>3
<1>6. CASE turnOffSystem \/ Sys_idle \/ Sys_due \/ Sys_take \/ Sys_taken \/ Sys_again
           \/ Sys_release \/ closeAllTasks \/ Sys_off
  BY <1>6 DEF turnOffSystem, Sys_idle, Sys_due, Sys_take, Sys_taken, Sys_again, Sys_release,
              closeAllTasks, Sys_off
<1>7. CASE UNCHANGED vars
  BY <1>7 DEF vars
<1> QED BY <1>1, <1>2, <1>3, <1>4, <1>5, <1>6, <1>7 DEF Next, TSystem

LEMMA NextInv == IInv /\ [Next]_vars => IInv'
<1> SUFFICES ASSUME IInv, [Next]_vars PROVE IInv'
  OBVIOUS
<1>1. Control'
  BY NextControl DEF IInv
<1>2. TypeOK'
  BY <1>1, KernelType, FlagsType, EnvironmentType DEF TypeOK, Control
<1> QED BY <1>1, <1>2 DEF IInv

\* IInv holds in every reachable state.
THEOREM Invariance == Spec => []IInv
BY InitInv, NextInv, PTL DEF Spec

-----------------------------------------------------------------------------
(* The properties *)

\* Every variable keeps its type; batteryStatus stays a machine word.
THEOREM TypeCorrect == Spec => []TypeOK
<1>1. IInv => TypeOK
  BY DEF IInv
<1> QED BY <1>1, Invariance, PTL

\* Whoever reads or writes the battery between take and release owns battMutex.
THEOREM MutexExclusiveHolds == Spec => []MutexExclusive
<1>1. IInv => MutexExclusive
  BY DEF IInv, Control
<1> QED BY <1>1, Invariance, PTL

\* Task3 and Task4 never sleep past an activation, a release or an alarm.
THEOREM NoLostWakeupHolds == Spec => []NoLostWakeup
<1>1. IInv => NoLostWakeup
  BY DEF IInv, Control
<1> QED BY <1>1, Invariance, PTL

\* Unless a contended release stores a byte of at most Task3's priority, TSystem
\* never sleeps on battMutex, whatever priority it inherits meanwhile.
THEOREM TSystemNeverBlocksHolds == Spec => []TSystemNeverBlocks
<1>1. IInv => TSystemNeverBlocks
  BY DEF IInv, Control, DemotedOK, TSystemNeverBlocks
<1> QED BY <1>1, Invariance, PTL

\* From turnOffSystem on nobody but TSystem executes.
THEOREM QuietShutdownHolds == Spec => QuietShutdown
<1>1. IInv /\ [Next]_vars
        => [turnOffFlag => pc'["Task3"] = pc["Task3"] /\ pc'["Task4"] = pc["Task4"]]_vars
  <2> SUFFICES ASSUME IInv, Next, turnOffFlag
               PROVE  pc'["Task3"] = pc["Task3"] /\ pc'["Task4"] = pc["Task4"]
    OBVIOUS
  <2>1. ASSUME NEW t \in {"Task3", "Task4"}, Running(t) PROVE FALSE
    BY <2>1, TaskRuns DEF IInv
  <2>2. ~check_resources /\ ~acoustic_signals
    BY <2>1 DEF check_resources, T3_recv, T3_return, T3_take, T3_check, T3_kill, T3_warn,
                T3_mail, T3_release, T3_bag, T3_warn2, T3_mail2, T3_spin, acoustic_signals,
                T4_recv, T4_alarm, T4_spin, Goto
  <2>3. CASE timeout_check_resources \/ Environment
    BY <2>3 DEF timeout_check_resources, Environment, Clock, T2_cleans, T2_takes_mail, T2_home,
                T2_stuck, T1_signals
  <2>4. CASE TSystem
    <3>1. UNCHANGED pc \/ \E to : pc' = [pc EXCEPT !["TSystem"] = to]
      BY <2>4 DEF TSystem, turnOffSystem, Sys_idle, Sys_due, Sys_take, Sys_taken, Sys_again,
                  Sys_dec, Sys_release, closeAllTasks, Sys_off, TSystemAt, Goto
    <3> QED BY <3>1 DEF IInv, TypeOK, TypeThreads, Threads
  <2> QED BY <2>2, <2>3, <2>4 DEF Next
<1> QED BY <1>1, Invariance, PTL DEF Spec, QuietShutdown
=============================================================================
