---------------------------- MODULE MutexProofs ----------------------------
(***************************************************************************)
(* Proofs about RtMutex for every set of threads, every priority and every *)
(* byte an address may have.  The waiting list is exact whatever signals   *)
(* do; ownership, hand-over and the order of the list are proved as long   *)
(* as no thread has installed a signal handler.                            *)
(***************************************************************************)
EXTENDS RtMutex, WaitingLists, SequenceTheorems, TLAPS

Sleeping == {t \in Threads : stat[t] = "suspend" /\ call[t] # "enlist"}

\* Whoever sleeps is inside rt_mutex_take, a thread outside it is ready, and the thread
\* that lingers on the CPU behind its rt_thread_suspend is suspended.
ListInv ==
    /\ IsList(suspend_thread, Threads) /\ ToSet(suspend_thread) = Sleeping
    /\ \A t \in Threads : call[t] = "none" => stat[t] = "ready"
    /\ lingers \in Threads => stat[lingers] = "suspend"

-----------------------------------------------------------------------------
(* Types *)

LEMMA PriorityTypes ==
    ASSUME TypeOK, NEW t \in Threads
    PROVE  Inherit(t) \/ Restore(t) => current_priority' \in [Threads -> Bytes]
<1>1. current_priority \in [Threads -> Bytes] /\ Address[t] \in Bytes /\ MutexAddress \in Bytes
  BY RtMutexAssumption DEF TypeOK, TypeThreads
<1> QED BY <1>1 DEF Inherit, Restore, change_priority

LEMMA ReturnTypes ==
    ASSUME TypeThreads, NEW t \in Threads, NEW r \in {"EOK", "ETIMEOUT", "ERROR", "EFULL"},
           Return(t, r), current_priority' \in [Threads -> Bytes],
           taken' = taken \/ Remember(t) \/ Forget(t)
    PROVE  TypeThreads'
<1>1. taken' \in [Threads -> 0 .. HoldMax]
  <2>1. HoldMax \in Nat \ {0} /\ taken \in [Threads -> 0 .. HoldMax]
    BY RtMutexAssumption DEF TypeThreads
  <2>2. CASE Remember(t)
    BY <2>1, <2>2 DEF Remember
  <2>3. CASE Forget(t)
    BY <2>1, <2>3 DEF Forget
  <2> QED BY <2>1, <2>2, <2>3
<1> QED BY <1>1 DEF TypeThreads, Return, Timeouts

LEMMA HoldTypes ==
    ASSUME TypeOK, NEW t \in Threads, Hold(t), UNCHANGED current_priority
    PROVE  TypeThreads' /\ hold' \in 0 .. HoldMax
<1>1. HoldMax \in Nat /\ hold \in 0 .. HoldMax /\ current_priority' \in [Threads -> Bytes]
  BY RtMutexAssumption DEF TypeOK, TypeMutex, TypeThreads
<1>2. CASE hold < HoldMax
  <2>1. hold' = hold + 1 /\ Return(t, "EOK") /\ Remember(t)
    BY <1>2 DEF Hold
  <2> QED BY <1>1, <1>2, <2>1, ReturnTypes DEF TypeOK
<1>3. CASE ~(hold < HoldMax)
  <2>1. Return(t, "EFULL") /\ UNCHANGED <<hold, taken>>
    BY <1>3 DEF Hold
  <2> QED BY <1>1, <2>1, ReturnTypes DEF TypeOK
<1> QED BY <1>2, <1>3

LEMMA SuspendTypes ==
    ASSUME TypeOK, NEW t \in Threads, NEW tmo \in Timeouts,
           suspend(t, tmo)
    PROVE  TypeMutex' /\ TypeThreads'
<1>1. current_priority' \in [Threads -> Bytes]
  BY PriorityTypes DEF suspend
<1>2. TypeThreads'
  BY <1>1 DEF suspend, Start, TypeOK, TypeThreads
<1>3. TypeMutex'
  BY DEF suspend, mutex, TypeOK, TypeMutex
<1> QED BY <1>2, <1>3

LEMMA GrabTypes ==
    ASSUME TypeOK, NEW t \in Threads, grab(t)
    PROVE  TypeMutex' /\ TypeThreads'
<1>1. value' \in 0 .. ValueMax
  <2>1. value \in Int /\ ValueMax \in Nat
    BY RtMutexAssumption DEF TypeOK, TypeMutex
  <2> QED BY <2>1 DEF grab
<1>2. original_priority' \in Bytes
  BY DEF grab, TypeOK, TypeThreads
<1> QED BY <1>1, <1>2, HoldTypes DEF grab, TypeMutex

LEMMA TakeTypes ==
    ASSUME TypeOK, NEW t \in Threads, NEW tmo \in Timeouts, rt_mutex_take(t, tmo)
    PROVE  TypeMutex' /\ TypeThreads'
<1>1. CASE take_recursive(t)
  BY <1>1, HoldTypes DEF take_recursive, TypeOK, TypeMutex
<1>2. CASE grab(t)
  BY <1>2, GrabTypes
<1>3. CASE take_refused(t)
  BY <1>3, ReturnTypes DEF take_refused, mutex, TypeOK, TypeMutex, TypeThreads
<1>4. CASE suspend(t, tmo)
  BY <1>4, SuspendTypes
<1> QED BY <1>1, <1>2, <1>3, <1>4 DEF rt_mutex_take

\* A statement of the retry moves its thread to the next one.
LEMMA StatementTypes ==
    ASSUME TypeOK, NEW t \in Threads, NEW from,
           NEW to \in {"take", "grab", "own", "original", "hold", "wait", "inherit", "suspend",
                       "enlist", "timer"},
           Statement(t, from, to), current_priority' \in [Threads -> Bytes],
           stat' \in [Threads -> {"ready", "suspend", "assert"}],
           timer' \subseteq Threads, lingers' \in Threads \cup {NoThread}, halted' \in BOOLEAN
    PROVE  TypeThreads'
BY DEF Statement, TypeOK, TypeThreads

LEMMA RetryTypes ==
    ASSUME TypeOK, NEW t \in Threads, NEW from,
           NEW to \in {"take", "grab", "own", "original", "hold", "wait", "inherit", "suspend",
                       "enlist", "timer"},
           Retry(t, from, to), current_priority' \in [Threads -> Bytes]
    PROVE  TypeThreads'
<1>1. /\ stat' \in [Threads -> {"ready", "suspend", "assert"}]
      /\ timer' \subseteq Threads /\ lingers' \in Threads \cup {NoThread} /\ halted' \in BOOLEAN
  BY DEF Retry, TypeOK, TypeThreads
<1> QED BY <1>1, StatementTypes DEF Retry

LEMMA AgainTypes ==
    ASSUME TypeOK, NEW t \in Threads, again(t) \/ again_enlist(t)
    PROVE  TypeMutex' /\ TypeThreads'
<1>0. /\ current_priority \in [Threads -> Bytes] /\ stat \in [Threads -> {"ready", "suspend", "assert"}]
      /\ timer \subseteq Threads /\ lingers \in Threads \cup {NoThread} /\ halted \in BOOLEAN
      /\ Start(t, timeout[t]) \subseteq Threads
  BY DEF TypeOK, TypeThreads, Start
<1>1. CASE take_again(t)
  BY <1>0, <1>1, RetryTypes DEF take_again, mutex, TypeOK, TypeMutex
<1>2. CASE again_value(t)
  <2>1. value' \in 0 .. ValueMax
    <3>1. value \in Int /\ ValueMax \in Nat
      BY RtMutexAssumption DEF TypeOK, TypeMutex
    <3> QED BY <1>2, <3>1 DEF again_value
  <2> QED BY <1>0, <1>2, <2>1, RetryTypes DEF again_value, TypeOK, TypeMutex
<1>3. CASE again_owner(t)
  BY <1>0, <1>3, RetryTypes DEF again_owner, TypeOK, TypeMutex
<1>4. CASE again_original(t)
  BY <1>0, <1>4, RetryTypes DEF again_original, TypeOK, TypeMutex
<1>5. CASE again_hold(t)
  BY <1>0, <1>5, HoldTypes DEF again_hold, TypeOK, TypeMutex
<1>6. CASE again_compare(t)
  <2>1. PICK to \in {"inherit", "suspend"} : Retry(t, "wait", to)
    BY <1>6 DEF again_compare
  <2>2. UNCHANGED <<mutex, current_priority>>
    BY <1>6 DEF again_compare
  <2>3. TypeThreads'
    BY <1>0, <2>1, <2>2, RetryTypes
  <2> QED BY <2>2, <2>3 DEF mutex, TypeOK, TypeMutex
<1>7. CASE again_inherit(t)
  <2>1. UNCHANGED mutex
    BY <1>7 DEF again_inherit
  <2>2. CASE owner \in Threads /\ Retry(t, "inherit", "suspend") /\ change_priority(owner, Address[t])
    <3>1. current_priority' \in [Threads -> Bytes]
      BY <1>0, <2>2, RtMutexAssumption DEF change_priority
    <3> QED BY <2>1, <2>2, <3>1, RetryTypes DEF mutex, TypeOK, TypeMutex
  <2>3. CASE owner = NoThread
    BY <1>0, <1>7, <2>1, <2>3, StatementTypes, RtMutexAssumption DEF again_inherit, mutex, TypeOK, TypeMutex
  <2> QED BY <1>7, <2>2, <2>3 DEF again_inherit
<1>8. CASE again_suspend(t)
  BY <1>0, <1>8, StatementTypes DEF again_suspend, mutex, TypeOK, TypeMutex
<1>9. CASE again_timer(t)
  BY <1>0, <1>9, StatementTypes DEF again_timer, mutex, TypeOK, TypeMutex
<1>10. CASE again_enlists_awake(t)
  BY <1>0, <1>10, StatementTypes DEF again_enlists_awake, mutex, TypeOK, TypeMutex
<1>11. CASE again_enlist(t)
  BY <1>0, <1>11, StatementTypes DEF again_enlist, mutex, TypeOK, TypeMutex
<1> QED BY <1>1, <1>2, <1>3, <1>4, <1>5, <1>6, <1>7, <1>8, <1>9, <1>10, <1>11 DEF again

LEMMA ResumedTypes ==
    ASSUME TypeOK, NEW t \in Threads, take_granted(t) \/ take_fails(t)
    PROVE  TypeMutex' /\ TypeThreads'
<1>1. CASE take_granted(t)
  BY <1>1, ReturnTypes DEF take_granted, mutex, TypeOK, TypeMutex, TypeThreads
<1>2. CASE take_fails(t)
  BY <1>2, ReturnTypes DEF take_fails, mutex, TypeOK, TypeMutex, TypeThreads
<1> QED BY <1>1, <1>2

LEMMA ReleaseTypes ==
    ASSUME TypeOK, NEW t \in Threads, rt_mutex_release(t), suspend_thread # <<>> => Head(suspend_thread) \in Threads
    PROVE  TypeMutex' /\ TypeThreads'
<1>0. /\ HoldMax \in Nat /\ ValueMax \in Nat
      /\ hold \in 0 .. HoldMax /\ value \in 0 .. ValueMax
      /\ current_priority \in [Threads -> Bytes]
  BY RtMutexAssumption DEF TypeOK, TypeMutex, TypeThreads
<1>1. CASE release_refused(t)
  BY <1>0, <1>1, ReturnTypes DEF release_refused, mutex, TypeOK, TypeMutex
<1>2. CASE release_one(t)
  <2>1. hold' \in 0 .. HoldMax
    BY <1>0, <1>2 DEF release_one
  <2> QED BY <1>0, <1>2, <2>1, ReturnTypes DEF release_one, Released, TypeOK, TypeMutex
<1>3. CASE release_hands_over(t)
  <2>1. current_priority' \in [Threads -> Bytes]
    BY <1>3, PriorityTypes DEF release_hands_over
  <2>2. owner' \in Threads /\ original_priority' \in Bytes
    BY <1>3, <2>1 DEF release_hands_over
  <2>3. TypeMutex'
    BY <1>3, <2>2 DEF release_hands_over, TypeOK, TypeMutex
  <2>4. taken' \in [Threads -> 0 .. HoldMax]
    BY <1>0, <1>3 DEF release_hands_over, Forget, TypeOK, TypeThreads
  <2>5. TypeThreads'
    BY <1>3, <2>1, <2>2, <2>4 DEF release_hands_over, TypeOK, TypeThreads, Timeouts
  <2> QED BY <2>3, <2>5
<1>4. CASE release_frees(t)
  <2>1. current_priority' \in [Threads -> Bytes]
    BY <1>4, PriorityTypes DEF release_frees
  <2>2. hold' \in 0 .. HoldMax
    BY <1>0, <1>4 DEF release_frees
  <2>3. CASE value < ValueMax
    <3>1. value' \in 0 .. ValueMax /\ owner' = NoThread /\ original_priority' \in Bytes
      BY <1>0, <1>4, <2>3 DEF release_frees, Bytes
    <3> QED BY <1>4, <2>1, <2>2, <2>3, <3>1, ReturnTypes DEF release_frees, Released, TypeOK, TypeMutex
  <2>4. CASE ~(value < ValueMax)
    BY <1>4, <2>1, <2>2, <2>4, ReturnTypes DEF release_frees, TypeOK, TypeMutex
  <2> QED BY <2>3, <2>4
<1> QED BY <1>1, <1>2, <1>3, <1>4 DEF rt_mutex_release

LEMMA WakeTypes ==
    ASSUME TypeOK, NEW t \in Threads, NEW err \in {"EOK", "ETIMEOUT", "EINTR"}, Wake(t, err)
    PROVE  TypeMutex' /\ TypeThreads'
BY DEF Wake, mutex, TypeOK, TypeMutex, TypeThreads

-----------------------------------------------------------------------------
(* The waiting list *)

\* A step that suspends nobody and resumes nobody.
LEMMA SameLists ==
    ASSUME ListInv, UNCHANGED suspend_thread,
           \A u \in Threads : stat'[u] = "suspend" /\ call'[u] # "enlist"
                              <=> stat[u] = "suspend" /\ call[u] # "enlist",
           \A u \in Threads : call'[u] = "none" => stat'[u] = "ready",
           lingers' \in Threads => stat'[lingers'] = "suspend"
    PROVE  ListInv'
<1>1. Sleeping' = Sleeping
  BY DEF Sleeping
<1> QED BY <1>1 DEF ListInv

LEMMA ReturnLists ==
    ASSUME TypeOK, ListInv, NEW t \in Threads, stat[t] = "ready", NEW r, Return(t, r),
           UNCHANGED suspend_thread
    PROVE  ListInv'
BY SameLists, RtMutexAssumption DEF ListInv, Return, TypeOK, TypeThreads

LEMMA SuspendLists ==
    ASSUME TypeOK, ListInv, NEW t \in Threads, stat[t] = "ready", NEW tmo \in Timeouts, suspend(t, tmo)
    PROVE  ListInv'
<1>1. t \notin Sleeping /\ Sleeping' = Sleeping \cup {t}
  BY DEF Sleeping, suspend, TypeOK, TypeThreads
<1>2. PICK i \in 1 .. Len(suspend_thread) + 1 : suspend_thread' = InsertAt(suspend_thread, i, t)
  BY DEF suspend, ipc_list_suspend
<1>3. IsList(suspend_thread', Threads) /\ ToSet(suspend_thread') = ToSet(suspend_thread) \cup {t}
  BY <1>1, <1>2, InsertList DEF ListInv
<1>4. \A u \in Threads : call'[u] = "none" => stat'[u] = "ready"
  BY DEF ListInv, suspend, TypeOK, TypeThreads
<1>5. lingers' \notin Threads
  BY RtMutexAssumption DEF suspend
<1> QED BY <1>1, <1>3, <1>4, <1>5 DEF ListInv

LEMMA HoldLists ==
    ASSUME TypeOK, ListInv, NEW t \in Threads, stat[t] = "ready", Hold(t), UNCHANGED suspend_thread
    PROVE  ListInv'
BY ReturnLists DEF Hold

LEMMA HandOverLists ==
    ASSUME TypeOK, ListInv, NEW t \in Threads, stat[t] = "ready", release_hands_over(t)
    PROVE  ListInv'
<1> DEFINE h == Head(suspend_thread)
<1>1. /\ h \in Threads /\ h \in Sleeping /\ suspend_thread' = Tail(suspend_thread)
      /\ IsList(suspend_thread', Threads) /\ ToSet(suspend_thread') = ToSet(suspend_thread) \ {h}
  BY TailList DEF ListInv, release_hands_over
<1>2. stat' = [stat EXCEPT ![h] = "ready"] /\ call' = [call EXCEPT ![t] = "none"]
  BY DEF release_hands_over
<1>3. Sleeping' = Sleeping \ {h}
  BY <1>1, <1>2 DEF Sleeping, TypeOK, TypeThreads
<1>4. \A u \in Threads : call'[u] = "none" => stat'[u] = "ready"
  BY <1>1, <1>2 DEF ListInv, TypeOK, TypeThreads
<1>5. lingers' \notin Threads
  BY RtMutexAssumption DEF release_hands_over
<1> QED BY <1>1, <1>3, <1>4, <1>5 DEF ListInv

LEMMA WakeLists ==
    ASSUME TypeOK, ListInv, NEW t \in Threads, NEW err, Wake(t, err)
    PROVE  ListInv'
<1>1. IsList(suspend_thread', Threads) /\ ToSet(suspend_thread') = ToSet(suspend_thread) \ {t}
  BY RemoveList DEF ListInv, Wake
<1>2. Sleeping' = Sleeping \ {t}
  BY DEF Sleeping, Wake, TypeOK, TypeThreads
<1>3. \A u \in Threads : call'[u] = "none" => stat'[u] = "ready"
  BY DEF ListInv, Wake, TypeOK, TypeThreads
<1>4. lingers' \notin Threads
  BY RtMutexAssumption DEF Wake
<1> QED BY <1>1, <1>2, <1>3, <1>4 DEF ListInv

LEMMA TakeLists ==
    ASSUME TypeOK, ListInv, NEW t \in Threads, NEW tmo \in Timeouts, rt_mutex_take(t, tmo)
    PROVE  ListInv'
<1>0. stat[t] = "ready"
  BY DEF rt_mutex_take, ListInv
<1>1. CASE take_recursive(t)
  BY <1>0, <1>1, HoldLists DEF take_recursive
<1>2. CASE grab(t)
  BY <1>0, <1>2, HoldLists DEF grab
<1>3. CASE take_refused(t)
  BY <1>0, <1>3, ReturnLists DEF take_refused
<1>4. CASE suspend(t, tmo)
  BY <1>0, <1>4, SuspendLists
<1> QED BY <1>1, <1>2, <1>3, <1>4 DEF rt_mutex_take

LEMMA RetryLists ==
    ASSUME TypeOK, ListInv, NEW t \in Threads, NEW from, NEW to, to # "none", Retry(t, from, to)
    PROVE  ListInv'
<1>1. /\ stat[t] = "ready" /\ stat' = stat /\ call' = [call EXCEPT ![t] = to]
      /\ lingers' = NoThread /\ UNCHANGED suspend_thread
  BY DEF Retry, Statement
<1> QED BY <1>1, SameLists, RtMutexAssumption DEF ListInv, TypeOK, TypeThreads

LEMMA EnlistLists ==
    ASSUME TypeOK, ListInv, NEW t \in Threads, again_enlist(t)
    PROVE  ListInv'
<1>1. call[t] = "enlist" /\ stat[t] = "suspend" /\ lingers' = lingers /\ stat' = stat
  BY DEF again_enlist, Statement, ListInv
<1>2. CASE UNCHANGED suspend_thread /\ call' = [call EXCEPT ![t] = "enlist"]
  <2>1. call' = call
    BY <1>1, <1>2 DEF TypeOK, TypeThreads
  <2> QED BY <1>1, <1>2, <2>1 DEF ListInv, Sleeping
<1>3. CASE call' = [call EXCEPT ![t] = "timer"] /\ ipc_list_suspend(suspend_thread, suspend_thread', t)
  <2>1. t \notin Sleeping /\ Sleeping' = Sleeping \cup {t}
    BY <1>1, <1>3 DEF Sleeping, TypeOK, TypeThreads
  <2>2. PICK i \in 1 .. Len(suspend_thread) + 1 : suspend_thread' = InsertAt(suspend_thread, i, t)
    BY <1>3 DEF ipc_list_suspend
  <2>3. IsList(suspend_thread', Threads) /\ ToSet(suspend_thread') = ToSet(suspend_thread) \cup {t}
    BY <2>1, <2>2, InsertList DEF ListInv
  <2>4. \A u \in Threads : call'[u] = "none" => stat'[u] = "ready"
    BY <1>1, <1>3 DEF ListInv, TypeOK, TypeThreads
  <2> QED BY <1>1, <2>1, <2>3, <2>4 DEF ListInv
<1> QED BY <1>2, <1>3 DEF again_enlist, Statement

LEMMA AgainLists ==
    ASSUME TypeOK, ListInv, NEW t \in Threads, again(t)
    PROVE  ListInv'
<1>1. CASE take_again(t)
  BY <1>1, RetryLists DEF take_again
<1>2. CASE again_value(t) \/ again_owner(t) \/ again_original(t)
  BY <1>2, RetryLists DEF again_value, again_owner, again_original
<1>3. CASE again_hold(t)
  BY <1>3, HoldLists DEF again_hold
<1>4. CASE again_compare(t)
  <2>1. PICK to \in {"inherit", "suspend"} : Retry(t, "wait", to)
    BY <1>4 DEF again_compare
  <2> QED BY <2>1, RetryLists
<1>5. CASE again_inherit(t) /\ owner \in Threads
  BY <1>5, RetryLists, RtMutexAssumption DEF again_inherit
<1>6. CASE again_inherit(t) /\ owner \notin Threads
  <2>1. /\ stat[t] = "ready" /\ stat' = [stat EXCEPT ![t] = "assert"] /\ lingers' = NoThread
        /\ call[t] = "inherit" /\ call' = [call EXCEPT ![t] = "inherit"] /\ UNCHANGED suspend_thread
    BY <1>6 DEF again_inherit, Statement
  <2> QED BY <2>1, SameLists, RtMutexAssumption DEF ListInv, TypeOK, TypeThreads
<1>7. CASE again_suspend(t)
  <2>1. /\ stat[t] = "ready" /\ stat' = [stat EXCEPT ![t] = "suspend"] /\ lingers' = t
        /\ call' = [call EXCEPT ![t] = "enlist"] /\ UNCHANGED suspend_thread
    BY <1>7 DEF again_suspend, Statement
  <2> QED BY <2>1, SameLists DEF ListInv, TypeOK, TypeThreads
<1>8. CASE again_timer(t)
  <2>1. /\ call[t] = "timer" /\ stat' = stat /\ lingers' = NoThread
        /\ call' = [call EXCEPT ![t] = "take"] /\ UNCHANGED suspend_thread
    BY <1>8 DEF again_timer, Statement
  <2> QED BY <2>1, SameLists, RtMutexAssumption DEF ListInv, TypeOK, TypeThreads
<1>9. CASE again_enlists_awake(t)
  <2>1. /\ stat[t] = "ready" /\ stat' = stat /\ lingers' = NoThread
        /\ call' = [call EXCEPT ![t] = "take"] /\ UNCHANGED suspend_thread
    BY <1>9 DEF again_enlists_awake, Statement
  <2> QED BY <2>1, SameLists, RtMutexAssumption DEF ListInv, TypeOK, TypeThreads
<1> QED BY <1>1, <1>2, <1>3, <1>4, <1>5, <1>6, <1>7, <1>8, <1>9 DEF again

LEMMA ResumedLists ==
    ASSUME TypeOK, ListInv, NEW t \in Threads, take_granted(t) \/ take_fails(t)
    PROVE  ListInv'
BY ReturnLists DEF take_granted, take_fails

LEMMA ReleaseLists ==
    ASSUME TypeOK, ListInv, NEW t \in Threads, rt_mutex_release(t)
    PROVE  ListInv'
<1>0. stat[t] = "ready"
  BY DEF rt_mutex_release, ListInv
<1>1. CASE release_refused(t)
  BY <1>0, <1>1, ReturnLists DEF release_refused
<1>2. CASE release_one(t)
  BY <1>0, <1>2, ReturnLists DEF release_one, Released
<1>3. CASE release_hands_over(t)
  BY <1>0, <1>3, HandOverLists
<1>4. CASE release_frees(t)
  BY <1>0, <1>4, ReturnLists DEF release_frees, Released
<1> QED BY <1>1, <1>2, <1>3, <1>4 DEF rt_mutex_release

BaseInv == TypeOK /\ ListInv

LEMMA BaseInit == Init => BaseInv
<1> SUFFICES ASSUME Init PROVE BaseInv
  OBVIOUS
<1>1. TypeMutex
  BY RtMutexAssumption DEF Init, TypeMutex, Bytes
<1>2. TypeThreads
  <2>1. halted \in BOOLEAN
    BY DEF Init
  <2> QED BY <2>1, RtMutexAssumption DEF Init, TypeThreads, Timeouts
<1>3. ListInv
  <2>1. Sleeping = {}
    BY DEF Init, Sleeping
  <2> QED BY <2>1, EmptyList, RtMutexAssumption DEF Init, ListInv
<1> QED BY <1>1, <1>2, <1>3 DEF Init, BaseInv, TypeOK, ListInv, IsList

\* A step that moves neither the mutex nor a thread: a tick that takes the CPU away,
\* a failing assertion in the interrupt, the installation of a handler.
Idle ==
    /\ UNCHANGED <<mutex, suspend_thread, current_priority, call, stat, timeout, error, result, taken,
                   timer>>
    /\ lingers' \in {lingers, NoThread} /\ halted' \in {halted, TRUE}

LEMMA IdleSteps == tick \/ UNCHANGED calls \/ (\E t \in Threads : rt_signal_install(t)) => Idle
BY DEF tick, calls, threads, cpu, rt_signal_install, Idle

LEMMA TimeoutCases ==
    ASSUME NEW t \in Threads, rt_thread_timeout(t)
    PROVE  (stat[t] = "suspend" /\ Wake(t, "ETIMEOUT")) \/ Idle
BY DEF rt_thread_timeout, Idle

LEMMA IdleBase ==
    ASSUME TypeOK, ListInv, Idle
    PROVE  TypeMutex' /\ TypeThreads' /\ ListInv'
<1>1. TypeMutex'
  BY DEF Idle, mutex, TypeOK, TypeMutex
<1>2. TypeThreads'
  BY DEF Idle, TypeOK, TypeThreads
<1>3. ListInv'
  BY RtMutexAssumption DEF Idle, ListInv, Sleeping
<1> QED BY <1>1, <1>2, <1>3

LEMMA BaseStep == BaseInv /\ [Next]_vars => BaseInv'
<1> SUFFICES ASSUME TypeOK, ListInv, [Next]_vars PROVE TypeMutex' /\ TypeThreads' /\ ListInv'
  <2>1. BaseInv /\ [Next]_vars => (handlers \subseteq Interruptible)'
    BY DEF BaseInv, TypeOK, Next, vars, rt_signal_install
  <2> QED BY <2>1 DEF BaseInv, TypeOK, ListInv, IsList
<1>1. ASSUME NEW t \in Threads, Runs(t) PROVE TypeMutex' /\ TypeThreads' /\ ListInv'
  <2>1. ASSUME NEW tmo \in Timeouts, rt_mutex_take(t, tmo) PROVE TypeMutex' /\ TypeThreads' /\ ListInv'
    BY <2>1, TakeTypes, TakeLists
  <2>2. CASE take_granted(t) \/ take_fails(t)
    BY <2>2, ResumedTypes, ResumedLists
  <2>3. CASE again(t)
    BY <2>3, AgainTypes, AgainLists
  <2>4. CASE rt_mutex_release(t)
    <3>1. suspend_thread # <<>> => Head(suspend_thread) \in Threads
      BY TailList DEF ListInv
    <3> QED BY <2>4, <3>1, ReleaseTypes, ReleaseLists
  <2> QED BY <1>1, <2>1, <2>2, <2>3, <2>4 DEF Runs
<1>2. ASSUME NEW t \in Threads, NEW err \in {"ETIMEOUT", "EINTR"}, Wake(t, err)
      PROVE  TypeMutex' /\ TypeThreads' /\ ListInv'
  BY <1>2, WakeTypes, WakeLists
<1>3. ASSUME NEW t \in Threads, again_enlist(t) PROVE TypeMutex' /\ TypeThreads' /\ ListInv'
  BY <1>3, AgainTypes, EnlistLists
<1>4. CASE Idle
  BY <1>4, IdleBase
<1>5. ASSUME NEW t \in Threads, rt_thread_timeout(t) PROVE TypeMutex' /\ TypeThreads' /\ ListInv'
  BY <1>2, <1>4, <1>5, TimeoutCases
<1>6. ASSUME NEW t \in Threads, signal(t) PROVE TypeMutex' /\ TypeThreads' /\ ListInv'
  BY <1>2, <1>6 DEF signal
<1>7. CASE Calls
  BY <1>1, <1>3, <1>5, <1>6, <1>7 DEF Calls
<1>8. CASE tick \/ UNCHANGED calls \/ \E t \in Threads : rt_signal_install(t)
  BY <1>4, <1>8, IdleSteps
<1> QED BY <1>7, <1>8 DEF Next, vars

LEMMA BaseAlways == Spec => []BaseInv
BY BaseInit, BaseStep, PTL DEF Spec

\* The counters of the mutex stay within their widths, the priorities are bytes.
THEOREM TypeCorrect == Spec => []TypeOK
<1>1. BaseInv => TypeOK
  BY DEF BaseInv
<1> QED BY <1>1, BaseAlways, PTL

\* The waiting list of rt_mutex_take and the suspended threads agree, through hand-over,
\* time-outs and signals.  A retry, which runs with interrupts enabled, leaves no other
\* gap than the one between its rt_thread_suspend and its place on the list.
THEOREM ListExactHolds == Spec => []ListExact
<1>1. BaseInv => ListExact
  BY DEF BaseInv, ListInv, IsList, Sleeping, ListExact
<1> QED BY <1>1, BaseAlways, PTL

-----------------------------------------------------------------------------
(* Ownership, while no thread has a signal handler *)

\* Nobody is in the retry.
Quiet == \A t \in Threads : /\ error[t] # "EINTR" /\ stat[t] # "assert"
                           /\ call[t] \in {"none", "take"}

\* A sleeping thread has its error reset and is not the owner.
SleepersWait == \A t \in Threads : stat[t] = "suspend" => error[t] = "EOK" /\ owner # t

\* The value says whether there is an owner, and only an owned mutex has waiters.
FreeOK ==
    /\ value = IF owner = NoThread THEN 1 ELSE 0
    /\ suspend_thread # <<>> => owner # NoThread

\* HoldersAgree, thread by thread.
OwnerOf(t) ==
    IF owner = t
    THEN hold = taken[t] + (IF HandedOver(t) THEN 1 ELSE 0) /\ hold > 0
    ELSE taken[t] = 0 /\ ~HandedOver(t)

OwnInv == Quiet /\ SleepersWait /\ FreeOK /\ HoldersAgree

\* What the invariants say of the thread that runs.
LEMMA Facts ==
    ASSUME BaseInv, OwnInv, NEW t \in Threads
    PROVE  /\ OwnerOf(t) /\ NoThread # t
           /\ hold \in Nat /\ taken[t] \in 0 .. HoldMax /\ HoldMax \in Nat \ {0} /\ hold <= HoldMax
BY RtMutexAssumption DEF BaseInv, TypeOK, TypeMutex, TypeThreads, OwnInv, HoldersAgree, OwnerOf

\* A step of t that ends a call and changes nothing else of the threads.
LEMMA ReturnOwn ==
    ASSUME BaseInv, OwnInv, NEW t \in Threads, NEW r, Return(t, r), UNCHANGED <<suspend_thread, value, owner>>,
           stat[t] = "ready", hold' \in Nat,
           \A u \in Threads \ {t} : taken'[u] = taken[u],
           owner # t => hold' = hold /\ taken'[t] = taken[t],
           owner = t => hold' = taken'[t] /\ hold' > 0
    PROVE  OwnInv'
<1>1. call' = [call EXCEPT ![t] = "none"] /\ error' = [error EXCEPT ![t] = "EOK"] /\ stat' = stat
  BY DEF Return
<1>2. Quiet'
  BY <1>1 DEF Quiet, OwnInv, BaseInv, TypeOK, TypeThreads
<1>3. SleepersWait'
  BY <1>1 DEF SleepersWait, OwnInv, BaseInv, TypeOK, TypeThreads
<1>4. FreeOK'
  BY DEF FreeOK, OwnInv
<1>5. ~HandedOver(t)' /\ \A u \in Threads \ {t} : HandedOver(u)' = HandedOver(u)
  BY <1>1 DEF HandedOver, BaseInv, TypeOK, TypeThreads
<1>6. owner = NoThread => hold = 0
  BY DEF OwnInv, HoldersAgree
<1>7. ASSUME NEW u \in Threads PROVE OwnerOf(u)'
  <2>1. OwnerOf(u) /\ NoThread # u /\ hold \in Nat /\ taken[u] \in 0 .. HoldMax /\ HoldMax \in Nat
    BY Facts
  <2>2. CASE u = t
    BY <1>5, <2>1, <2>2 DEF OwnerOf
  <2>3. CASE u # t
    <3>1. taken'[u] = taken[u] /\ HandedOver(u)' = HandedOver(u) /\ owner' = owner
      BY <1>5, <2>3
    <3>2. CASE owner = u
      <4>1. hold' = hold
        BY <2>3, <3>2
      <4> QED BY <2>1, <3>1, <3>2, <4>1 DEF OwnerOf
    <3>3. CASE owner # u
      BY <2>1, <3>1, <3>3 DEF OwnerOf
    <3> QED BY <3>2, <3>3
  <2> QED BY <2>2, <2>3
<1>8. owner' = NoThread => hold' = 0
  BY <1>6, Facts
<1>9. HoldersAgree'
  BY <1>7, <1>8 DEF HoldersAgree, OwnerOf
<1> QED BY <1>2, <1>3, <1>4, <1>9 DEF OwnInv

LEMMA TakenChange ==
    ASSUME BaseInv, NEW t \in Threads
    PROVE  /\ Remember(t) => /\ taken'[t] = IF taken[t] < HoldMax THEN taken[t] + 1 ELSE HoldMax
                             /\ \A u \in Threads \ {t} : taken'[u] = taken[u]
           /\ Forget(t) => /\ taken'[t] = IF taken[t] > 0 THEN taken[t] - 1 ELSE 0
                           /\ \A u \in Threads \ {t} : taken'[u] = taken[u]
BY DEF BaseInv, TypeOK, TypeThreads, Remember, Forget

LEMMA RecursiveOwn ==
    ASSUME BaseInv, OwnInv, NEW t \in Threads, call[t] = "none", take_recursive(t)
    PROVE  OwnInv'
<1>1. owner = t /\ stat[t] = "ready" /\ hold = taken[t] /\ hold > 0
  BY Facts DEF take_recursive, OwnerOf, HandedOver, BaseInv, ListInv
<1>2. hold \in Nat /\ HoldMax \in Nat
  BY Facts
<1>3. CASE hold < HoldMax
  BY <1>1, <1>2, <1>3, TakenChange, ReturnOwn DEF take_recursive, Hold
<1>4. CASE ~(hold < HoldMax)
  BY <1>1, <1>2, <1>4, ReturnOwn DEF take_recursive, Hold
<1> QED BY <1>3, <1>4

LEMMA GrabOwn ==
    ASSUME BaseInv, OwnInv, NEW t \in Threads, call[t] = "none", value > 0, grab(t)
    PROVE  OwnInv'
<1>1. owner = NoThread /\ hold = 0 /\ value = 1 /\ suspend_thread = <<>>
  BY DEF OwnInv, FreeOK, HoldersAgree
<1>2. \A u \in Threads : taken[u] = 0 /\ ~HandedOver(u) /\ u # NoThread
  BY <1>1, Facts DEF OwnerOf
<1>3. hold < HoldMax /\ ValueMax \in Nat \ {0}
  BY <1>1, Facts, RtMutexAssumption
<1>4. /\ value' = 0 /\ owner' = t /\ hold' = 1 /\ Return(t, "EOK") /\ Remember(t)
      /\ UNCHANGED suspend_thread
  BY <1>1, <1>3 DEF grab, Hold
<1>5. taken'[t] = 1 /\ \A u \in Threads \ {t} : taken'[u] = 0
  BY <1>2, <1>4, Facts, TakenChange
<1>6. call' = [call EXCEPT ![t] = "none"] /\ error' = [error EXCEPT ![t] = "EOK"] /\ stat' = stat
  BY <1>4 DEF Return
<1>7. Quiet'
  BY <1>6 DEF Quiet, OwnInv, BaseInv, TypeOK, TypeThreads
<1>8. SleepersWait'
  BY <1>4, <1>6 DEF SleepersWait, OwnInv, BaseInv, ListInv, TypeOK, TypeThreads
<1>9. \A u \in Threads : ~HandedOver(u)'
  BY <1>2, <1>6 DEF HandedOver, BaseInv, TypeOK, TypeThreads
<1>10. HoldersAgree'
  BY <1>2, <1>4, <1>5, <1>9 DEF HoldersAgree
<1>11. FreeOK'
  BY <1>1, <1>2, <1>4 DEF FreeOK
<1> QED BY <1>7, <1>8, <1>10, <1>11 DEF OwnInv

LEMMA SuspendOwn ==
    ASSUME BaseInv, OwnInv, NEW t \in Threads, call[t] = "none", NEW tmo, owner # t, value = 0,
           suspend(t, tmo)
    PROVE  OwnInv'
<1>1. owner # NoThread
  BY DEF OwnInv, FreeOK
<1>2. /\ call' = [call EXCEPT ![t] = "take"] /\ error' = [error EXCEPT ![t] = "EOK"]
      /\ stat' = [stat EXCEPT ![t] = "suspend"] /\ UNCHANGED <<value, owner, hold, taken>>
  BY DEF suspend, mutex
<1>3. Quiet'
  BY <1>2 DEF Quiet, OwnInv, BaseInv, TypeOK, TypeThreads
<1>4. SleepersWait'
  BY <1>2 DEF SleepersWait, OwnInv, BaseInv, TypeOK, TypeThreads
<1>5. FreeOK'
  BY <1>1, <1>2 DEF FreeOK, OwnInv
<1>6. ~HandedOver(t)' /\ ~HandedOver(t) /\ \A u \in Threads \ {t} : HandedOver(u)' = HandedOver(u)
  BY <1>2 DEF HandedOver, BaseInv, TypeOK, TypeThreads
<1>7. HoldersAgree'
  BY <1>2, <1>6 DEF HoldersAgree, OwnInv
<1> QED BY <1>3, <1>4, <1>5, <1>7 DEF OwnInv

LEMMA ResumedOwn ==
    ASSUME BaseInv, OwnInv, NEW t \in Threads, take_granted(t) \/ take_fails(t)
    PROVE  OwnInv'
<1>1. CASE take_granted(t)
  <2>1. HandedOver(t) /\ stat[t] = "ready"
    BY <1>1 DEF take_granted, HandedOver
  <2>2. owner = t /\ hold = taken[t] + 1 /\ hold \in Nat /\ hold <= HoldMax /\ HoldMax \in Nat
        /\ taken[t] \in Nat
    BY <2>1, Facts DEF OwnerOf
  <2>3. taken'[t] = hold /\ \A u \in Threads \ {t} : taken'[u] = taken[u]
    <3>1. Remember(t)
      BY <1>1 DEF take_granted
    <3> QED BY <2>2, <3>1, TakenChange
  <2>4. Return(t, "EOK") /\ UNCHANGED <<suspend_thread, value, owner, hold>>
    BY <1>1 DEF take_granted, mutex
  <2> QED BY <2>1, <2>2, <2>3, <2>4, ReturnOwn
<1>2. CASE take_fails(t)
  <2>1. ~HandedOver(t) /\ stat[t] = "ready"
    BY <1>2 DEF take_fails, HandedOver
  <2>2. OwnerOf(t) /\ hold \in Nat /\ taken[t] \in Nat
    BY Facts
  <2>3. Return(t, error[t]) /\ UNCHANGED <<suspend_thread, value, owner, hold, taken>>
    BY <1>2 DEF take_fails, mutex
  <2> QED BY <2>1, <2>2, <2>3, ReturnOwn DEF OwnerOf
<1> QED BY <1>1, <1>2

\* Without a handler nobody is in the retry.
LEMMA NoRetry ==
    ASSUME OwnInv, NEW t \in Threads
    PROVE  ~again(t) /\ ~again_enlist(t)
BY DEF OwnInv, Quiet, again, take_again, again_value, again_owner, again_original, again_hold,
       again_compare, again_inherit, again_suspend, again_timer, again_enlists_awake, again_enlist,
       Retry, Statement

LEMMA IdleOwn == OwnInv /\ Idle => OwnInv'
BY DEF Idle, mutex, OwnInv, Quiet, SleepersWait, FreeOK, HoldersAgree, HandedOver

LEMMA HandOverOwn ==
    ASSUME BaseInv, OwnInv, NEW t \in Threads, call[t] = "none", release_hands_over(t)
    PROVE  OwnInv'
<1>0. PICK h \in Threads : h = Head(suspend_thread) /\ h \in Sleeping
  BY TailList DEF BaseInv, ListInv, release_hands_over
<1>1. h \in Threads /\ stat[h] = "suspend" /\ stat[t] = "ready" /\ h # t
  BY <1>0 DEF BaseInv, ListInv, Sleeping
<1>2. call[h] = "take" /\ error[h] = "EOK" /\ owner # h
  BY <1>1 DEF OwnInv, Quiet, SleepersWait, BaseInv, ListInv
<1>3. owner = t /\ hold = 1 /\ taken[t] = 1 /\ taken[h] = 0
  <2>1. owner = t /\ hold = 1
    BY DEF release_hands_over
  <2>2. ~HandedOver(t)
    BY DEF HandedOver
  <2>3. taken[t] = 1
    BY <2>1, <2>2, Facts DEF OwnerOf
  <2>4. taken[h] = 0
    BY <1>1, <1>2, Facts DEF OwnerOf
  <2> QED BY <2>1, <2>3, <2>4
<1>4. /\ owner' = h /\ hold' = 1 /\ value' = value
      /\ stat' = [stat EXCEPT ![h] = "ready"] /\ call' = [call EXCEPT ![t] = "none"]
      /\ error' = [error EXCEPT ![t] = "EOK"] /\ Forget(t)
  BY <1>0, <1>3 DEF release_hands_over
<1>5. taken'[t] = 0 /\ \A u \in Threads \ {t} : taken'[u] = taken[u]
  BY <1>3, <1>4, TakenChange
<1>6. Quiet'
  BY <1>4 DEF Quiet, OwnInv, BaseInv, TypeOK, TypeThreads
<1>7. SleepersWait'
  BY <1>1, <1>4 DEF SleepersWait, OwnInv, BaseInv, TypeOK, TypeThreads
<1>8. FreeOK'
  BY <1>1, <1>3, <1>4, Facts DEF FreeOK, OwnInv
<1>9. HandedOver(h)' /\ ~HandedOver(t)' /\ \A u \in Threads \ {t, h} : HandedOver(u)' = HandedOver(u)
  BY <1>1, <1>2, <1>4 DEF HandedOver, BaseInv, TypeOK, TypeThreads
<1>10. ASSUME NEW u \in Threads PROVE OwnerOf(u)'
  <2>1. CASE u = h
    BY <1>1, <1>3, <1>4, <1>5, <1>9, <2>1 DEF OwnerOf
  <2>2. CASE u = t
    BY <1>1, <1>4, <1>5, <1>9, <2>2 DEF OwnerOf
  <2>3. CASE u # h /\ u # t
    <3>1. taken[u] = 0 /\ ~HandedOver(u)
      BY <1>3, <2>3, Facts DEF OwnerOf
    <3> QED BY <1>4, <1>5, <1>9, <2>3, <3>1 DEF OwnerOf
  <2> QED BY <2>1, <2>2, <2>3
<1>11. owner' # NoThread
  BY <1>1, <1>4, Facts
<1>12. HoldersAgree'
  BY <1>10, <1>11 DEF HoldersAgree, OwnerOf
<1> QED BY <1>6, <1>7, <1>8, <1>12 DEF OwnInv

LEMMA FreeOwn ==
    ASSUME BaseInv, OwnInv, NEW t \in Threads, call[t] = "none", release_frees(t)
    PROVE  OwnInv'
<1>1. owner = t /\ hold = 1 /\ suspend_thread = <<>> /\ stat[t] = "ready"
  BY DEF release_frees, BaseInv, ListInv
<1>2. value = 0 /\ taken[t] = 1 /\ ValueMax \in Nat \ {0}
  BY <1>1, Facts, RtMutexAssumption DEF OwnInv, FreeOK, OwnerOf, HandedOver
<1>3. /\ value' = 1 /\ owner' = NoThread /\ hold' = 0 /\ Return(t, "EOK") /\ Forget(t)
      /\ UNCHANGED suspend_thread
  BY <1>2 DEF release_frees, Released
<1>4. \A u \in Threads : taken'[u] = 0
  <2>1. taken'[t] = 0 /\ \A u \in Threads \ {t} : taken'[u] = taken[u]
    BY <1>2, <1>3, TakenChange
  <2>2. \A u \in Threads \ {t} : taken[u] = 0
    BY <1>1, Facts DEF OwnerOf
  <2> QED BY <2>1, <2>2
<1>5. call' = [call EXCEPT ![t] = "none"] /\ error' = [error EXCEPT ![t] = "EOK"] /\ stat' = stat
  BY <1>3 DEF Return
<1>6. Quiet'
  BY <1>5 DEF Quiet, OwnInv, BaseInv, TypeOK, TypeThreads
<1>7. SleepersWait'
  BY <1>3, <1>5, Facts DEF SleepersWait, OwnInv, BaseInv, TypeOK, TypeThreads
<1>8. FreeOK'
  BY <1>1, <1>3 DEF FreeOK
<1>9. \A u \in Threads : ~HandedOver(u)'
  <2>1. \A u \in Threads \ {t} : ~HandedOver(u)
    BY <1>1, Facts DEF OwnerOf
  <2> QED BY <1>5, <2>1 DEF HandedOver, BaseInv, TypeOK, TypeThreads
<1>10. HoldersAgree'
  <2>1. \A u \in Threads : owner' # u
    BY <1>3, Facts
  <2> QED BY <1>3, <1>4, <1>9, <2>1 DEF HoldersAgree
<1> QED BY <1>6, <1>7, <1>8, <1>10 DEF OwnInv

LEMMA ReleaseOwn ==
    ASSUME BaseInv, OwnInv, NEW t \in Threads, rt_mutex_release(t)
    PROVE  OwnInv'
<1>1. call[t] = "none" /\ stat[t] = "ready" /\ ~HandedOver(t)
  BY DEF rt_mutex_release, HandedOver, BaseInv, ListInv
<1>2. OwnerOf(t) /\ hold \in Nat /\ taken[t] \in Nat
  BY Facts
<1>3. CASE release_refused(t)
  <2>1. owner # t /\ Return(t, "ERROR") /\ UNCHANGED <<suspend_thread, value, owner, hold, taken>>
    BY <1>3 DEF release_refused, mutex
  <2> QED BY <1>1, <1>2, <2>1, ReturnOwn
<1>4. CASE release_one(t)
  <2>0. /\ owner = t /\ hold # 1 /\ hold' = (hold - 1) % (HoldMax + 1) /\ Return(t, "EOK") /\ Forget(t)
        /\ UNCHANGED <<suspend_thread, value, owner>>
    BY <1>4 DEF release_one, Released
  <2>1. hold > 1 /\ hold' = hold - 1
    <3>1. hold > 1 /\ hold <= HoldMax /\ HoldMax \in Nat
      BY <1>2, <2>0, Facts DEF OwnerOf
    <3> QED BY <1>2, <2>0, <3>1
  <2>2. hold = taken[t]
    BY <1>1, <1>2, <2>0 DEF OwnerOf
  <2>3. taken'[t] = hold - 1 /\ \A u \in Threads \ {t} : taken'[u] = taken[u]
    BY <1>2, <2>0, <2>1, <2>2, TakenChange
  <2>4. hold' \in Nat /\ hold' > 0 /\ hold' = taken'[t]
    BY <1>2, <2>1, <2>3
  <2> QED BY <1>1, <2>0, <2>1, <2>3, <2>4, ReturnOwn
<1>5. CASE release_hands_over(t)
  BY <1>1, <1>5, HandOverOwn
<1>6. CASE release_frees(t)
  BY <1>1, <1>6, FreeOwn
<1> QED BY <1>3, <1>4, <1>5, <1>6 DEF rt_mutex_release

LEMMA TimeoutOwn ==
    ASSUME BaseInv, OwnInv, NEW t \in Threads, stat[t] = "suspend", Wake(t, "ETIMEOUT")
    PROVE  OwnInv'
<1>1. /\ stat' = [stat EXCEPT ![t] = "ready"]
      /\ error' = [error EXCEPT ![t] = "ETIMEOUT"] /\ UNCHANGED <<value, owner, hold, call, taken>>
      /\ suspend_thread' = RemoveFirst(suspend_thread, t)
  BY DEF Wake, mutex
<1>2. Quiet'
  BY <1>1 DEF Quiet, OwnInv, BaseInv, TypeOK, TypeThreads
<1>3. SleepersWait'
  BY <1>1 DEF SleepersWait, OwnInv, BaseInv, TypeOK, TypeThreads
<1>4. suspend_thread # <<>>
  <2>1. t \in ToSet(suspend_thread)
    BY DEF BaseInv, ListInv, Sleeping, OwnInv, Quiet
  <2> QED BY <2>1, EmptyList
<1>5. FreeOK'
  BY <1>1, <1>4 DEF FreeOK, OwnInv
<1>6. \A u \in Threads : HandedOver(u)' = HandedOver(u)
  BY <1>1 DEF HandedOver, BaseInv, TypeOK, TypeThreads
<1>7. HoldersAgree'
  BY <1>1, <1>6 DEF HoldersAgree, OwnInv
<1> QED BY <1>2, <1>3, <1>5, <1>7 DEF OwnInv

LEMMA OwnCalls ==
    ASSUME BaseInv, OwnInv, handlers = {}, Calls
    PROVE  OwnInv'
<1>1. ASSUME NEW t \in Threads, NEW tmo \in Timeouts, rt_mutex_take(t, tmo) PROVE OwnInv'
  <2>0. call[t] = "none" /\ stat[t] = "ready"
    BY <1>1 DEF rt_mutex_take, BaseInv, ListInv
  <2>1. CASE take_recursive(t)
    BY <2>0, <2>1, RecursiveOwn
  <2>2. CASE value > 0 /\ grab(t)
    BY <2>0, <2>2, GrabOwn
  <2>3. CASE owner # t /\ take_refused(t)
    <3>1. Return(t, "ETIMEOUT") /\ UNCHANGED <<suspend_thread, value, owner, hold, taken>> /\ hold \in Nat
      BY <2>3, Facts DEF take_refused, mutex
    <3> QED BY <2>0, <2>3, <3>1, ReturnOwn
  <2>4. CASE owner # t /\ value = 0 /\ suspend(t, tmo)
    BY <2>0, <2>4, SuspendOwn
  <2> QED BY <1>1, <2>1, <2>2, <2>3, <2>4 DEF rt_mutex_take
<1>2. ASSUME NEW t \in Threads PROVE ~signal(t)
  BY DEF signal
<1>3. ASSUME NEW t \in Threads, rt_thread_timeout(t) PROVE OwnInv'
  BY <1>3, TimeoutCases, TimeoutOwn, IdleOwn
<1> QED BY <1>1, <1>2, <1>3, ResumedOwn, ReleaseOwn, NoRetry DEF Calls, Runs

\* No thread had a handler before a step that ends with none, and the step is a call.
LEMMA StillSilent ==
    ASSUME [Next]_vars, handlers' = {}
    PROVE  handlers = {} /\ (Calls \/ Idle)
BY IdleSteps DEF Next, vars, rt_signal_install

Owned == handlers = {} => OwnInv

LEMMA OwnStep == BaseInv /\ Owned /\ [Next]_vars => Owned'
<1> SUFFICES ASSUME BaseInv, Owned, [Next]_vars, handlers' = {} PROVE OwnInv'
  BY DEF Owned
<1>1. OwnInv /\ handlers = {} /\ (Calls \/ Idle)
  BY StillSilent DEF Owned
<1>2. CASE Idle
  BY <1>1, <1>2, IdleOwn
<1> QED BY <1>1, <1>2, OwnCalls

LEMMA OwnAlways == Spec => [](BaseInv /\ Owned)
<1>1. Init => Owned
  BY RtMutexAssumption DEF Init, Owned, OwnInv, Quiet, SleepersWait, FreeOK, HoldersAgree, HandedOver
<1>2. BaseInv /\ Owned /\ [Next]_vars => Owned'
  BY OwnStep
<1> QED BY <1>1, <1>2, BaseAlways, PTL DEF Spec

\* rt_mutex_take and rt_mutex_release agree with their callers on who holds the
\* mutex and how often; a take that times out never leaves its thread the owner, and
\* the hand-over leaves no thread waiting for a free mutex or for a sleeping owner.
THEOREM OwnershipExactHolds == Spec => []OwnershipExact
<1>1. Owned => (handlers = {} => HoldersAgree)
  BY DEF Owned, OwnInv
<1>2. BaseInv /\ Owned => (handlers = {} => WaitersHaveOwner)
  BY DEF BaseInv, Owned, OwnInv, Quiet, SleepersWait, FreeOK, TypeOK, TypeMutex, TypeThreads, WaitersHaveOwner
<1>3. BaseInv /\ Owned => OwnershipExact
  BY <1>1, <1>2 DEF OwnershipExact
<1> QED BY <1>3, OwnAlways, PTL

-----------------------------------------------------------------------------
(* The order of the list *)

\* Only the owner's priority changes, and the owner is not on the list.
LEMMA SortedSame ==
    ASSUME NEW list \in Seq(Threads), NEW P, NEW Q, Sorted(list, P),
           \A u \in ToSet(list) : Q[u] = P[u]
    PROVE  Sorted(list, Q)
<1>1. \A i \in 1 .. Len(list) : list[i] \in ToSet(list)
  BY DEF ToSet
<1> QED BY <1>1 DEF Sorted

LEMMA SortedCalls ==
    ASSUME BaseInv, OwnInv, Sorted(suspend_thread, current_priority), handlers = {}, Calls
    PROVE  Sorted(suspend_thread', current_priority')
<1>0. /\ IsList(suspend_thread, Threads) /\ suspend_thread \in Seq(Threads)
      /\ current_priority \in [Threads -> Int]
      /\ ToSet(suspend_thread) = Sleeping
  <2>1. current_priority \in [Threads -> Bytes] /\ \A b \in Bytes : b \in Int
    BY DEF BaseInv, TypeOK, TypeThreads, Bytes
  <2>2. current_priority \in [Threads -> Int]
    BY ONLY <2>1
  <2> QED BY <2>2 DEF BaseInv, ListInv, IsList
<1>1. ASSUME NEW t \in Threads, NEW tmo, call[t] = "none", owner # t, suspend(t, tmo)
      PROVE  Sorted(suspend_thread', current_priority')
  <2>1. PICK i \in 1 .. Len(suspend_thread) + 1 :
            /\ Position(suspend_thread, t, i)
            /\ suspend_thread' = InsertAt(suspend_thread, i, t)
    BY <1>1 DEF suspend, ipc_list_suspend
  <2>2. Sorted(suspend_thread', current_priority)
    BY <1>0, <2>1, InsertSorted DEF Position
  <2>3. t \notin ToSet(suspend_thread)
    BY <1>0, <1>1 DEF Sleeping, BaseInv, ListInv
  <2>4. suspend_thread' \in Seq(Threads) /\ ToSet(suspend_thread') = ToSet(suspend_thread) \cup {t}
    BY <1>0, <2>1, <2>3, InsertList DEF IsList
  <2>5. \A u \in ToSet(suspend_thread') : u \in Threads /\ u # owner
    BY <1>0, <1>1, <2>4 DEF Sleeping, OwnInv, SleepersWait
  <2>6. \A u \in ToSet(suspend_thread') : current_priority'[u] = current_priority[u]
    BY <1>0, <1>1, <2>5 DEF suspend, Inherit, change_priority
  <2> QED BY <2>2, <2>4, <2>6, SortedSame
<1>2. ASSUME NEW t \in Threads, rt_mutex_release(t) PROVE Sorted(suspend_thread', current_priority')
  <2>0. t \notin ToSet(suspend_thread)
    BY <1>0, <1>2 DEF rt_mutex_release, Sleeping, BaseInv, ListInv
  <2>1. ASSUME Restore(t) PROVE \A u \in ToSet(suspend_thread) : current_priority'[u] = current_priority[u]
    BY <1>0, <2>0, <2>1 DEF Restore, change_priority, Sleeping
  <2>2. CASE release_refused(t) \/ release_one(t)
    BY <2>2 DEF release_refused, release_one
  <2>3. CASE release_frees(t)
    BY <1>0, <2>1, <2>3, SortedSame DEF release_frees
  <2>4. CASE release_hands_over(t)
    <3>1. suspend_thread # <<>> /\ suspend_thread' = Tail(suspend_thread)
      BY <2>4 DEF release_hands_over
    <3>2. Sorted(suspend_thread', current_priority)
      BY <1>0, <3>1, TailSorted
    <3>3. suspend_thread' \in Seq(Threads) /\ ToSet(suspend_thread') \subseteq ToSet(suspend_thread)
      BY <1>0, <3>1, TailList DEF IsList
    <3> QED BY <2>1, <2>4, <3>2, <3>3, SortedSame DEF release_hands_over
  <2> QED BY <1>2, <2>2, <2>3, <2>4 DEF rt_mutex_release
<1>3. ASSUME NEW t \in Threads, rt_thread_timeout(t) PROVE Sorted(suspend_thread', current_priority')
  <2>1. CASE Wake(t, "ETIMEOUT")
    BY <1>0, <2>1, RemoveSorted DEF Wake
  <2>2. CASE Idle
    BY <2>2 DEF Idle
  <2> QED BY <1>3, <2>1, <2>2, TimeoutCases
<1>4. ASSUME UNCHANGED <<suspend_thread, current_priority>> PROVE Sorted(suspend_thread', current_priority')
  BY <1>4
<1>5. ASSUME NEW t \in Threads, NEW tmo, rt_mutex_take(t, tmo) PROVE Sorted(suspend_thread', current_priority')
  BY <1>1, <1>4, <1>5 DEF rt_mutex_take, take_recursive, grab, take_refused
<1>6. ASSUME NEW t \in Threads, take_granted(t) \/ take_fails(t) PROVE Sorted(suspend_thread', current_priority')
  BY <1>4, <1>6 DEF take_granted, take_fails
<1>7. ASSUME NEW t \in Threads PROVE ~signal(t) /\ ~again(t) /\ ~again_enlist(t)
  BY NoRetry DEF signal
<1> QED BY <1>2, <1>3, <1>5, <1>6, <1>7 DEF Calls, Runs

Ordered == handlers = {} => Sorted(suspend_thread, current_priority)

LEMMA SortedStep == BaseInv /\ Owned /\ Ordered /\ [Next]_vars => Ordered'
<1> SUFFICES ASSUME BaseInv, Owned, Ordered, [Next]_vars, handlers' = {}
             PROVE  Sorted(suspend_thread', current_priority')
  BY DEF Ordered, Sorted
<1>1. /\ OwnInv /\ Sorted(suspend_thread, current_priority)
      /\ handlers = {} /\ (Calls \/ Idle)
  BY StillSilent DEF Owned, Ordered
<1>2. CASE Idle
  BY <1>1, <1>2 DEF Idle
<1> QED BY <1>1, <1>2, SortedCalls

\* The list rt_mutex_release takes its next owner from is ordered by the priorities
\* as they are now, although rt_mutex_take changed some of them on the way.
THEOREM UrgentFirstHolds == Spec => []UrgentFirst
<1>1. Init => Ordered
  BY DEF Init, Ordered, Sorted
<1>2. Ordered => UrgentFirst
  BY DEF Ordered, Sorted, UrgentFirst
<1>3. BaseInv /\ Owned /\ Ordered /\ [Next]_vars => Ordered'
  BY SortedStep
<1> QED BY <1>1, <1>2, <1>3, OwnAlways, PTL DEF Spec

=============================================================================
