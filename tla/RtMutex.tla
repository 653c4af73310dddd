------------------------------ MODULE RtMutex ------------------------------
(***************************************************************************)
(* The mutex of rt-thread/src/ipc.c for any number of threads:             *)
(* rt_mutex_take with recursion, time-outs and the retry after a signal,   *)
(* rt_mutex_release with its hand-over to the first waiting thread, and    *)
(* the priority changes both of them ask of rt_thread_control              *)
(* (rt-thread/src/thread.c).                                               *)
(*                                                                         *)
(* A call runs with interrupts disabled until it returns or suspends its   *)
(* thread: one step.  The retry is different.  The goto leads back behind  *)
(* the statement that disables interrupts, so each of its statements is a  *)
(* step of its own, and interrupts, signals and other threads come between *)
(* them; a thread that has suspended itself there keeps the CPU until the  *)
(* next rt_schedule.  What threads do outside the two calls is left open,  *)
(* so any thread that is outside may call one of them next, unless a more  *)
(* urgent thread is ready inside rt_mutex_take.                            *)
(***************************************************************************)
EXTENDS Integers, FiniteSets, SequencesExt

CONSTANTS
    Threads, NoThread,
    Priority,        \* the priority each thread starts with, small is urgent
    Address,         \* the low byte of &thread->current_priority
    MutexAddress,    \* the low byte of &mutex->original_priority
    HoldMax,         \* RT_MUTEX_HOLD_MAX
    ValueMax,        \* RT_MUTEX_VALUE_MAX, the largest mutex->value
    Interruptible    \* the threads that may install a signal handler

Bytes == 0 .. 255
PRIORITY_MAX == 32    \* RT_THREAD_PRIORITY_MAX

ASSUME RtMutexAssumption ==
    /\ NoThread \notin Threads
    /\ Priority \in [Threads -> Bytes]
    /\ Address \in [Threads -> Bytes]
    /\ MutexAddress \in Bytes
    /\ HoldMax \in Nat \ {0} /\ ValueMax \in Nat \ {0}
    /\ Interruptible \subseteq Threads

VARIABLES
    value, owner, hold, original_priority,
    suspend_thread,    \* the waiting threads, in the order they will be resumed
    current_priority,
    call,      \* "none", "take", or the next statement of the retry
    stat,      \* "ready", "suspend", or "assert" for one that an assertion has stopped
    timeout,   \* "no" (0), "ticks" (positive) or "forever"
    timer,     \* the threads whose thread timer runs
    lingers,   \* the thread that has suspended itself in the retry and has the CPU
    halted,    \* an assertion in the tick interrupt has failed or a list is corrupt
    error,     \* thread->error
    result,    \* the return code of the last call that returned
    taken,     \* the takes that have returned RT_EOK and are not yet released
    handlers   \* the threads that have a signal handler

mutex == <<value, owner, hold, original_priority>>
cpu == <<timer, lingers, halted>>
threads == <<call, stat, timeout, error, result, taken, cpu>>
calls == <<mutex, suspend_thread, current_priority, threads>>
vars == <<calls, handlers>>

-----------------------------------------------------------------------------
(* The waiting list and the priorities *)

\* _ipc_list_suspend: before the first thread of lower priority.
Position(list, t, i) ==
    /\ \A j \in 1 .. i - 1 : current_priority[list[j]] <= current_priority[t]
    /\ i <= Len(list) => current_priority[t] < current_priority[list[i]]

\* Mutant: the threads queue first come first served.
ipc_list_suspend_fifo(list, after, t) == after = Append(list, t)

ipc_list_suspend(list, after, t) ==
    \E i \in 1 .. Len(list) + 1 : Position(list, t, i) /\ after = InsertAt(list, i, t)

\* rt_thread_control(thread, RT_THREAD_CTRL_CHANGE_PRIORITY, arg) stores arg itself.
change_priority(t, arg) == current_priority' = [current_priority EXCEPT ![t] = arg]

\* rt_mutex_take raises the owner's priority, with the address of the waiter's.
Inherit(t) ==
    IF owner \in Threads /\ current_priority[t] < current_priority[owner]
    THEN change_priority(owner, Address[t])
    ELSE UNCHANGED current_priority

-----------------------------------------------------------------------------
(* rt_mutex_take *)

\* thread->error is not read again before the next take has reset it.
Return(t, r) ==
    /\ call' = [call EXCEPT ![t] = "none"]
    /\ timeout' = [timeout EXCEPT ![t] = "no"]
    /\ error' = [error EXCEPT ![t] = "EOK"]
    /\ result' = r
    /\ lingers' = NoThread
    /\ UNCHANGED <<stat, timer, halted>>

\* The ghost taken saturates: a thread with HoldMax takes has as many as a thread can have.
Remember(t) == taken' = [taken EXCEPT ![t] = IF @ < HoldMax THEN @ + 1 ELSE HoldMax]

\* The holds go up, up to RT_MUTEX_HOLD_MAX.
Hold(t) ==
    IF hold < HoldMax
    THEN hold' = hold + 1 /\ Return(t, "EOK") /\ Remember(t)
    ELSE Return(t, "EFULL") /\ UNCHANGED <<hold, taken>>

take_recursive(t) ==
    /\ owner = t
    /\ Hold(t)
    /\ UNCHANGED <<value, owner, original_priority, suspend_thread, current_priority>>

\* value is an rt_uint16_t: it wraps.
grab(t) ==
    /\ value' = (value - 1) % (ValueMax + 1)
    /\ owner' = t
    /\ original_priority' = current_priority[t]
    /\ Hold(t)
    /\ UNCHANGED <<suspend_thread, current_priority>>

\* rt_timer_start, for a positive time-out.
Start(t, tmo) == IF tmo = "ticks" THEN timer \cup {t} ELSE timer \ {t}

suspend(t, tmo) ==
    /\ Inherit(t)
    /\ ipc_list_suspend(suspend_thread, suspend_thread', t)
    /\ call' = [call EXCEPT ![t] = "take"]
    /\ stat' = [stat EXCEPT ![t] = "suspend"]
    /\ timeout' = [timeout EXCEPT ![t] = tmo]
    /\ timer' = Start(t, tmo)
    /\ error' = [error EXCEPT ![t] = "EOK"]
    /\ lingers' = NoThread
    /\ UNCHANGED <<mutex, result, taken, halted>>

take_refused(t) ==
    /\ Return(t, "ETIMEOUT")
    /\ UNCHANGED <<mutex, suspend_thread, current_priority, taken>>

\* The call up to its return or its wait, from the reset of thread->error on;
\* rt_mutex_trytake is the call with tmo = "no".
rt_mutex_take(t, tmo) ==
    /\ call[t] = "none"
    /\ \/ take_recursive(t)
       \/ owner # t /\ value > 0 /\ grab(t)
       \/ owner # t /\ value = 0 /\ tmo = "no" /\ take_refused(t)
       \/ owner # t /\ value = 0 /\ tmo # "no" /\ suspend(t, tmo)

\* Behind rt_schedule: the thread owns the mutex ...
take_granted(t) ==
    /\ call[t] = "take" /\ stat[t] = "ready" /\ error[t] = "EOK"
    /\ Return(t, "EOK")
    /\ Remember(t)
    /\ UNCHANGED <<mutex, suspend_thread, current_priority>>

\* ... or its timer went off ...
take_fails(t) ==
    /\ call[t] = "take" /\ stat[t] = "ready" /\ error[t] = "ETIMEOUT"
    /\ Return(t, error[t])
    /\ UNCHANGED <<mutex, suspend_thread, current_priority, taken>>

\* ... or a signal came: goto __again, with thread->error as it is.
Statement(t, from, to) ==
    /\ call[t] = from
    /\ call' = [call EXCEPT ![t] = to]
    /\ UNCHANGED <<timeout, error, result, taken>>

\* A statement of the retry that only computes.
Retry(t, from, to) ==
    /\ stat[t] = "ready" /\ Statement(t, from, to)
    /\ lingers' = NoThread
    /\ UNCHANGED <<stat, suspend_thread, timer, halted>>

take_again(t) ==
    /\ error[t] = "EINTR"
    /\ Retry(t, "take", IF value > 0 THEN "grab" ELSE "wait")
    /\ UNCHANGED <<mutex, current_priority>>

\* The statements that take a free mutex.
again_value(t) ==
    /\ Retry(t, "grab", "own")
    /\ value' = (value - 1) % (ValueMax + 1)
    /\ UNCHANGED <<owner, hold, original_priority, current_priority>>

again_owner(t) ==
    /\ Retry(t, "own", "original")
    /\ owner' = t
    /\ UNCHANGED <<value, hold, original_priority, current_priority>>

again_original(t) ==
    /\ Retry(t, "original", "hold")
    /\ original_priority' = current_priority[t]
    /\ UNCHANGED <<value, owner, hold, current_priority>>

again_hold(t) ==
    /\ call[t] = "hold" /\ stat[t] = "ready"
    /\ Hold(t)
    /\ UNCHANGED <<value, owner, original_priority, suspend_thread, current_priority>>

\* The statements that wait.  If the mutex has been released since the test of its
\* value, owner is RT_NULL and its priority is whatever byte is found there ...
again_compare(t) ==
    /\ \E to \in {"inherit", "suspend"} :
          /\ owner \in Threads => (to = "inherit" <=> current_priority[t] < current_priority[owner])
          /\ Retry(t, "wait", to)
    /\ UNCHANGED <<mutex, current_priority>>

\* ... and an assertion of rt_thread_control stops the thread.
again_inherit(t) ==
    \/ /\ owner \in Threads
       /\ Retry(t, "inherit", "suspend")
       /\ change_priority(owner, Address[t])
       /\ UNCHANGED mutex
    \/ /\ owner = NoThread
       /\ stat[t] = "ready" /\ Statement(t, "inherit", "inherit")
       /\ stat' = [stat EXCEPT ![t] = "assert"]
       /\ lingers' = NoThread
       /\ UNCHANGED <<mutex, suspend_thread, current_priority, timer, halted>>

\* rt_thread_suspend: the thread sleeps, on no list yet, and goes on.
again_suspend(t) ==
    /\ stat[t] = "ready" /\ Statement(t, "suspend", "enlist")
    /\ stat' = [stat EXCEPT ![t] = "suspend"]
    /\ timer' = timer \ {t}
    /\ lingers' = t
    /\ UNCHANGED <<mutex, suspend_thread, current_priority, halted>>

\* A switch between the writes of rt_list_insert_before leaves the list corrupt.
again_enlist(t) ==
    /\ lingers = t
    /\ \/ /\ Statement(t, "enlist", "timer")
          /\ ipc_list_suspend(suspend_thread, suspend_thread', t)
          /\ UNCHANGED halted
       \/ /\ Statement(t, "enlist", "enlist")
          /\ halted' = TRUE
          /\ UNCHANGED suspend_thread
    /\ UNCHANGED <<mutex, current_priority, stat, timer, lingers>>

\* rt_timer_start and rt_schedule, which puts the thread to sleep, or finds one that
\* has been resumed since.
again_timer(t) ==
    /\ lingers = t \/ stat[t] = "ready"
    /\ Statement(t, "timer", "take")
    /\ timer' = Start(t, timeout[t])
    /\ lingers' = NoThread
    /\ UNCHANGED <<mutex, suspend_thread, current_priority, stat, halted>>

\* The thread has been resumed by a signal before it was on the list, and links
\* itself into the list although it runs.  Its rt_schedule takes it off again,
\* unless a switch comes first, which puts a linked thread into the ready table.
again_enlists_awake(t) ==
    /\ stat[t] = "ready" /\ Statement(t, "enlist", "take")
    /\ timer' = Start(t, timeout[t])
    /\ lingers' = NoThread
    /\ halted' \in BOOLEAN
    /\ UNCHANGED <<mutex, suspend_thread, current_priority, stat>>

again(t) ==
    \/ take_again(t)
    \/ again_value(t) \/ again_owner(t) \/ again_original(t) \/ again_hold(t)
    \/ again_compare(t) \/ again_inherit(t) \/ again_suspend(t) \/ again_timer(t)
    \/ again_enlists_awake(t)

-----------------------------------------------------------------------------
(* rt_mutex_release *)

release_refused(t) ==
    /\ owner # t
    /\ Return(t, "ERROR")
    /\ UNCHANGED <<mutex, suspend_thread, current_priority, taken>>

Restore(t) ==
    IF original_priority # current_priority[t]
    THEN change_priority(t, MutexAddress)
    ELSE UNCHANGED current_priority

\* A thread that never learnt of its ownership may still release.
Forget(t) == taken' = [taken EXCEPT ![t] = IF @ > 0 THEN @ - 1 ELSE 0]

Released(t) == Return(t, "EOK") /\ Forget(t)

\* hold is an rt_uint8_t: it wraps when the mutex was left without holds (-RT_EFULL).
release_one(t) ==
    /\ owner = t /\ hold # 1
    /\ hold' = (hold - 1) % (HoldMax + 1)
    /\ Released(t)
    /\ UNCHANGED <<value, owner, original_priority, suspend_thread, current_priority>>

\* The first waiting thread becomes the owner before it runs again.
release_hands_over(t) ==
    /\ owner = t /\ hold = 1 /\ suspend_thread # <<>>
    /\ Restore(t)
    /\ owner' = Head(suspend_thread)
    /\ original_priority' = current_priority'[owner']
    /\ suspend_thread' = Tail(suspend_thread)
    /\ stat' = [stat EXCEPT ![owner'] = "ready"]
    /\ call' = [call EXCEPT ![t] = "none"]
    /\ timeout' = [timeout EXCEPT ![t] = "no"]
    /\ error' = [error EXCEPT ![t] = "EOK"]
    /\ result' = "EOK"
    /\ timer' = timer \ {owner'}
    /\ lingers' = NoThread
    /\ Forget(t)
    /\ UNCHANGED <<value, hold, halted>>

\* A value at its maximum makes the call return -RT_EFULL with the hold gone.
release_frees(t) ==
    /\ owner = t /\ hold = 1 /\ suspend_thread = <<>>
    /\ Restore(t)
    /\ hold' = 0
    /\ IF value < ValueMax
       THEN /\ value' = value + 1
            /\ owner' = NoThread /\ original_priority' = 255
            /\ Released(t)
       ELSE Return(t, "EFULL") /\ UNCHANGED <<value, owner, original_priority, taken>>
    /\ UNCHANGED suspend_thread

\* Mutant: every release counts as the last one.
rt_mutex_release_all(t) ==
    /\ call[t] = "none"
    /\ \/ release_refused(t)
       \/ owner = t /\ value' = 1 /\ owner' = NoThread /\ hold' = 0 /\ original_priority' = 255
          /\ Released(t) /\ UNCHANGED <<suspend_thread, current_priority>>

rt_mutex_release(t) ==
    /\ call[t] = "none"
    /\ release_refused(t) \/ release_one(t) \/ release_hands_over(t) \/ release_frees(t)

-----------------------------------------------------------------------------
(* What happens to a thread in rt_mutex_take from outside *)

\* rt_thread_resume, and what the thread finds in thread->error.
Wake(t, err) ==
    /\ stat' = [stat EXCEPT ![t] = "ready"]
    /\ error' = [error EXCEPT ![t] = err]
    /\ suspend_thread' = RemoveFirst(suspend_thread, t)
    /\ timer' = IF stat[t] = "suspend" THEN timer \ {t} ELSE timer
    /\ lingers' = NoThread
    /\ UNCHANGED <<mutex, current_priority, call, timeout, result, taken, halted>>

\* Mutant: the thread whose timer went off stays on the waiting list.
rt_thread_timeout_on_list(t) ==
    /\ t \in timer /\ stat[t] = "suspend"
    /\ stat' = [stat EXCEPT ![t] = "ready"]
    /\ error' = [error EXCEPT ![t] = "ETIMEOUT"]
    /\ timer' = timer \ {t}
    /\ lingers' = NoThread
    /\ UNCHANGED <<mutex, suspend_thread, current_priority, call, timeout, result, taken, halted>>

\* The timer of a thread that is not suspended fails an assertion in the interrupt.
rt_thread_timeout(t) ==
    /\ t \in timer
    /\ \/ stat[t] = "suspend" /\ Wake(t, "ETIMEOUT")
       \/ /\ stat[t] # "suspend" /\ halted' = TRUE
          /\ UNCHANGED <<mutex, suspend_thread, current_priority, call, stat, timeout, error,
                         result, taken, timer, lingers>>

\* _signal_deliver resumes a suspended thread; rt_thread_handle_sig sets the
\* error before the thread's next statement.
signal(t) ==
    /\ t \in handlers /\ call[t] # "none" /\ stat[t] # "assert"
    /\ Wake(t, "EINTR")

\* A tick whose rt_schedule takes the CPU from a suspended thread.
tick ==
    /\ lingers # NoThread /\ lingers' = NoThread
    /\ UNCHANGED <<mutex, suspend_thread, current_priority, call, stat, timeout, error, result,
                   taken, timer, halted>>

\* rt_signal_install and rt_signal_unmask, called by the thread itself.
rt_signal_install(t) ==
    /\ call[t] = "none" /\ t \in Interruptible \ handlers
    /\ handlers' = handlers \cup {t}
    /\ lingers' = NoThread
    /\ UNCHANGED <<mutex, suspend_thread, current_priority, call, stat, timeout, error, result,
                   taken, timer, halted>>

-----------------------------------------------------------------------------

Timeouts == {"no", "ticks", "forever"}

\* rt_mutex_init
Init ==
    /\ value = 1 /\ owner = NoThread /\ hold = 0 /\ original_priority = 255
    /\ suspend_thread = <<>>
    /\ current_priority = Priority
    /\ call = [t \in Threads |-> "none"]
    /\ stat = [t \in Threads |-> "ready"]
    /\ timeout = [t \in Threads |-> "no"]
    /\ error = [t \in Threads |-> "EOK"]
    /\ result = "EOK"
    /\ taken = [t \in Threads |-> 0]
    /\ timer = {} /\ lingers = NoThread /\ halted = FALSE
    /\ handlers = {}

\* rt_schedule lets t run only if no more urgent thread is ready.  A byte of
\* PRIORITY_MAX or more is outside its ready table and holds nobody back.
Scheduled(t) ==
    \A u \in Threads :
        call[u] # "none" /\ stat[u] = "ready" /\ current_priority[u] < PRIORITY_MAX
            => current_priority[t] <= current_priority[u]

Runs(t) ==
    \/ \E tmo \in Timeouts : rt_mutex_take(t, tmo)
    \/ take_granted(t) \/ take_fails(t)
    \/ again(t)
    \/ rt_mutex_release(t)

\* The calls on the mutex, and what happens to the threads that wait in one.
Calls ==
    \E t \in Threads :
        \/ Scheduled(t) /\ Runs(t)
        \/ again_enlist(t)
        \/ rt_thread_timeout(t)
        \/ signal(t)

Next ==
    /\ ~halted
    /\ \/ (Calls \/ tick) /\ UNCHANGED handlers
       \/ \E t \in Threads : Scheduled(t) /\ rt_signal_install(t)

Spec == Init /\ [][Next]_vars

-----------------------------------------------------------------------------
(* Properties *)

TypeMutex ==
    /\ value \in 0 .. ValueMax /\ owner \in Threads \cup {NoThread}
    /\ hold \in 0 .. HoldMax /\ original_priority \in Bytes

TypeThreads ==
    /\ current_priority \in [Threads -> Bytes]
    /\ call \in [Threads -> {"none", "take", "grab", "own", "original", "hold", "wait", "inherit",
                             "suspend", "enlist", "timer"}]
    /\ stat \in [Threads -> {"ready", "suspend", "assert"}]
    /\ timeout \in [Threads -> Timeouts]
    /\ error \in [Threads -> {"EOK", "ETIMEOUT", "EINTR"}]
    /\ result \in {"EOK", "ETIMEOUT", "ERROR", "EFULL"}
    /\ taken \in [Threads -> 0 .. HoldMax]
    /\ timer \subseteq Threads /\ lingers \in Threads \cup {NoThread} /\ halted \in BOOLEAN

\* Type invariant.
TypeOK ==
    TypeMutex /\ TypeThreads /\ suspend_thread \in Seq(Threads) /\ handlers \subseteq Interruptible

\* The list holds exactly the sleeping threads, each once, whatever time-outs,
\* signals and hand-overs do.  The exception is the retry after a signal, which runs
\* with interrupts enabled: between rt_thread_suspend and its place on the list the
\* thread sleeps on no list, and if a tick takes the CPU from it there, only another
\* signal can bring it back.
ListExact ==
    ~halted =>
        /\ ToSet(suspend_thread) = {t \in Threads : stat[t] = "suspend" /\ call[t] # "enlist"}
        /\ IsInjective(suspend_thread)

HandedOver(t) == call[t] = "take" /\ stat[t] = "ready" /\ error[t] = "EOK"

HoldersAgree ==
    /\ \A t \in Threads :
        IF owner = t
        THEN hold = taken[t] + (IF HandedOver(t) THEN 1 ELSE 0) /\ hold > 0
        ELSE taken[t] = 0 /\ ~HandedOver(t)
    /\ owner = NoThread => hold = 0

\* Whoever waits waits for a thread that can run: the mutex has an owner and that
\* owner does not sleep on the mutex itself.
WaitersHaveOwner == suspend_thread # <<>> => owner \in Threads /\ stat[owner] = "ready"

\* Until a thread has a signal handler, the mutex and the threads agree on who holds
\* it: the holds are the owner's own successful takes, or the one that a release
\* gave to a thread that has yet to run.  Nobody else holds anything, and who waits
\* waits for an owner that can run, whatever time-outs race with the hand-over.  (The
\* retry after a signal can take a mutex that another thread holds, see again_owner.)
OwnershipExact == handlers = {} => HoldersAgree /\ WaitersHaveOwner

\* Until a thread has a signal handler, the most urgent waiting thread is the next
\* owner, although the priorities of threads change while others wait.
UrgentFirst ==
    handlers = {} =>
        \A i, j \in 1 .. Len(suspend_thread) :
            i < j => current_priority[suspend_thread[i]] <= current_priority[suspend_thread[j]]

=============================================================================
