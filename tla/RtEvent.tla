------------------------------ MODULE RtEvent ------------------------------
(***************************************************************************)
(* The event set of rt-thread/src/ipc.c: the flags event->set, the list of *)
(* suspended receivers, and rt_event_send, rt_event_recv, rt_event_control *)
(* (RESET) and what a time-out or a signal does to a receiver.             *)
(*                                                                         *)
(* As in RtMailbox a call runs with interrupts disabled up to the point    *)
(* where it suspends its thread or is done: each such stretch is one step. *)
(* rt_event_recv resets thread->error before this stretch and returns      *)
(* thread->error after it, with interrupts enabled, so a signal may come   *)
(* in between.  rt_event_send may come from a timer as well as from a      *)
(* thread, so nothing is asked of its caller.                              *)
(***************************************************************************)
EXTENDS Integers, FiniteSets, SequencesExt

CONSTANTS
    Threads, Flags,
    Priority,        \* current_priority of each thread, small is urgent
    Flag,            \* event->parent.parent.flag, how waiting threads queue
    Interruptible    \* the threads that have a signal handler

ASSUME RtEventAssumption ==
    /\ Priority \in [Threads -> Nat]
    /\ Flag \in {"FIFO", "PRIO"}
    /\ Interruptible \subseteq Threads

VARIABLES
    set,             \* event->set
    suspend_thread,  \* the waiting receivers, in the order of the list
    call,            \* where a thread is in rt_event_recv: "none" (outside), "reset", "wait", "done"
    stat,            \* "ready" or "suspend"
    timer,           \* threads whose thread timer runs
    event_set, event_info, error,   \* of each thread
    owed,            \* flags sent and not yet gone with the return of a receiver (history)
    given            \* the flags cleared for the call that a thread is in (history)

history == <<owed, given>>
EventVars == <<set, suspend_thread, call, stat, timer, event_set, event_info, error, history>>

\* RT_EVENT_FLAG_AND or RT_EVENT_FLAG_OR, with or without RT_EVENT_FLAG_CLEAR.
Options == [mode : {"AND", "OR"}, clear : BOOLEAN]
Default == [mode |-> "AND", clear |-> FALSE]

Satisfied(want, option, flags) ==
    IF option.mode = "AND" THEN want \subseteq flags ELSE want \cap flags # {}

\* What an OR receiver gets are the flags that are there; an AND receiver gets all.
Received(want, option, flags) == IF option.mode = "AND" THEN want ELSE want \cap flags

-----------------------------------------------------------------------------
(* rt_event_recv *)

\* thread->error = RT_EOK, with interrupts enabled.
rt_event_recv(t) ==
    /\ call[t] = "none"
    /\ call' = [call EXCEPT ![t] = "reset"]
    /\ error' = [error EXCEPT ![t] = "EOK"]
    /\ UNCHANGED <<set, suspend_thread, stat, timer, event_set, event_info, history>>

\* The flags are there.  Nobody reads the event_set and event_info of this call.
recv_takes(t, want, option) ==
    /\ Satisfied(want, option, set)
    /\ call' = [call EXCEPT ![t] = "done"]
    /\ set' = IF option.clear THEN set \ want ELSE set
    /\ given' = IF option.clear THEN [given EXCEPT ![t] = want \cap set] ELSE given
    /\ UNCHANGED <<suspend_thread, stat, timer, event_set, event_info, error, owed>>

\* -RT_ETIMEOUT; the error is not read before the next call has reset it.
recv_empty(t, want, option, tmo) ==
    /\ ~Satisfied(want, option, set) /\ tmo = "no"
    /\ call' = [call EXCEPT ![t] = "none"]
    /\ error' = [error EXCEPT ![t] = "EOK"]
    /\ UNCHANGED <<set, suspend_thread, stat, timer, event_set, event_info, history>>

\* Mutant: every thread queues at the end, whatever the flag.
Place_last(t, i) == i = Len(suspend_thread) + 1

\* _ipc_list_suspend: at the end, or before the first thread of lower priority.
Place(t, i) ==
    \/ Flag = "FIFO" /\ i = Len(suspend_thread) + 1
    \/ /\ Flag = "PRIO"
       /\ \A j \in 1 .. i - 1 : Priority[suspend_thread[j]] <= Priority[t]
       /\ i <= Len(suspend_thread) => Priority[t] < Priority[suspend_thread[i]]

recv_waits(t, want, option, tmo) ==
    /\ ~Satisfied(want, option, set) /\ tmo # "no"
    /\ event_set' = [event_set EXCEPT ![t] = want]
    /\ event_info' = [event_info EXCEPT ![t] = option]
    /\ \E i \in 1 .. Len(suspend_thread) + 1 :
          Place(t, i) /\ suspend_thread' = InsertAt(suspend_thread, i, t)
    /\ call' = [call EXCEPT ![t] = "wait"] /\ stat' = [stat EXCEPT ![t] = "suspend"]
    /\ timer' = IF tmo = "ticks" THEN timer \cup {t} ELSE timer
    /\ UNCHANGED <<set, error, history>>

\* The stretch with interrupts disabled.
recv_section(t, want, option, tmo) ==
    /\ call[t] = "reset"
    /\ recv_takes(t, want, option) \/ recv_empty(t, want, option, tmo)
          \/ recv_waits(t, want, option, tmo)

\* The flags of t that no send has set again and that are not on their way to another.
OnlyWith(t) == given[t] \ (set \cup UNION {given[u] : u \in Threads \ {t}})

\* The call ends with thread->error; the flags it was given are gone, received or not.
Return(t) ==
    /\ call' = [call EXCEPT ![t] = "none"]
    /\ error' = [error EXCEPT ![t] = "EOK"]
    /\ owed' = owed \ OnlyWith(t) /\ given' = [given EXCEPT ![t] = {}]

\* Behind rt_schedule: out with the error, or on with event_set as what was received.
\* What the thread waited for is not looked at again.
recv_resumed(t) ==
    /\ call[t] = "wait" /\ stat[t] = "ready"
    /\ event_set' = [event_set EXCEPT ![t] = {}]
    /\ event_info' = [event_info EXCEPT ![t] = Default]
    /\ \/ error[t] # "EOK" /\ Return(t)
       \/ /\ error[t] = "EOK" /\ call' = [call EXCEPT ![t] = "done"]
          /\ UNCHANGED <<error, history>>
    /\ UNCHANGED <<set, suspend_thread, stat, timer>>

\* return thread->error
recv_returns(t) ==
    /\ call[t] = "done" /\ Return(t)
    /\ UNCHANGED <<set, suspend_thread, stat, timer, event_set, event_info>>

-----------------------------------------------------------------------------
(* rt_event_send *)

\* The threads in front of t on the list.
Ahead(t) ==
    {suspend_thread[i] : i \in {i \in DOMAIN suspend_thread :
                                  \E j \in DOMAIN suspend_thread : i < j /\ suspend_thread[j] = t}}

\* What is left of the flags when the threads of woken have been served: whoever asked
\* for RT_EVENT_FLAG_CLEAR takes those of its own that are still there.
LeftOver(flags, woken) ==
    flags \ UNION {event_set[t] : t \in {u \in woken : event_info[u].clear}}

\* Whether woken are the threads that the loop over the list resumes: each thread is
\* looked at once, with the flags that the resumed ones in front of it have left.
OnePass(flags, woken) ==
    \A t \in ToSet(suspend_thread) :
       t \in woken <=> Satisfied(event_set[t], event_info[t], LeftOver(flags, woken \cap Ahead(t)))

\* Mutant: only the first waiting thread is looked at.
served_first(flags) ==
    {t \in ToSet(suspend_thread) :
       t = Head(suspend_thread) /\ Satisfied(event_set[t], event_info[t], flags)}

\* The threads that the loop resumes.
served(flags) == CHOOSE woken \in SUBSET ToSet(suspend_thread) : OnePass(flags, woken)

\* The numbers of a set from the least to the greatest.
InOrder(numbers) ==
    CHOOSE f \in Bijection(1 .. Cardinality(numbers), numbers) :
       \A i, j \in DOMAIN f : i < j => f[i] < f[j]

\* The list when the threads of gone have been taken off it: the others in their order.
Unlinked(gone) ==
    LET place == InOrder({i \in DOMAIN suspend_thread : suspend_thread[i] \notin gone})
    IN  [i \in DOMAIN place |-> suspend_thread[place[i]]]

\* What the loop writes for the threads it resumes: the flags they got and the
\* ready state; rt_thread_resume takes them off the list.
Resume(flags, woken) ==
    /\ event_set' = [t \in Threads |->
          IF t \in woken THEN Received(event_set[t], event_info[t], LeftOver(flags, woken \cap Ahead(t)))
          ELSE event_set[t]]
    /\ given' = [t \in Threads |->
          IF t \in woken /\ event_info[t].clear THEN event_set'[t] ELSE given[t]]
    /\ suspend_thread' = Unlinked(woken)
    /\ stat' = [t \in Threads |-> IF t \in woken THEN "ready" ELSE stat[t]]

\* Mutant: the thread timer of a served thread goes on.
rt_event_send_keeps_timer(sent) ==
    LET woken == served(set \cup sent)
    IN  /\ set' = LeftOver(set \cup sent, woken) /\ owed' = owed \cup sent
        /\ Resume(set \cup sent, woken)
        /\ UNCHANGED <<call, timer, event_info, error>>

\* Mutant: the flags of a served thread are cleared whether it asked for it or not.
rt_event_send_clears(sent) ==
    LET woken == served(set \cup sent)
    IN  /\ set' = (set \cup sent) \ UNION {event_set[t] : t \in woken}
        /\ owed' = owed \cup sent
        /\ Resume(set \cup sent, woken) /\ timer' = timer \ woken
        /\ UNCHANGED <<call, event_info, error>>

rt_event_send(sent) ==
    LET woken == served(set \cup sent)
    IN  /\ set' = LeftOver(set \cup sent, woken) /\ owed' = owed \cup sent
        /\ Resume(set \cup sent, woken) /\ timer' = timer \ woken
        /\ UNCHANGED <<call, event_info, error>>

-----------------------------------------------------------------------------
(* What happens to a waiting thread from outside *)

Wake(t, err) ==
    /\ stat' = [stat EXCEPT ![t] = "ready"] /\ error' = [error EXCEPT ![t] = err]
    /\ suspend_thread' = RemoveFirst(suspend_thread, t) /\ timer' = timer \ {t}
    /\ UNCHANGED <<set, call, event_set, event_info, history>>

\* Mutant: the thread stays on the waiting list.
rt_thread_timeout_on_list(t) ==
    /\ t \in timer /\ timer' = timer \ {t}
    /\ stat' = [stat EXCEPT ![t] = "ready"] /\ error' = [error EXCEPT ![t] = "ETIMEOUT"]
    /\ UNCHANGED <<set, suspend_thread, call, event_set, event_info, history>>

rt_thread_timeout(t) == t \in timer /\ Wake(t, "ETIMEOUT")

\* _signal_deliver and rt_thread_handle_sig, for a suspended and for a ready thread.
signal(t) ==
    /\ t \in Interruptible /\ call[t] # "none"
    /\ Wake(t, "EINTR")

\* rt_event_control(event, RT_IPC_CMD_RESET, ...)
rt_event_control ==
    LET waiting == ToSet(suspend_thread)
    IN  /\ stat' = [t \in Threads |-> "ready"]
        /\ error' = [t \in Threads |-> IF t \in waiting THEN "ERROR" ELSE error[t]]
        /\ suspend_thread' = <<>> /\ timer' = timer \ waiting
        /\ set' = {} /\ owed' = owed \cap UNION {given[t] : t \in Threads}
        /\ UNCHANGED <<call, event_set, event_info, given>>

-----------------------------------------------------------------------------
\* rt_event_init
EventInit ==
    /\ set = {} /\ suspend_thread = <<>> /\ timer = {}
    /\ owed = {} /\ given = [t \in Threads |-> {}]
    /\ call = [t \in Threads |-> "none"]
    /\ stat = [t \in Threads |-> "ready"] /\ error = [t \in Threads |-> "EOK"]
    /\ event_set = [t \in Threads |-> {}] /\ event_info = [t \in Threads |-> Default]

EventNext ==
    \/ \E t \in Threads :
          \/ \E want \in SUBSET Flags \ {{}}, option \in Options,
                tmo \in {"no", "ticks", "forever"} : recv_section(t, want, option, tmo)
          \/ rt_event_recv(t) \/ recv_resumed(t) \/ recv_returns(t)
          \/ rt_thread_timeout(t) \/ signal(t)
    \/ \E sent \in SUBSET Flags \ {{}} : rt_event_send(sent)
    \/ rt_event_control

EventSpec == EventInit /\ [][EventNext]_EventVars

-----------------------------------------------------------------------------
(* Properties *)

\* Types; only a suspended thread has a running timer, as rt_thread_timeout asserts.
EventTypeOK ==
    /\ set \subseteq Flags /\ owed \subseteq Flags /\ given \in [Threads -> SUBSET Flags]
    /\ suspend_thread \in Seq(Threads)
    /\ call \in [Threads -> {"none", "reset", "wait", "done"}]
    /\ stat \in [Threads -> {"ready", "suspend"}]
    /\ timer \subseteq {t \in Threads : stat[t] = "suspend"}
    /\ event_set \in [Threads -> SUBSET Flags] /\ event_info \in [Threads -> Options]
    /\ error \in [Threads -> {"EOK", "ETIMEOUT", "EINTR", "ERROR"}]

\* The waiting list holds exactly the suspended threads, each once: time-outs,
\* signals and resets leave no dangling entry.
ListExact ==
    /\ ToSet(suspend_thread) = {t \in Threads : stat[t] = "suspend"}
    /\ IsInjective(suspend_thread)
    /\ \A t \in Threads : stat[t] = "suspend" => call[t] = "wait"

\* No thread goes on sleeping although the flags it waits for are set: the one pass of
\* rt_event_send over the list serves everyone it can, though each may clear flags.
NoSatisfiedWaiter ==
    \A t \in Threads : stat[t] = "suspend" => ~Satisfied(event_set[t], event_info[t], set)

\* A flag that was sent is still set or has been cleared for one receiver whose call is
\* not over, and this call returns it, unless a signal has come since the call reset
\* thread->error, be it before the thread waited: nothing resets the error again.
EventKept ==
    /\ owed \subseteq set \cup UNION {given[t] : t \in Threads}
    /\ \A t \in Threads : given[t] # {} =>
          /\ call[t] \in {"wait", "done"} /\ stat[t] = "ready"
          /\ error[t] = "EOK" \/ (error[t] = "EINTR" /\ t \in Interruptible)

\* A sent flag goes to the most urgent thread it can serve: who keeps waiting is not
\* served by what is left and what a less urgent thread has got out of the same send.
UrgentServedFirst ==
    [][\A u, t \in Threads :
          /\ stat[u] = "suspend" /\ stat'[u] = "suspend"
          /\ stat[t] = "suspend" /\ stat'[t] = "ready" /\ error'[t] = "EOK"
          /\ Priority[u] < Priority[t]
          => ~Satisfied(event_set[u], event_info[u], set' \cup event_set'[t])]_EventVars

=============================================================================
