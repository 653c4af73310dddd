----------------------------- MODULE RtMailbox -----------------------------
(***************************************************************************)
(* The mailbox of rt-thread/src/ipc.c: the ring buffer msg_pool with       *)
(* in_offset, out_offset and entry, the list of suspended receivers and    *)
(* the list of suspended senders, and the calls rt_mb_send_wait,           *)
(* rt_mb_send, rt_mb_urgent, rt_mb_recv and rt_mb_control (RESET).         *)
(*                                                                         *)
(* A call runs with interrupts disabled up to the point where it returns   *)
(* or suspends its thread, and again from the point where the thread goes  *)
(* on until it returns or suspends: each such stretch is one step.  The    *)
(* scheduler may let any ready thread run next.  A time-out is "no" (0),   *)
(* "ticks" (positive; the thread's timer may go off at any time while it   *)
(* is suspended) or "forever".                                             *)
(***************************************************************************)
EXTENDS Integers, FiniteSets, SequencesExt

CONSTANTS
    Threads, Values, NoMail,
    Size,            \* mb->size
    Priority,        \* current_priority of each thread, small is urgent
    Flag,            \* mb->parent.parent.flag, how waiting threads queue
    Interruptible    \* the threads that may install a signal handler

ASSUME RtMailboxAssumption ==
    /\ Size \in Nat \ {0}
    /\ Priority \in [Threads -> Nat]
    /\ Flag \in {"FIFO", "PRIO"}
    /\ Interruptible \subseteq Threads
    /\ NoMail \notin Values
    /\ IsFiniteSet(Threads)

VARIABLES
    msg_pool, entry, in_offset, out_offset,
    suspend_thread,          \* receivers, in the order they will be resumed
    suspend_sender_thread,   \* senders
    call,      \* the call a thread is in: "none", "send" or "recv"
    stat,      \* "ready" or "suspend"
    timeout,   \* what is left of the call's time-out
    value,     \* the mail a suspended sender holds
    error,     \* thread->error
    result,    \* the last call that returned: its thread, and the mail or return code
    handlers   \* the threads that have a signal handler

ring == <<msg_pool, entry, in_offset, out_offset>>
lists == <<suspend_thread, suspend_sender_thread>>
box == <<ring, lists, call, stat, timeout, value, error, result>>
vars == <<box, handlers>>

-----------------------------------------------------------------------------
(* The ring *)

\* ++ offset; if (offset >= mb->size) offset = 0
Next_offset(i) == IF i + 1 >= Size THEN 0 ELSE i + 1

\* rt_mb_urgent rewinds out_offset instead.
Previous_offset(i) == IF i > 0 THEN i - 1 ELSE Size - 1

-----------------------------------------------------------------------------
(* The waiting lists *)

\* _ipc_list_suspend queues a thread at the end, or before the first thread of lower priority.
Position(list, t, i) ==
    \/ Flag = "FIFO" /\ i = Len(list) + 1
    \/ /\ Flag = "PRIO"
       /\ \A j \in 1 .. i - 1 : Priority[list[j]] <= Priority[t]
       /\ i <= Len(list) => Priority[t] < Priority[list[i]]

ipc_list_suspend(list, after, t) ==
    \E i \in 1 .. Len(list) + 1 : Position(list, t, i) /\ after = InsertAt(list, i, t)

\* _ipc_list_resume, if (!rt_list_isempty(list)): the first thread becomes ready.
ipc_list_resume(list) ==
    stat' = IF list = <<>> THEN stat ELSE [stat EXCEPT ![Head(list)] = "ready"]

Rest(list) == IF list = <<>> THEN list ELSE Tail(list)

-----------------------------------------------------------------------------
(* Calls *)

\* The call's time-out and mail end with it, and thread->error is not read again
\* before the next wait has reset it.
Return(t, r) ==
    /\ call' = [call EXCEPT ![t] = "none"]
    /\ result' = <<t, r>>
    /\ timeout' = [timeout EXCEPT ![t] = "no"]
    /\ value' = [value EXCEPT ![t] = NoMail]
    /\ error' = [error EXCEPT ![t] = "EOK"]

\* The thread enters (or goes back to) the loop that waits: thread->error is
\* reset, which is the only write to it that is read again, and the thread sleeps.
Sleep(t, c, tmo) ==
    /\ call' = [call EXCEPT ![t] = c]
    /\ stat' = [stat EXCEPT ![t] = "suspend"]
    /\ timeout' = [timeout EXCEPT ![t] = tmo]
    /\ error' = [error EXCEPT ![t] = "EOK"]

\* What is left of the time-out of a thread that is resumed.
Left(tmo) == IF tmo = "ticks" THEN {"ticks", "no"} ELSE {tmo}

\* Mutant: the mail is stored and no receiver is resumed.
send_stores_no_resume(t, v) ==
    /\ entry < Size
    /\ msg_pool' = [msg_pool EXCEPT ![in_offset] = v]
    /\ in_offset' = Next_offset(in_offset)
    /\ entry' = entry + 1
    /\ Return(t, "EOK")
    /\ UNCHANGED <<out_offset, lists, stat>>

\* The end of rt_mb_send_wait.  entry cannot reach RT_MB_ENTRY_MAX here, the
\* largest mb->size.
send_stores(t, v) ==
    /\ entry < Size
    /\ msg_pool' = [msg_pool EXCEPT ![in_offset] = v]
    /\ in_offset' = Next_offset(in_offset)
    /\ entry' = entry + 1
    /\ ipc_list_resume(suspend_thread)
    /\ suspend_thread' = Rest(suspend_thread)
    /\ Return(t, "EOK")
    /\ UNCHANGED <<out_offset, suspend_sender_thread>>

send_full(t, tmo) ==
    /\ entry = Size /\ tmo = "no"
    /\ Return(t, "EFULL")
    /\ UNCHANGED <<ring, lists, stat>>

send_waits(t, v, tmo) ==
    /\ entry = Size /\ tmo # "no"
    /\ Sleep(t, "send", tmo)
    /\ ipc_list_suspend(suspend_sender_thread, suspend_sender_thread', t)
    /\ value' = [value EXCEPT ![t] = v]
    /\ UNCHANGED <<ring, suspend_thread, result>>

send_loop(t, v, tmo) == send_stores(t, v) \/ send_full(t, tmo) \/ send_waits(t, v, tmo)

\* The call up to its return or first wait; rt_mb_send is the call with tmo = "no".
rt_mb_send_wait(t, v, tmo) == call[t] = "none" /\ send_loop(t, v, tmo)

\* A call that is resumed from rt_schedule with an error returns it.
fails(t) ==
    /\ error[t] # "EOK"
    /\ Return(t, error[t])
    /\ UNCHANGED <<ring, lists, stat>>

send_resumed(t) ==
    /\ call[t] = "send" /\ stat[t] = "ready"
    /\ \/ fails(t)
       \/ /\ error[t] = "EOK"
          /\ \E tmo \in Left(timeout[t]) : send_loop(t, value[t], tmo)

\* Mutant: urgent mail is written before out_offset is rewound.
rt_mb_urgent_early(t, v) ==
    /\ call[t] = "none" /\ entry < Size
    /\ out_offset' = Previous_offset(out_offset)
    /\ msg_pool' = [msg_pool EXCEPT ![out_offset] = v]
    /\ entry' = entry + 1
    /\ ipc_list_resume(suspend_thread)
    /\ suspend_thread' = Rest(suspend_thread)
    /\ Return(t, "EOK")
    /\ UNCHANGED <<in_offset, suspend_sender_thread>>

rt_mb_urgent(t, v) ==
    /\ call[t] = "none"
    /\ \/ send_full(t, "no")
       \/ /\ entry < Size
          /\ out_offset' = Previous_offset(out_offset)
          /\ msg_pool' = [msg_pool EXCEPT ![out_offset'] = v]
          /\ entry' = entry + 1
          /\ ipc_list_resume(suspend_thread)
          /\ suspend_thread' = Rest(suspend_thread)
          /\ Return(t, "EOK")
          /\ UNCHANGED <<in_offset, suspend_sender_thread>>

\* Mutant: no sender is told that there is room.
recv_takes_no_resume(t) ==
    /\ entry > 0
    /\ out_offset' = Next_offset(out_offset)
    /\ entry' = entry - 1
    /\ Return(t, msg_pool[out_offset])
    /\ UNCHANGED <<msg_pool, in_offset, lists, stat>>

recv_takes(t) ==
    /\ entry > 0
    /\ out_offset' = Next_offset(out_offset)
    /\ entry' = entry - 1
    /\ ipc_list_resume(suspend_sender_thread)
    /\ suspend_sender_thread' = Rest(suspend_sender_thread)
    /\ Return(t, msg_pool[out_offset])
    /\ UNCHANGED <<msg_pool, in_offset, suspend_thread>>

recv_empty(t, tmo) ==
    /\ entry = 0 /\ tmo = "no"
    /\ Return(t, "ETIMEOUT")
    /\ UNCHANGED <<ring, lists, stat>>

recv_waits(t, tmo) ==
    /\ entry = 0 /\ tmo # "no"
    /\ Sleep(t, "recv", tmo)
    /\ ipc_list_suspend(suspend_thread, suspend_thread', t)
    /\ UNCHANGED <<ring, suspend_sender_thread, value, result>>

recv_loop(t, tmo) == recv_takes(t) \/ recv_empty(t, tmo) \/ recv_waits(t, tmo)

rt_mb_recv(t, tmo) == call[t] = "none" /\ recv_loop(t, tmo)

recv_resumed(t) ==
    /\ call[t] = "recv" /\ stat[t] = "ready"
    /\ \/ fails(t)
       \/ /\ error[t] = "EOK"
          /\ \E tmo \in Left(timeout[t]) : recv_loop(t, tmo)

-----------------------------------------------------------------------------
(* What happens to a waiting thread from outside *)

\* rt_thread_timeout and rt_thread_resume take the thread off the list it is on.
Wake(t, err) ==
    /\ stat' = [stat EXCEPT ![t] = "ready"]
    /\ error' = [error EXCEPT ![t] = err]
    /\ suspend_thread' = RemoveFirst(suspend_thread, t)
    /\ suspend_sender_thread' = RemoveFirst(suspend_sender_thread, t)
    /\ UNCHANGED <<ring, call, timeout, value, result>>

\* Mutant: the thread whose timer went off stays on the waiting list.
rt_thread_timeout_on_list(t) ==
    /\ stat[t] = "suspend" /\ timeout[t] = "ticks"
    /\ stat' = [stat EXCEPT ![t] = "ready"]
    /\ error' = [error EXCEPT ![t] = "ETIMEOUT"]
    /\ UNCHANGED <<ring, lists, call, timeout, value, result>>

rt_thread_timeout(t) ==
    /\ stat[t] = "suspend" /\ timeout[t] = "ticks"
    /\ Wake(t, "ETIMEOUT")

\* _signal_deliver resumes a suspended thread, or gives a ready one a handler
\* frame; rt_thread_handle_sig sets thread->error before the thread's next statement.
signal(t) ==
    /\ t \in handlers /\ call[t] # "none"
    /\ Wake(t, "EINTR")

\* rt_signal_install and rt_signal_unmask, called by the thread itself.
rt_signal_install(t) ==
    /\ call[t] = "none" /\ t \in Interruptible \ handlers
    /\ handlers' = handlers \cup {t}
    /\ UNCHANGED box

\* rt_mb_control(mb, RT_IPC_CMD_RESET, ...)
rt_mb_control(t) ==
    /\ call[t] = "none"
    /\ stat' = [u \in Threads |-> "ready"]
    /\ error' = [u \in Threads |-> IF stat[u] = "suspend" THEN "ERROR" ELSE error[u]]
    /\ suspend_thread' = <<>> /\ suspend_sender_thread' = <<>>
    /\ entry' = 0 /\ in_offset' = 0 /\ out_offset' = 0
    /\ UNCHANGED <<msg_pool, call, timeout, value, result>>

-----------------------------------------------------------------------------

Timeouts == {"no", "ticks", "forever"}

\* rt_mb_init
Init ==
    /\ msg_pool = [i \in 0 .. Size - 1 |-> NoMail]
    /\ entry = 0 /\ in_offset = 0 /\ out_offset = 0
    /\ suspend_thread = <<>> /\ suspend_sender_thread = <<>>
    /\ call = [t \in Threads |-> "none"]
    /\ stat = [t \in Threads |-> "ready"]
    /\ timeout = [t \in Threads |-> "no"]
    /\ value = [t \in Threads |-> NoMail]
    /\ error = [t \in Threads |-> "EOK"]
    /\ result = <<>>
    /\ handlers = {}

Resumed(t) == (send_resumed(t) \/ recv_resumed(t)) /\ UNCHANGED handlers

\* The calls on the box, and what happens to the threads that wait in one.
Calls ==
    \E t \in Threads :
        \/ \E v \in Values, tmo \in Timeouts : rt_mb_send_wait(t, v, tmo)
        \/ \E v \in Values : rt_mb_urgent(t, v)
        \/ \E tmo \in Timeouts : rt_mb_recv(t, tmo)
        \/ Resumed(t)
        \/ rt_thread_timeout(t)
        \/ signal(t)
        \/ rt_mb_control(t)

Next == (Calls /\ UNCHANGED handlers) \/ \E t \in Threads : rt_signal_install(t)

Spec == Init /\ [][Next]_vars

-----------------------------------------------------------------------------
(* Properties *)

Mail == Values \cup {NoMail}
Errors == {"EOK", "ETIMEOUT", "EINTR", "ERROR"}

TypeRing ==
    /\ msg_pool \in [0 .. Size - 1 -> Mail]
    /\ entry \in 0 .. Size /\ in_offset \in 0 .. Size - 1 /\ out_offset \in 0 .. Size - 1

TypeCalls ==
    /\ call \in [Threads -> {"none", "send", "recv"}]
    /\ stat \in [Threads -> {"ready", "suspend"}]
    /\ timeout \in [Threads -> Timeouts]
    /\ value \in [Threads -> Mail]
    /\ error \in [Threads -> Errors]
    /\ result \in {<<>>} \cup (Threads \X (Values \cup Errors \cup {"EFULL"}))

TypeLists == suspend_thread \in Seq(Threads) /\ suspend_sender_thread \in Seq(Threads)

\* Type invariant; a call that took a mail returned a mail that was sent.
TypeOK == TypeRing /\ TypeCalls /\ TypeLists /\ handlers \subseteq Interruptible

\* The mails in the ring, oldest first.
Slot(n) == IF n < Size THEN n ELSE n - Size
Mails == [i \in 1 .. entry |-> msg_pool[Slot(out_offset + i - 1)]]

\* The ring buffer with its waiting threads implements the bounded queue of
\* Mailbox: no mail is lost, duplicated or reordered by wrap-around, by urgent
\* mails, by time-outs or by interrupted calls.
Box == INSTANCE Mailbox WITH mails <- Mails
RefinesMailbox == Box!Spec

\* The threads that have been resumed by a mail, or by room, and have not run yet.
Woken(c) == {t \in Threads : call[t] = c /\ stat[t] = "ready" /\ error[t] = "EOK"}

\* Until a thread has a signal handler, a receiver sleeps on a box that holds mails
\* only if for every mail there is a receiver on its way: the one resume in
\* rt_mb_send_wait and rt_mb_urgent is enough.  (A signal may take the woken
\* receiver away with EINTR, and then the mail waits for the next call.)
NoMailStranded ==
    handlers = {} /\ suspend_thread # <<>> => entry <= Cardinality(Woken("recv"))

\* Likewise a sender sleeps on a box with room only if for every free slot a
\* sender is on its way: the resume in rt_mb_recv is enough.
NoRoomStranded ==
    handlers = {} /\ suspend_sender_thread # <<>> => Size - entry <= Cardinality(Woken("send"))

\* Nobody sleeps past what the thread waits for, in whichever order sends, receives
\* and time-outs come.
NobodyStranded == NoMailStranded /\ NoRoomStranded

Sleepers(c) == {t \in Threads : stat[t] = "suspend" /\ call[t] = c}

\* The waiting lists hold exactly the suspended threads, each on the list of its
\* call and only once: time-outs, signals and resets leave no dangling entry.
ListsExact ==
    /\ ToSet(suspend_thread) = Sleepers("recv")
    /\ ToSet(suspend_sender_thread) = Sleepers("send")
    /\ \A t \in Threads : stat[t] = "suspend" => call[t] # "none"
    /\ IsInjective(suspend_thread) /\ IsInjective(suspend_sender_thread)

=============================================================================
