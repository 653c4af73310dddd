--------------------------- MODULE MailboxProofs ---------------------------
(***************************************************************************)
(* Proofs about RtMailbox, for every size, set of threads and mails and    *)
(* every way of queueing: the ring buffer implements the bounded queue of  *)
(* Mailbox.                                                                *)
(***************************************************************************)
EXTENDS RtMailbox, WaitingLists, SequenceTheorems, FiniteSetTheorems, TLAPS

\* The inductive invariant of the ring: in_offset is the slot after the last mail,
\* a waiting sender holds a mail, and every slot between the offsets is a mail.
RingOK == in_offset = Slot(out_offset + entry)
HoldsMail == \A t \in Threads : call[t] = "send" => value[t] \in Values
FullSlots == \A i \in 1 .. entry : Mails[i] \in Values

RingInv == TypeRing /\ TypeCalls /\ RingOK /\ HoldsMail /\ FullSlots

-----------------------------------------------------------------------------
(* The three operations on the ring, as operations on the queue *)

IsQueue == Mails \in Seq(Mail) /\ Len(Mails) = entry

LEMMA MailsSeq == TypeRing => IsQueue
<1> SUFFICES ASSUME TypeRing PROVE IsQueue
  OBVIOUS
<1> USE RtMailboxAssumption DEF RtMailboxAssumption, TypeRing
<1>1. \A i \in 1 .. entry : Slot(out_offset + i - 1) \in 0 .. Size - 1
  BY DEF Slot
<1>2. Mails \in [1 .. entry -> Mail]
  BY <1>1 DEF Mails
<1>3. Mails \in Seq(Mail)
  BY <1>2, SeqDef
<1>4. Len(Mails) = entry
  BY <1>2, <1>3, LenProperties
<1> QED BY <1>3, <1>4 DEF IsQueue

\* Writing at in_offset appends.
LEMMA StoreAppends ==
    ASSUME TypeRing, RingOK, entry < Size, NEW v \in Mail,
           msg_pool' = [msg_pool EXCEPT ![in_offset] = v],
           in_offset' = Next_offset(in_offset),
           entry' = entry + 1, out_offset' = out_offset
    PROVE  Mails' = Append(Mails, v) /\ TypeRing' /\ RingOK'
<1> USE RtMailboxAssumption DEF RtMailboxAssumption, TypeRing, RingOK
<1>1. TypeRing' /\ RingOK'
  BY DEF Next_offset, Slot
<1>2. \A i \in 1 .. entry : /\ Slot(out_offset + i - 1) \in 0 .. Size - 1
                            /\ Slot(out_offset + i - 1) # in_offset
  BY DEF Slot
<1>3. \A i \in 1 .. entry : Mails'[i] = Mails[i]
  BY <1>2 DEF Mails, Slot
<1>4. Mails'[entry + 1] = v
  BY DEF Mails, Slot
<1>5. Mails \in Seq(Mail) /\ Len(Mails) = entry
  BY MailsSeq DEF IsQueue
<1>6. Mails' \in Seq(Mail) /\ Len(Mails') = entry + 1
  <2>1. IsQueue'
    BY <1>1, MailsSeq, PTL
  <2> QED BY <2>1 DEF IsQueue
<1>7. Append(Mails, v) \in Seq(Mail) /\ Len(Append(Mails, v)) = entry + 1
  BY ONLY <1>5, v \in Mail
<1>8. \A i \in 1 .. Len(Mails') : Mails'[i] = Append(Mails, v)[i]
  BY <1>3, <1>4, <1>5, <1>6
<1>9. Mails' = Append(Mails, v)
  BY <1>6, <1>7, <1>8, SeqEqual
<1> QED BY <1>1, <1>9

\* Rewinding out_offset and writing there prepends.
LEMMA UrgentPrepends ==
    ASSUME TypeRing, RingOK, entry < Size, NEW v \in Mail,
           out_offset' = Previous_offset(out_offset),
           msg_pool' = [msg_pool EXCEPT ![out_offset'] = v],
           entry' = entry + 1, in_offset' = in_offset
    PROVE  Mails' = <<v>> \o Mails /\ TypeRing' /\ RingOK'
<1> USE RtMailboxAssumption DEF RtMailboxAssumption, TypeRing, RingOK
<1>1. TypeRing' /\ RingOK'
  BY DEF Previous_offset, Slot
<1>2. \A i \in 1 .. entry : /\ Slot(out_offset' + i) = Slot(out_offset + i - 1)
                            /\ Slot(out_offset + i - 1) \in 0 .. Size - 1
                            /\ Slot(out_offset + i - 1) # out_offset'
  BY DEF Slot, Previous_offset
<1>3. \A i \in 1 .. entry : Mails'[i + 1] = Mails[i]
  BY <1>2 DEF Mails, Slot
<1>4. Mails'[1] = v
  BY <1>1 DEF Mails, Slot
<1>5. Mails \in Seq(Mail) /\ Len(Mails) = entry
  BY MailsSeq DEF IsQueue
<1>6. Mails' \in Seq(Mail) /\ Len(Mails') = entry + 1
  <2>1. IsQueue'
    BY <1>1, MailsSeq, PTL
  <2> QED BY <2>1 DEF IsQueue
<1>7. /\ <<v>> \o Mails \in Seq(Mail) /\ Len(<<v>> \o Mails) = entry + 1
      /\ (<<v>> \o Mails)[1] = v /\ \A i \in 1 .. entry : (<<v>> \o Mails)[i + 1] = Mails[i]
  BY <1>5
<1>8. \A i \in 1 .. Len(Mails') : Mails'[i] = (<<v>> \o Mails)[i]
  <2> TAKE i \in 1 .. Len(Mails')
  <2>1. CASE i = 1
    BY <2>1, <1>4, <1>7
  <2>2. CASE i # 1
    <3>1. i - 1 \in 1 .. entry /\ i = (i - 1) + 1
      BY <2>2, <1>6
    <3> QED BY <3>1, <1>3, <1>7
  <2> QED BY <2>1, <2>2
<1>9. Mails' = <<v>> \o Mails
  BY <1>6, <1>7, <1>8, SeqEqual
<1> QED BY <1>1, <1>9

\* Advancing out_offset drops the head.
LEMMA TakeDropsHead ==
    ASSUME TypeRing, RingOK, entry > 0,
           out_offset' = Next_offset(out_offset),
           entry' = entry - 1, UNCHANGED <<msg_pool, in_offset>>
    PROVE  /\ Mails # <<>> /\ Head(Mails) = msg_pool[out_offset] /\ Mails' = Tail(Mails)
           /\ TypeRing' /\ RingOK'
<1> USE RtMailboxAssumption DEF RtMailboxAssumption, TypeRing, RingOK
<1>1. TypeRing' /\ RingOK'
  BY DEF Next_offset, Slot
<1>2. Mails \in Seq(Mail) /\ Len(Mails) = entry
  BY MailsSeq DEF IsQueue
<1>3. Mails # <<>> /\ Head(Mails) = msg_pool[out_offset]
  <2>1. Mails # <<>>
    BY <1>2, EmptySeq
  <2>2. Mails[1] = msg_pool[out_offset]
    BY DEF Mails, Slot
  <2> QED BY <1>2, <2>1, <2>2
<1>4. Mails' \in Seq(Mail) /\ Len(Mails') = entry - 1
  <2>1. IsQueue'
    BY <1>1, MailsSeq, PTL
  <2> QED BY <2>1 DEF IsQueue
<1>5. \A i \in 1 .. entry - 1 : Mails'[i] = Mails[i + 1]
  BY DEF Mails, Slot, Next_offset
<1>6. /\ Tail(Mails) \in Seq(Mail) /\ Len(Tail(Mails)) = entry - 1
      /\ \A i \in 1 .. entry - 1 : Tail(Mails)[i] = Mails[i + 1]
  BY <1>2, <1>3, HeadTailProperties
<1>7. Mails' = Tail(Mails)
  BY <1>4, <1>5, <1>6, SeqEqual
<1> QED BY <1>1, <1>3, <1>7

-----------------------------------------------------------------------------
(* The invariant of the ring *)

\* Everything but the ring that RingInv is about.
CallsOK == TypeCalls /\ HoldsMail

LEMMA RingInit == Init => RingInv
<1> SUFFICES ASSUME Init PROVE RingInv
  OBVIOUS
<1> USE RtMailboxAssumption DEF RtMailboxAssumption, Init
<1>1. TypeRing /\ RingOK /\ FullSlots
  BY DEF TypeRing, RingOK, FullSlots, Slot, Mail
<1>2. TypeCalls /\ HoldsMail
  BY DEF TypeCalls, HoldsMail, Mail, Errors, Timeouts
<1> QED BY <1>1, <1>2 DEF RingInv

\* A call that returns a mail or an error code.
LEMMA ReturnCalls ==
    ASSUME CallsOK, NEW t \in Threads, NEW r \in Values \cup Errors \cup {"EFULL"},
           Return(t, r), stat' \in [Threads -> {"ready", "suspend"}]
    PROVE  CallsOK'
BY DEF CallsOK, TypeCalls, HoldsMail, Return, Mail, Errors, Timeouts

\* Resuming the first waiting thread.
LEMMA ResumeStat ==
    ASSUME TypeCalls, NEW list, ipc_list_resume(list)
    PROVE  stat' \in [Threads -> {"ready", "suspend"}]
BY DEF TypeCalls, ipc_list_resume

\* What rt_mb_send_wait does to the box in one stretch.
LEMMA SendLoop ==
    ASSUME RingInv, NEW t \in Threads, NEW v \in Values, NEW tmo \in Timeouts,
           send_loop(t, v, tmo)
    PROVE  RingInv' /\ (Box!Send(t, v) \/ Box!Fail(t, "EFULL") \/ UNCHANGED <<Mails, result>>)
<1> USE DEF RingInv
<1>0. IsQueue /\ CallsOK
  BY MailsSeq DEF CallsOK
<1>1. CASE send_stores(t, v)
  <2> USE <1>1 DEF send_stores
  <2>1. Mails' = Append(Mails, v) /\ TypeRing' /\ RingOK'
    BY StoreAppends DEF Mail
  <2>2. CallsOK'
    BY <1>0, ResumeStat, ReturnCalls DEF Errors
  <2>3. FullSlots'
    BY <1>0, <2>1 DEF FullSlots, IsQueue, TypeRing
  <2>4. Box!Send(t, v)
    BY <1>0, <2>1 DEF Box!Send, IsQueue, Return
  <2> QED BY <2>1, <2>2, <2>3, <2>4 DEF CallsOK
<1>2. CASE send_full(t, tmo)
  <2> USE <1>2 DEF send_full, ring
  <2>1. Mails' = Mails
    BY DEF Mails
  <2>2. CallsOK'
    <3>1. stat' \in [Threads -> {"ready", "suspend"}]
      BY DEF TypeCalls
    <3> QED BY <1>0, <3>1, ReturnCalls
  <2>3. TypeRing' /\ RingOK' /\ FullSlots'
    BY <2>1 DEF TypeRing, RingOK, FullSlots, Slot
  <2>4. Box!Fail(t, "EFULL")
    BY <1>0, <2>1 DEF Box!Fail, IsQueue, Return
  <2> QED BY <2>2, <2>3, <2>4 DEF CallsOK
<1>3. CASE send_waits(t, v, tmo)
  <2> USE <1>3 DEF send_waits, ring
  <2>1. Mails' = Mails
    BY DEF Mails
  <2>2. CallsOK'
    BY <1>0 DEF CallsOK, TypeCalls, HoldsMail, Sleep, Mail, Errors
  <2>3. TypeRing' /\ RingOK' /\ FullSlots'
    BY <2>1 DEF TypeRing, RingOK, FullSlots, Slot
  <2> QED BY <2>1, <2>2, <2>3 DEF CallsOK
<1> QED BY <1>1, <1>2, <1>3 DEF send_loop

\* What rt_mb_recv does to the box in one stretch.
LEMMA RecvLoop ==
    ASSUME RingInv, NEW t \in Threads, NEW tmo \in Timeouts, recv_loop(t, tmo)
    PROVE  RingInv' /\ (Box!Recv(t) \/ Box!Fail(t, "ETIMEOUT") \/ UNCHANGED <<Mails, result>>)
<1> USE DEF RingInv
<1>0. IsQueue /\ CallsOK
  BY MailsSeq DEF CallsOK
<1>1. CASE recv_takes(t)
  <2> USE <1>1 DEF recv_takes
  <2>1. /\ Mails # <<>> /\ Head(Mails) = msg_pool[out_offset] /\ Mails' = Tail(Mails)
        /\ TypeRing' /\ RingOK'
    BY TakeDropsHead
  <2>2. msg_pool[out_offset] \in Values
    BY <1>0, <2>1 DEF FullSlots, IsQueue, TypeRing
  <2>3. CallsOK'
    BY <1>0, <2>2, ResumeStat, ReturnCalls
  <2>4. FullSlots'
    <3>1. \A i \in 1 .. entry - 1 : Tail(Mails)[i] = Mails[i + 1]
      BY <1>0, <2>1, HeadTailProperties DEF IsQueue
    <3>2. \A i \in 1 .. entry - 1 : i + 1 \in 1 .. entry
      BY DEF TypeRing
    <3>3. entry' = entry - 1 /\ Mails' = Tail(Mails)
      BY <2>1
    <3> QED BY ONLY FullSlots, <3>1, <3>2, <3>3 DEF FullSlots
  <2>5. Box!Recv(t)
    BY <2>1 DEF Box!Recv, Return
  <2> QED BY <2>1, <2>3, <2>4, <2>5 DEF CallsOK
<1>2. CASE recv_empty(t, tmo)
  <2> USE <1>2 DEF recv_empty, ring
  <2>1. Mails' = Mails
    BY DEF Mails
  <2>2. CallsOK'
    <3>1. stat' \in [Threads -> {"ready", "suspend"}]
      BY DEF TypeCalls
    <3> QED BY <1>0, <3>1, ReturnCalls DEF Errors
  <2>3. TypeRing' /\ RingOK' /\ FullSlots'
    BY <2>1 DEF TypeRing, RingOK, FullSlots, Slot
  <2>4. Box!Fail(t, "ETIMEOUT")
    BY <2>1 DEF Box!Fail, Return
  <2> QED BY <2>2, <2>3, <2>4 DEF CallsOK
<1>3. CASE recv_waits(t, tmo)
  <2> USE <1>3 DEF recv_waits, ring
  <2>1. Mails' = Mails
    BY DEF Mails
  <2>2. CallsOK'
    BY <1>0 DEF CallsOK, TypeCalls, HoldsMail, Sleep, Mail, Errors
  <2>3. TypeRing' /\ RingOK' /\ FullSlots'
    BY <2>1 DEF TypeRing, RingOK, FullSlots, Slot
  <2> QED BY <2>1, <2>2, <2>3 DEF CallsOK
<1> QED BY <1>1, <1>2, <1>3 DEF recv_loop

\* A resumed call that returns its error.
LEMMA Fails ==
    ASSUME RingInv, NEW t \in Threads, fails(t)
    PROVE  RingInv' /\ \E e \in {"ETIMEOUT", "EINTR", "ERROR"} : Box!Fail(t, e)
<1> USE DEF RingInv, fails, ring
<1>1. Mails' = Mails
  BY DEF Mails
<1>2. error[t] \in {"ETIMEOUT", "EINTR", "ERROR"}
  BY DEF TypeCalls, Errors
<1>3. CallsOK'
  <2>1. stat' \in [Threads -> {"ready", "suspend"}]
    BY DEF TypeCalls
  <2> QED BY <1>2, <2>1, ReturnCalls DEF CallsOK, Errors
<1>4. TypeRing' /\ RingOK' /\ FullSlots'
  BY <1>1 DEF TypeRing, RingOK, FullSlots, Slot
<1>5. Box!Fail(t, error[t])
  BY <1>1, <1>2 DEF Box!Fail, Return
<1> QED BY <1>2, <1>3, <1>4, <1>5 DEF CallsOK

\* Time-outs, signals and whatever else wakes one thread.
LEMMA WakeInv ==
    ASSUME RingInv, NEW t \in Threads, NEW e \in Errors, Wake(t, e)
    PROVE  RingInv' /\ UNCHANGED <<Mails, result>>
<1> USE DEF RingInv, Wake, ring
<1>1. Mails' = Mails
  BY DEF Mails
<1>2. TypeRing' /\ RingOK' /\ FullSlots'
  BY <1>1 DEF TypeRing, RingOK, FullSlots, Slot
<1>3. TypeCalls' /\ HoldsMail'
  BY DEF TypeCalls, HoldsMail
<1> QED BY <1>1, <1>2, <1>3

LEMMA UrgentInv ==
    ASSUME RingInv, NEW t \in Threads, NEW v \in Values, rt_mb_urgent(t, v)
    PROVE  RingInv' /\ (Box!Urgent(t, v) \/ Box!Fail(t, "EFULL"))
<1> USE DEF RingInv
<1>0. IsQueue /\ CallsOK
  BY MailsSeq DEF CallsOK
<1>1. CASE send_full(t, "no")
  <2>1. UNCHANGED <<msg_pool, entry, in_offset, out_offset, stat>> /\ Return(t, "EFULL")
        /\ entry = Size
    BY <1>1 DEF send_full, ring
  <2>2. Mails' = Mails
    BY <2>1 DEF Mails
  <2>3. CallsOK'
    BY <1>0, <2>1, ReturnCalls DEF TypeCalls
  <2>4. TypeRing' /\ RingOK' /\ FullSlots'
    BY <2>1, <2>2 DEF TypeRing, RingOK, FullSlots, Slot
  <2>5. Box!Fail(t, "EFULL")
    BY <1>0, <2>1, <2>2 DEF Box!Fail, IsQueue, Return
  <2> QED BY <2>3, <2>4, <2>5 DEF CallsOK
<1>2. CASE ~send_full(t, "no")
  <2> USE <1>2 DEF rt_mb_urgent
  <2>1. Mails' = <<v>> \o Mails /\ TypeRing' /\ RingOK'
    BY UrgentPrepends DEF Mail
  <2>2. CallsOK'
    BY <1>0, ResumeStat, ReturnCalls DEF Errors
  <2>3. FullSlots'
    <3>1. Mails' \in Seq(Mail) /\ entry' = entry + 1 /\ entry \in Nat /\ Mails \in Seq(Mail)
          /\ Len(Mails) = entry
      BY <1>0, <2>1 DEF IsQueue, Mail, TypeRing
    <3>2. \A i \in 1 .. entry + 1 : (<<v>> \o Mails)[i] = IF i = 1 THEN v ELSE Mails[i - 1]
      BY <3>1
    <3> QED BY <2>1, <3>1, <3>2 DEF FullSlots
  <2>4. Box!Urgent(t, v)
    BY <1>0, <2>1 DEF Box!Urgent, IsQueue, Return
  <2> QED BY <2>1, <2>2, <2>3, <2>4 DEF CallsOK
<1> QED BY <1>1, <1>2

LEMMA ResetInv ==
    ASSUME RingInv, NEW t \in Threads, rt_mb_control(t)
    PROVE  RingInv' /\ Box!Reset
<1> USE DEF RingInv, rt_mb_control
<1>1. TypeRing' /\ RingOK' /\ FullSlots'
  BY RtMailboxAssumption DEF RtMailboxAssumption, TypeRing, RingOK, FullSlots, Slot
<1>2. TypeCalls' /\ HoldsMail'
  BY DEF TypeCalls, HoldsMail, Errors
<1>3. Mails' = <<>>
  <2>1. IsQueue'
    BY <1>1, MailsSeq, PTL
  <2> QED BY <2>1, EmptySeq DEF IsQueue
<1> QED BY <1>1, <1>2, <1>3 DEF Box!Reset

-----------------------------------------------------------------------------
(* The refinement *)

\* Every step keeps the invariant and is a step of the queue or leaves it alone.
LEMMA RingStep ==
    ASSUME RingInv, [Next]_vars
    PROVE  RingInv' /\ [Box!Next]_(Box!vars)
<1> USE DEF Box!Next, Box!vars
<1>1. ASSUME NEW t \in Threads, NEW v \in Values, NEW tmo \in Timeouts, send_loop(t, v, tmo)
      PROVE  RingInv' /\ [Box!Next]_(Box!vars)
  BY <1>1, SendLoop
<1>2. ASSUME NEW t \in Threads, NEW tmo \in Timeouts, recv_loop(t, tmo)
      PROVE  RingInv' /\ [Box!Next]_(Box!vars)
  BY <1>2, RecvLoop
<1>3. ASSUME NEW t \in Threads, fails(t)
      PROVE  RingInv' /\ [Box!Next]_(Box!vars)
  BY <1>3, Fails
<1>4. ASSUME NEW t \in Threads, Resumed(t)
      PROVE  RingInv' /\ [Box!Next]_(Box!vars)
  <2>1. Left(timeout[t]) \subseteq Timeouts
    BY DEF RingInv, TypeCalls, Left, Timeouts
  <2>2. call[t] = "send" => value[t] \in Values
    BY DEF RingInv, HoldsMail
  <2> QED BY <1>1, <1>2, <1>3, <1>4, <2>1, <2>2 DEF Resumed, send_resumed, recv_resumed
<1>5. ASSUME NEW t \in Threads, NEW v \in Values, rt_mb_urgent(t, v)
      PROVE  RingInv' /\ [Box!Next]_(Box!vars)
  BY <1>5, UrgentInv
<1>6. ASSUME NEW t \in Threads, rt_thread_timeout(t) \/ signal(t)
      PROVE  RingInv' /\ [Box!Next]_(Box!vars)
  BY <1>6, WakeInv DEF rt_thread_timeout, signal, Errors
<1>7. ASSUME NEW t \in Threads, rt_mb_control(t)
      PROVE  RingInv' /\ [Box!Next]_(Box!vars)
  BY <1>7, ResetInv
<1>8. CASE UNCHANGED box
  <2> USE <1>8 DEF box, ring, lists
  <2>1. Mails' = Mails
    BY DEF Mails
  <2> QED BY <2>1 DEF RingInv, TypeRing, TypeCalls, RingOK, HoldsMail, FullSlots, Slot
<1> QED BY <1>1, <1>2, <1>4, <1>5, <1>6, <1>7, <1>8
        DEF Next, Calls, vars, rt_signal_install, rt_mb_send_wait, rt_mb_recv

\* For every size, number of threads and order of waiting, the ring buffer of
\* rt_mb_send_wait, rt_mb_urgent and rt_mb_recv implements the bounded queue.
THEOREM ImplementsMailbox == Spec => RefinesMailbox
<1>1. Init => RingInv /\ Box!Init
  <2> SUFFICES ASSUME Init PROVE Box!Init
    BY RingInit
  <2>1. IsQueue /\ entry = 0
    BY RingInit, MailsSeq DEF RingInv, Init
  <2>2. Mails = <<>>
    BY <2>1, EmptySeq DEF IsQueue
  <2> QED BY <2>2 DEF Box!Init, Init
<1>2. RingInv /\ [Next]_vars => RingInv' /\ [Box!Next]_(Box!vars)
  BY RingStep
<1> QED BY <1>1, <1>2, PTL DEF Spec, RefinesMailbox, Box!Spec

-----------------------------------------------------------------------------
(* The lists hold the sleepers *)

\* A sleeper is inside a call and its error has been reset.
SleepOK == \A t \in Threads : stat[t] = "suspend" => call[t] # "none" /\ error[t] = "EOK"

ListInv ==
    /\ IsList(suspend_thread, Threads) /\ ToSet(suspend_thread) = Sleepers("recv")
    /\ IsList(suspend_sender_thread, Threads) /\ ToSet(suspend_sender_thread) = Sleepers("send")
    /\ SleepOK

\* ipc_list_resume and Rest: the head of the list, if there is one, wakes up.
LEMMA ResumeList ==
    ASSUME TypeCalls, NEW list, IsList(list, Threads), ipc_list_resume(list)
    PROVE  /\ IsList(Rest(list), Threads)
           /\ \/ list = <<>> /\ Rest(list) = <<>> /\ stat' = stat
              \/ \E h \in ToSet(list) :
                    /\ h \in Threads /\ ToSet(Rest(list)) = ToSet(list) \ {h}
                    /\ stat' = [stat EXCEPT ![h] = "ready"]
<1>1. CASE list = <<>>
  BY <1>1 DEF ipc_list_resume, Rest
<1>2. CASE list # <<>>
  BY <1>2, TailList DEF ipc_list_resume, Rest
<1> QED BY <1>1, <1>2

\* A step of t that only ends its call.
LEMMA ReturnLists ==
    ASSUME TypeCalls, ListInv, NEW t \in Threads, stat[t] = "ready", NEW r, Return(t, r),
           UNCHANGED <<suspend_thread, suspend_sender_thread, stat>>
    PROVE  ListInv'
<1>1. Sleepers("recv")' = Sleepers("recv") /\ Sleepers("send")' = Sleepers("send")
  BY DEF Sleepers, Return, TypeCalls
<1>2. SleepOK'
  BY DEF ListInv, SleepOK, Return, TypeCalls
<1> QED BY <1>1, <1>2 DEF ListInv

\* A step of t that ends its call and resumes the first receiver, or sender.
LEMMA ReceiverResumed ==
    ASSUME TypeCalls, ListInv, NEW t \in Threads, stat[t] = "ready",
           ipc_list_resume(suspend_thread), suspend_thread' = Rest(suspend_thread),
           NEW r, Return(t, r), UNCHANGED suspend_sender_thread
    PROVE  ListInv'
<1>1. IsList(suspend_thread, Threads) /\ ToSet(suspend_thread) = Sleepers("recv")
  BY DEF ListInv
<1>2. CASE suspend_thread = <<>> /\ Rest(suspend_thread) = <<>> /\ stat' = stat
  BY <1>2, ReturnLists
<1>3. ASSUME NEW h \in ToSet(suspend_thread), h \in Threads,
             ToSet(Rest(suspend_thread)) = ToSet(suspend_thread) \ {h},
             stat' = [stat EXCEPT ![h] = "ready"]
      PROVE  ListInv'
  <2>1. h # t /\ stat[h] = "suspend" /\ call[h] = "recv"
    BY <1>1, <1>3 DEF Sleepers
  <2>2. Sleepers("recv")' = Sleepers("recv") \ {h}
    BY <1>3, <2>1 DEF Sleepers, Return, TypeCalls
  <2>3. Sleepers("send")' = Sleepers("send")
    BY <1>3, <2>1 DEF Sleepers, Return, TypeCalls
  <2>4. SleepOK'
    BY <1>3, <2>1 DEF ListInv, SleepOK, Return, TypeCalls
  <2>5. IsList(suspend_thread', Threads) /\ IsList(suspend_sender_thread', Threads)
    BY <1>1, ResumeList DEF ListInv
  <2> QED BY <1>1, <1>3, <2>2, <2>3, <2>4, <2>5 DEF ListInv
<1> QED BY <1>1, <1>2, <1>3, ResumeList

LEMMA SenderResumed ==
    ASSUME TypeCalls, ListInv, NEW t \in Threads, stat[t] = "ready",
           ipc_list_resume(suspend_sender_thread), suspend_sender_thread' = Rest(suspend_sender_thread),
           NEW r, Return(t, r), UNCHANGED suspend_thread
    PROVE  ListInv'
<1>1. IsList(suspend_sender_thread, Threads) /\ ToSet(suspend_sender_thread) = Sleepers("send")
  BY DEF ListInv
<1>2. CASE suspend_sender_thread = <<>> /\ Rest(suspend_sender_thread) = <<>> /\ stat' = stat
  BY <1>2, ReturnLists
<1>3. ASSUME NEW h \in ToSet(suspend_sender_thread), h \in Threads,
             ToSet(Rest(suspend_sender_thread)) = ToSet(suspend_sender_thread) \ {h},
             stat' = [stat EXCEPT ![h] = "ready"]
      PROVE  ListInv'
  <2>1. h # t /\ stat[h] = "suspend" /\ call[h] = "send"
    BY <1>1, <1>3 DEF Sleepers
  <2>2. Sleepers("send")' = Sleepers("send") \ {h}
    BY <1>3, <2>1 DEF Sleepers, Return, TypeCalls
  <2>3. Sleepers("recv")' = Sleepers("recv")
    BY <1>3, <2>1 DEF Sleepers, Return, TypeCalls
  <2>4. SleepOK'
    BY <1>3, <2>1 DEF ListInv, SleepOK, Return, TypeCalls
  <2>5. IsList(suspend_thread', Threads) /\ IsList(suspend_sender_thread', Threads)
    BY <1>1, ResumeList DEF ListInv
  <2> QED BY <1>1, <1>3, <2>2, <2>3, <2>4, <2>5 DEF ListInv
<1> QED BY <1>1, <1>2, <1>3, ResumeList

\* A step of t that goes to sleep on one of the lists.
LEMMA SleepLists ==
    ASSUME TypeCalls, ListInv, NEW t \in Threads, stat[t] = "ready", NEW c \in {"send", "recv"},
           NEW tmo, Sleep(t, c, tmo),
           IF c = "recv"
           THEN /\ ipc_list_suspend(suspend_thread, suspend_thread', t)
                /\ UNCHANGED suspend_sender_thread
           ELSE /\ ipc_list_suspend(suspend_sender_thread, suspend_sender_thread', t)
                /\ UNCHANGED suspend_thread
    PROVE  ListInv'
<1>1. t \notin Sleepers("recv") /\ t \notin Sleepers("send")
  BY DEF Sleepers
<1>2. /\ Sleepers(c)' = Sleepers(c) \cup {t}
      /\ \A d \in {"send", "recv"} \ {c} : Sleepers(d)' = Sleepers(d)
  BY DEF Sleepers, Sleep, TypeCalls
<1>3. SleepOK'
  BY DEF ListInv, SleepOK, Sleep, TypeCalls
<1>4. CASE c = "recv"
  <2>1. PICK i \in 1 .. Len(suspend_thread) + 1 : suspend_thread' = InsertAt(suspend_thread, i, t)
    BY <1>4 DEF ipc_list_suspend
  <2>2. IsList(suspend_thread', Threads) /\ ToSet(suspend_thread') = ToSet(suspend_thread) \cup {t}
    BY <1>1, <2>1, InsertList DEF ListInv
  <2> QED BY <1>2, <1>3, <1>4, <2>2 DEF ListInv
<1>5. CASE c = "send"
  <2>1. PICK i \in 1 .. Len(suspend_sender_thread) + 1 :
            suspend_sender_thread' = InsertAt(suspend_sender_thread, i, t)
    BY <1>5 DEF ipc_list_suspend
  <2>2. /\ IsList(suspend_sender_thread', Threads)
        /\ ToSet(suspend_sender_thread') = ToSet(suspend_sender_thread) \cup {t}
    BY <1>1, <2>1, InsertList DEF ListInv
  <2> QED BY <1>2, <1>3, <1>5, <2>2 DEF ListInv
<1> QED BY <1>4, <1>5

\* A time-out or a signal.
LEMMA WakeLists ==
    ASSUME TypeCalls, ListInv, NEW t \in Threads, NEW err, Wake(t, err)
    PROVE  ListInv'
<1>1. /\ IsList(suspend_thread', Threads) /\ ToSet(suspend_thread') = ToSet(suspend_thread) \ {t}
      /\ IsList(suspend_sender_thread', Threads)
      /\ ToSet(suspend_sender_thread') = ToSet(suspend_sender_thread) \ {t}
  BY RemoveList DEF ListInv, Wake
<1>2. \A c : Sleepers(c)' = Sleepers(c) \ {t}
  BY DEF Sleepers, Wake, TypeCalls
<1>3. SleepOK'
  BY DEF ListInv, SleepOK, Wake, TypeCalls
<1> QED BY <1>1, <1>2, <1>3 DEF ListInv

LEMMA ResetLists ==
    ASSUME NEW t \in Threads, rt_mb_control(t)
    PROVE  ListInv'
<1>1. \A c : Sleepers(c)' = {}
  BY DEF Sleepers, rt_mb_control
<1>2. SleepOK'
  BY DEF SleepOK, rt_mb_control
<1> QED BY <1>1, <1>2, EmptyList DEF ListInv, rt_mb_control

LEMMA ListStep == TypeCalls /\ ListInv /\ [Next]_vars => ListInv'
<1> SUFFICES ASSUME TypeCalls, ListInv, [Next]_vars PROVE ListInv'
  OBVIOUS
<1>1. \A t \in Threads : call[t] = "none" => stat[t] = "ready"
  BY DEF ListInv, SleepOK, TypeCalls
<1>2. ASSUME NEW t \in Threads, stat[t] = "ready", NEW v, NEW tmo, send_loop(t, v, tmo)
      PROVE  ListInv'
  <2>1. CASE send_stores(t, v)
    BY <1>2, <2>1, ReceiverResumed DEF send_stores
  <2>2. CASE send_full(t, tmo)
    BY <1>2, <2>2, ReturnLists DEF send_full, lists
  <2>3. CASE send_waits(t, v, tmo)
    BY <1>2, <2>3, SleepLists DEF send_waits
  <2> QED BY <1>2, <2>1, <2>2, <2>3 DEF send_loop
<1>3. ASSUME NEW t \in Threads, stat[t] = "ready", NEW tmo, recv_loop(t, tmo)
      PROVE  ListInv'
  <2>1. CASE recv_takes(t)
    BY <1>3, <2>1, SenderResumed DEF recv_takes
  <2>2. CASE recv_empty(t, tmo)
    BY <1>3, <2>2, ReturnLists DEF recv_empty, lists
  <2>3. CASE recv_waits(t, tmo)
    BY <1>3, <2>3, SleepLists DEF recv_waits
  <2> QED BY <1>3, <2>1, <2>2, <2>3 DEF recv_loop
<1>4. ASSUME NEW t \in Threads, stat[t] = "ready", fails(t) PROVE ListInv'
  BY <1>4, ReturnLists DEF fails, lists
<1>5. ASSUME NEW t \in Threads, NEW v, rt_mb_urgent(t, v) PROVE ListInv'
  <2>1. stat[t] = "ready"
    BY <1>1, <1>5 DEF rt_mb_urgent
  <2>2. CASE send_full(t, "no")
    BY <2>1, <2>2, ReturnLists DEF send_full, lists
  <2> QED BY <1>5, <2>1, <2>2, ReceiverResumed DEF rt_mb_urgent
<1>6. ASSUME NEW t \in Threads, rt_thread_timeout(t) \/ signal(t) PROVE ListInv'
  BY <1>6, WakeLists DEF rt_thread_timeout, signal
<1>7. ASSUME NEW t \in Threads, Resumed(t) PROVE ListInv'
  BY <1>2, <1>3, <1>4, <1>7 DEF Resumed, send_resumed, recv_resumed
<1>8. CASE UNCHANGED box
  BY <1>8 DEF box, lists, ListInv, SleepOK, Sleepers
<1> QED BY <1>1, <1>2, <1>3, <1>5, <1>6, <1>7, <1>8, ResetLists
        DEF Next, Calls, vars, rt_signal_install, rt_mb_send_wait, rt_mb_recv

LEMMA ListInit == Init => ListInv
<1> SUFFICES ASSUME Init PROVE ListInv
  OBVIOUS
<1>1. Sleepers("recv") = {} /\ Sleepers("send") = {} /\ SleepOK
  BY DEF Init, Sleepers, SleepOK
<1> QED BY <1>1, EmptyList DEF Init, ListInv

HandlersOK == handlers \subseteq Interruptible

LEMMA BothInvariants == Spec => [](RingInv /\ ListInv /\ HandlersOK)
<1>1. Init => RingInv /\ ListInv /\ HandlersOK
  BY RingInit, ListInit DEF Init, HandlersOK
<1>2. RingInv /\ ListInv /\ [Next]_vars => (RingInv /\ ListInv)'
  BY RingStep, ListStep DEF RingInv
<1>3. HandlersOK /\ [Next]_vars => HandlersOK'
  BY DEF HandlersOK, Next, vars, rt_signal_install
<1> QED BY <1>1, <1>2, <1>3, PTL DEF Spec

\* The offsets, the counter and the results of calls keep their types: a call
\* that took a mail returned a mail that was sent, never an empty slot.
THEOREM TypeCorrect == Spec => []TypeOK
<1>1. RingInv /\ ListInv /\ HandlersOK => TypeOK
  BY DEF RingInv, ListInv, HandlersOK, IsList, TypeOK, TypeLists
<1> QED BY <1>1, BothInvariants, PTL

\* The waiting lists of rt_mb_send_wait and rt_mb_recv hold exactly the suspended
\* threads, whatever time-outs, signals and resets come in between.
THEOREM ListsExactHolds == Spec => []ListsExact
<1>1. RingInv /\ ListInv => ListsExact
  BY DEF ListInv, IsList, SleepOK, ListsExact
<1> QED BY <1>1, BothInvariants, PTL

-----------------------------------------------------------------------------
(* No wake-up is lost while nobody can be interrupted by a signal *)

\* The counting.
LEMMA WokenCount ==
    ASSUME NEW c, NEW t
    PROVE  LET n == Cardinality(Woken(c))
               m == Cardinality(Woken(c) \ {t})
           IN  /\ n \in Nat /\ m \in Nat /\ m >= n - 1
               /\ t \notin Woken(c) => Cardinality(Woken(c) \cup {t}) = n + 1
<1>1. Woken(c) \subseteq Threads
  BY DEF Woken
<1>2. IsFiniteSet(Woken(c))
  BY <1>1, FS_Subset, RtMailboxAssumption
<1> HIDE DEF Woken
<1>3. Cardinality(Woken(c)) \in Nat
  BY <1>2, FS_CardinalityType
<1>4. t \notin Woken(c) => Cardinality(Woken(c) \cup {t}) = Cardinality(Woken(c)) + 1
  BY <1>2, FS_AddElement
<1>5. /\ IsFiniteSet(Woken(c) \ {t})
      /\ Cardinality(Woken(c) \ {t}) = IF t \in Woken(c) THEN Cardinality(Woken(c)) - 1
                                                        ELSE Cardinality(Woken(c))
  BY <1>2, FS_RemoveElement
<1>6. Cardinality(Woken(c) \ {t}) \in Nat
  BY <1>5, FS_CardinalityType
<1>7. Cardinality(Woken(c) \ {t}) >= Cardinality(Woken(c)) - 1
  BY <1>3, <1>5
<1> QED BY <1>3, <1>4, <1>6, <1>7

\* One more mail and the head of the receivers woken: rt_mb_send_wait, rt_mb_urgent.
LEMMA StoreStrand ==
    ASSUME TypeRing, TypeCalls, ListInv, NobodyStranded, NEW t \in Threads, stat[t] = "ready",
           call[t] # "recv", call[t] = "send" => error[t] = "EOK",
           entry < Size, entry' = entry + 1, ipc_list_resume(suspend_thread),
           suspend_thread' = Rest(suspend_thread), UNCHANGED suspend_sender_thread,
           NEW r, Return(t, r), UNCHANGED handlers
    PROVE  NobodyStranded'
<1>1. IsList(suspend_thread, Threads) /\ ToSet(suspend_thread) = Sleepers("recv")
  BY DEF ListInv
<1>2. entry \in Nat /\ Size \in Nat
  BY RtMailboxAssumption DEF TypeRing
<1>3. NoMailStranded'
  <2>1. CASE suspend_thread = <<>>
    BY <2>1 DEF Rest, NoMailStranded
  <2>2. CASE suspend_thread # <<>>
    <3> DEFINE h == Head(suspend_thread)
    <3>1. h \in Threads /\ h \in Sleepers("recv") /\ stat' = [stat EXCEPT ![h] = "ready"]
      BY <1>1, <2>2, TailList DEF ipc_list_resume
    <3>2. h \notin Woken("recv") /\ Woken("recv")' = Woken("recv") \cup {h}
      BY <3>1 DEF Woken, Sleepers, Return, TypeCalls, ListInv, SleepOK
    <3>3. Cardinality(Woken("recv")') = Cardinality(Woken("recv")) + 1 /\ Cardinality(Woken("recv")) \in Nat
      BY <3>2, WokenCount
    <3> QED BY <1>2, <2>2, <3>3 DEF NobodyStranded, NoMailStranded
  <2> QED BY <2>1, <2>2
<1>4. NoRoomStranded'
  <2>1. Woken("send")' = Woken("send") \ {t}
    <3>1. CASE suspend_thread = <<>>
      BY <3>1 DEF Woken, Return, TypeCalls, ipc_list_resume
    <3>2. CASE suspend_thread # <<>>
      <4>1. Head(suspend_thread) \in Sleepers("recv") /\ Head(suspend_thread) \in Threads
        BY <1>1, <3>2, TailList
      <4> QED BY <3>2, <4>1 DEF Woken, Return, TypeCalls, ipc_list_resume, Sleepers
    <3> QED BY <3>1, <3>2
  <2>2. /\ Cardinality(Woken("send")) \in Nat /\ Cardinality(Woken("send") \ {t}) \in Nat
        /\ Cardinality(Woken("send") \ {t}) >= Cardinality(Woken("send")) - 1
    BY WokenCount
  <2>3. Cardinality(Woken("send"))' = Cardinality(Woken("send") \ {t})
    BY <2>1
  <2> QED BY <1>2, <2>2, <2>3 DEF NobodyStranded, NoRoomStranded
<1> QED BY <1>3, <1>4 DEF NobodyStranded

\* One mail less and the head of the senders woken: rt_mb_recv.
LEMMA TakeStrand ==
    ASSUME TypeRing, TypeCalls, ListInv, NobodyStranded, NEW t \in Threads, stat[t] = "ready",
           call[t] # "send", entry > 0, entry' = entry - 1,
           ipc_list_resume(suspend_sender_thread), suspend_sender_thread' = Rest(suspend_sender_thread),
           UNCHANGED <<suspend_thread, handlers>>, NEW r, Return(t, r)
    PROVE  NobodyStranded'
<1>1. IsList(suspend_sender_thread, Threads) /\ ToSet(suspend_sender_thread) = Sleepers("send")
  BY DEF ListInv
<1>2. entry \in Nat /\ Size \in Nat
  BY RtMailboxAssumption DEF TypeRing
<1>3. NoRoomStranded'
  <2>1. CASE suspend_sender_thread = <<>>
    BY <2>1 DEF Rest, NoRoomStranded
  <2>2. CASE suspend_sender_thread # <<>>
    <3> DEFINE h == Head(suspend_sender_thread)
    <3>1. h \in Threads /\ h \in Sleepers("send") /\ stat' = [stat EXCEPT ![h] = "ready"]
      BY <1>1, <2>2, TailList DEF ipc_list_resume
    <3>2. h \notin Woken("send") /\ Woken("send")' = Woken("send") \cup {h}
      BY <3>1 DEF Woken, Sleepers, Return, TypeCalls, ListInv, SleepOK
    <3>3. Cardinality(Woken("send")') = Cardinality(Woken("send")) + 1 /\ Cardinality(Woken("send")) \in Nat
      BY <3>2, WokenCount
    <3> QED BY <1>2, <2>2, <3>3 DEF NobodyStranded, NoRoomStranded
  <2> QED BY <2>1, <2>2
<1>4. NoMailStranded'
  <2>1. Woken("recv")' = Woken("recv") \ {t}
    <3>1. CASE suspend_sender_thread = <<>>
      BY <3>1 DEF Woken, Return, TypeCalls, ipc_list_resume
    <3>2. CASE suspend_sender_thread # <<>>
      <4>1. Head(suspend_sender_thread) \in Sleepers("send") /\ Head(suspend_sender_thread) \in Threads
        BY <1>1, <3>2, TailList
      <4> QED BY <3>2, <4>1 DEF Woken, Return, TypeCalls, ipc_list_resume, Sleepers
    <3> QED BY <3>1, <3>2
  <2>2. /\ Cardinality(Woken("recv")) \in Nat /\ Cardinality(Woken("recv") \ {t}) \in Nat
        /\ Cardinality(Woken("recv") \ {t}) >= Cardinality(Woken("recv")) - 1
    BY WokenCount
  <2>3. Cardinality(Woken("recv"))' = Cardinality(Woken("recv") \ {t})
    BY <2>1
  <2> QED BY <1>2, <2>2, <2>3 DEF NobodyStranded, NoMailStranded
<1> QED BY <1>3, <1>4 DEF NobodyStranded

\* A step that leaves the counter alone and wakes or delays nobody.
LEMMA SameStrand ==
    ASSUME NobodyStranded, UNCHANGED <<entry, handlers>>,
           suspend_thread' # <<>> => suspend_thread # <<>> \/ entry = 0,
           suspend_sender_thread' # <<>> => suspend_sender_thread # <<>> \/ entry = Size,
           entry > 0 => Woken("recv")' = Woken("recv"),
           entry < Size => Woken("send")' = Woken("send"),
           TypeRing
    PROVE  NobodyStranded'
<1>1. \A c : Cardinality(Woken(c)) \in Nat /\ Cardinality(Woken(c))' \in Nat
  <2> SUFFICES ASSUME NEW c
               PROVE  Cardinality(Woken(c)) \in Nat /\ Cardinality(Woken(c))' \in Nat
    OBVIOUS
  <2>1. Woken(c) \subseteq Threads /\ Woken(c)' \subseteq Threads
    BY DEF Woken
  <2>2. IsFiniteSet(Woken(c)) /\ IsFiniteSet(Woken(c)')
    BY <2>1, FS_Subset, RtMailboxAssumption
  <2> HIDE DEF Woken
  <2> QED BY <2>2, FS_CardinalityType
<1>2. entry \in Nat /\ Size \in Nat /\ entry <= Size
  BY RtMailboxAssumption DEF TypeRing
<1> HIDE DEF Woken
<1>3. NoMailStranded'
  BY <1>1, <1>2 DEF NobodyStranded, NoMailStranded
<1>4. NoRoomStranded'
  BY <1>1, <1>2 DEF NobodyStranded, NoRoomStranded
<1> QED BY <1>3, <1>4 DEF NobodyStranded

LEMMA StrandCalls ==
    ASSUME TypeRing, TypeCalls, ListInv, NobodyStranded, handlers = {}, Calls, UNCHANGED handlers
    PROVE  NobodyStranded'
<1>1. \A t \in Threads : call[t] = "none" => stat[t] = "ready"
  BY DEF ListInv, SleepOK, TypeCalls
<1>0. entry \in Nat /\ Size \in Nat \ {0}
  BY RtMailboxAssumption DEF TypeRing
\* A refused call of a thread that no wake-up is on its way to, or a failed one.
<1>2. ASSUME NEW t \in Threads, NEW r, Return(t, r), UNCHANGED <<entry, lists, stat>>,
             entry > 0 => t \notin Woken("recv"), entry < Size => t \notin Woken("send")
      PROVE  NobodyStranded'
  <2>1. entry > 0 => Woken("recv")' = Woken("recv")
    BY <1>2 DEF Woken, Return, TypeCalls
  <2>2. entry < Size => Woken("send")' = Woken("send")
    BY <1>2 DEF Woken, Return, TypeCalls
  <2> QED BY <1>2, <2>1, <2>2, SameStrand DEF lists
<1>3. ASSUME NEW t \in Threads, stat[t] = "ready", call[t] \in {"none", "send"},
             call[t] = "send" => error[t] = "EOK", NEW v, NEW tmo, send_loop(t, v, tmo)
      PROVE  NobodyStranded'
  <2>1. CASE send_stores(t, v)
    BY <1>3, <2>1, StoreStrand DEF send_stores
  <2>2. CASE send_full(t, tmo)
    <3>1. t \notin Woken("recv")
      BY <1>3 DEF Woken
    <3> QED BY <1>0, <1>2, <2>2, <3>1 DEF send_full, ring
  <2>3. CASE send_waits(t, v, tmo)
    <3>1. entry = Size /\ UNCHANGED <<entry, suspend_thread>>
      BY <2>3 DEF send_waits, ring
    <3>2. Woken("recv")' = Woken("recv")
      BY <1>3, <2>3 DEF send_waits, Sleep, Woken, TypeCalls
    <3> QED BY <1>0, <3>1, <3>2, SameStrand
  <2> QED BY <1>3, <2>1, <2>2, <2>3 DEF send_loop
<1>4. ASSUME NEW t \in Threads, stat[t] = "ready", call[t] \in {"none", "recv"},
             NEW tmo, recv_loop(t, tmo)
      PROVE  NobodyStranded'
  <2>1. CASE recv_takes(t)
    BY <1>4, <2>1, TakeStrand DEF recv_takes
  <2>2. CASE recv_empty(t, tmo)
    <3>1. t \notin Woken("send")
      BY <1>4 DEF Woken
    <3> QED BY <1>0, <1>2, <2>2, <3>1 DEF recv_empty, ring
  <2>3. CASE recv_waits(t, tmo)
    <3>1. entry = 0 /\ UNCHANGED <<entry, suspend_sender_thread>>
      BY <2>3 DEF recv_waits, ring
    <3>2. Woken("send")' = Woken("send")
      BY <1>4, <2>3 DEF recv_waits, Sleep, Woken, TypeCalls
    <3> QED BY <1>0, <3>1, <3>2, SameStrand
  <2> QED BY <1>4, <2>1, <2>2, <2>3 DEF recv_loop
<1>5. ASSUME NEW t \in Threads, fails(t) PROVE NobodyStranded'
  BY <1>2, <1>5 DEF fails, Woken, ring
<1>6. ASSUME NEW t \in Threads, NEW v, rt_mb_urgent(t, v) PROVE NobodyStranded'
  <2>1. stat[t] = "ready" /\ call[t] = "none"
    BY <1>1, <1>6 DEF rt_mb_urgent
  <2>2. CASE send_full(t, "no")
    <3>1. t \notin Woken("recv") /\ t \notin Woken("send")
      BY <2>1 DEF Woken
    <3> QED BY <1>2, <2>2, <3>1 DEF send_full, ring
  <2> QED BY <1>6, <2>1, <2>2, StoreStrand DEF rt_mb_urgent
<1>7. ASSUME NEW t \in Threads, rt_thread_timeout(t) PROVE NobodyStranded'
  <2>1. Woken("recv")' = Woken("recv") /\ Woken("send")' = Woken("send") /\ UNCHANGED entry
    BY <1>7 DEF rt_thread_timeout, Wake, Woken, TypeCalls, ring
  <2>2. suspend_thread' # <<>> => suspend_thread # <<>>
    <3>1. ToSet(suspend_thread') \subseteq ToSet(suspend_thread) /\ IsList(suspend_thread', Threads)
      BY <1>7, RemoveList DEF rt_thread_timeout, Wake, ListInv
    <3>2. CASE suspend_thread = <<>>
      <4>1. ToSet(suspend_thread') = {}
        BY <3>1, <3>2, EmptyList
      <4> QED BY <3>1, <4>1, EmptySeq DEF IsList, ToSet
    <3> QED BY <3>2
  <2>3. suspend_sender_thread' # <<>> => suspend_sender_thread # <<>>
    <3>1. /\ ToSet(suspend_sender_thread') \subseteq ToSet(suspend_sender_thread)
          /\ IsList(suspend_sender_thread', Threads)
      BY <1>7, RemoveList DEF rt_thread_timeout, Wake, ListInv
    <3>2. CASE suspend_sender_thread = <<>>
      <4>1. ToSet(suspend_sender_thread') = {}
        BY <3>1, <3>2, EmptyList
      <4> QED BY <3>1, <4>1, EmptySeq DEF IsList, ToSet
    <3> QED BY <3>2
  <2> QED BY <2>1, <2>2, <2>3, SameStrand
<1>8. ASSUME NEW t \in Threads, rt_mb_control(t) PROVE NobodyStranded'
  BY <1>8 DEF rt_mb_control, NobodyStranded, NoMailStranded, NoRoomStranded
<1>9. ASSUME NEW t \in Threads, Resumed(t) PROVE NobodyStranded'
  BY <1>3, <1>4, <1>5, <1>9 DEF Resumed, send_resumed, recv_resumed
<1>10. ASSUME NEW t \in Threads PROVE ~signal(t)
  BY DEF signal
<1> QED BY <1>1, <1>3, <1>4, <1>6, <1>7, <1>8, <1>9, <1>10
        DEF Calls, rt_mb_send_wait, rt_mb_recv

LEMMA StrandStep ==
    TypeRing /\ TypeCalls /\ ListInv /\ NobodyStranded /\ [Next]_vars => NobodyStranded'
<1> SUFFICES ASSUME TypeRing, TypeCalls, ListInv, NobodyStranded, [Next]_vars PROVE NobodyStranded'
  OBVIOUS
<1>1. CASE handlers' # {}
  BY <1>1 DEF NobodyStranded, NoMailStranded, NoRoomStranded
<1>2. CASE handlers' = {}
  <2>1. handlers = {} /\ UNCHANGED handlers
    BY <1>2 DEF Next, rt_signal_install, vars
  <2>2. CASE UNCHANGED box
    BY <2>1, <2>2 DEF box, ring, lists, NobodyStranded, NoMailStranded, NoRoomStranded, Woken
  <2> QED BY <2>1, <2>2, StrandCalls DEF Next, vars, rt_signal_install
<1> QED BY <1>1, <1>2

\* One resume per mail in rt_mb_send_wait and rt_mb_urgent and one per mail taken in
\* rt_mb_recv are enough: while a receiver sleeps every mail has a receiver on its
\* way to it, and while a sender sleeps every free slot has a sender, until some
\* thread installs a signal handler.
THEOREM NobodyStrandedHolds == Spec => []NobodyStranded
<1>1. Init => NobodyStranded
  BY DEF Init, NobodyStranded, NoMailStranded, NoRoomStranded
<1>2. RingInv /\ ListInv /\ NobodyStranded /\ [Next]_vars => NobodyStranded'
  BY StrandStep DEF RingInv
<1> QED BY <1>1, <1>2, BothInvariants, PTL DEF Spec

=============================================================================
