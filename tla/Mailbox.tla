------------------------------ MODULE Mailbox ------------------------------
(***************************************************************************)
(* What a mailbox promises its callers: a queue of at most Size mails.  A  *)
(* call that returns RT_EOK has put its mail at the end (at the head, when *)
(* it is urgent) or has taken the mail at the head; a call that fails has  *)
(* done nothing, and a sender is told "full" only when the box is full.    *)
(* RtMailbox, the ring buffer of rt-thread/src/ipc.c, implements this.     *)
(***************************************************************************)
EXTENDS Naturals, Sequences

CONSTANTS Threads, Values, Size

VARIABLES
    mails,   \* the mails in the box, the next one to be received first
    result   \* the last call that returned: its thread, and the mail or return code

vars == <<mails, result>>

Init ==
    /\ mails = <<>>
    /\ result = <<>>

Send(t, v) ==
    /\ Len(mails) < Size
    /\ mails' = Append(mails, v)
    /\ result' = <<t, "EOK">>

Urgent(t, v) ==
    /\ Len(mails) < Size
    /\ mails' = <<v>> \o mails
    /\ result' = <<t, "EOK">>

Recv(t) ==
    /\ mails # <<>>
    /\ mails' = Tail(mails)
    /\ result' = <<t, Head(mails)>>

\* A waiting call may be ended by its timer, by a signal or by a reset.
Fail(t, error) ==
    /\ error = "EFULL" => Len(mails) = Size
    /\ result' = <<t, error>>
    /\ UNCHANGED mails

Reset == mails' = <<>> /\ UNCHANGED result

Next ==
    \/ \E t \in Threads, v \in Values : Send(t, v) \/ Urgent(t, v)
    \/ \E t \in Threads : Recv(t)
    \/ \E t \in Threads, error \in {"EFULL", "ETIMEOUT", "EINTR", "ERROR"} : Fail(t, error)
    \/ Reset

Spec == Init /\ [][Next]_vars

=============================================================================
