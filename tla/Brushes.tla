------------------------------ MODULE Brushes ------------------------------
(***************************************************************************)
(* Task5 brushes_speed (applications/tasks.c) with what it talks to: its   *)
(* activation timer and event, the mailbox mb2_5 that Task2 sends its      *)
(* "Come back home" mails to, and the pin driver                           *)
(* (libraries/HAL_Drivers/drv_gpio.c), whose read operation is             *)
(* mock_pin_read: two static counters that decide which reads return 1,    *)
(* whatever the pin.                                                       *)
(*                                                                         *)
(* A higher task may run between any two steps of Task5; the only one that *)
(* touches this state is Task2, when it sends a mail.  TSystem, which is   *)
(* less urgent than Task5, closes it at the power-off while it waits.      *)
(***************************************************************************)
EXTENDS Integers

CONSTANTS
    STOP_BRUSHES, LOW, MEDIUM, HIGH,   \* system.h
    MailCap,                           \* mails mb2_5 holds (32 in the code)
    Uninitialized                      \* values brushes_power[1] may start with

ASSUME BrushesAssumption ==
    /\ STOP_BRUSHES = 0 /\ LOW = 1 /\ MEDIUM = 2 /\ HIGH = 3
    /\ MailCap \in Nat \ {0}
    /\ Uninitialized \subseteq Int

VARIABLES
    stat, pc,           \* of Task5; a closed one neither runs nor gets events
    activation,         \* EVENT_BRUSHES_SPEED_ACTIVATION is set
    mb2_5,              \* number of mails in mb2_5
    brushes_speed_v, brushes_power,   \* the two arrays, indexed from 0
    start, offset,      \* the static counters of mock_pin_read
    written,            \* the value last passed to rt_pin_write, -1 before that
    level               \* output level of the power pin

task == <<stat, pc, activation>>
arrays == <<brushes_speed_v, brushes_power>>
counters == <<start, offset>>
pin == <<written, level>>
BrushesVars == <<task, mb2_5, arrays, counters, pin>>

-----------------------------------------------------------------------------
(* The pin driver *)

\* Mutant: the offset is not brought back below 50.
Next_offset_unbounded(o) == o + 7

\* offset += 7; if (offset > 50) offset = offset % 10
Next_offset(o) == IF o + 7 > 50 THEN (o + 7) % 10 ELSE o + 7

\* One call of mock_pin_read on the counters c: what it returns, and the counters.
mock_pin_read(c) ==
    IF (c.start + 1) % 70 = c.offset
    THEN [value |-> 1, start |-> 0, offset |-> Next_offset(c.offset)]
    ELSE [value |-> 0, start |-> c.start + 1, offset |-> c.offset]

\* rt_pin_write on the power pin; HAL_GPIO_WritePin sets the pin for any value but 0.
rt_pin_write(v) == written' = v /\ level' = IF v # 0 THEN 1 ELSE 0

-----------------------------------------------------------------------------
(* Environment *)

\* The timer's rt_event_send.
timeout_brushes_speed ==
    /\ stat # "closed"
    /\ IF stat = "suspend"
       THEN stat' = "ready" /\ UNCHANGED activation
       ELSE activation' = TRUE /\ UNCHANGED stat
    /\ UNCHANGED <<pc, mb2_5, arrays, counters, pin>>

\* Task2's rt_mb_send; a full mailbox refuses the mail and Task2 ignores that.
Task2_mails ==
    /\ stat # "closed"
    /\ mb2_5' = IF mb2_5 < MailCap THEN mb2_5 + 1 ELSE mb2_5
    /\ UNCHANGED <<task, arrays, counters, pin>>

\* TSystem's closeAllTasks: the timer is stopped, Task2 and Task5 are detached, whatever
\* is in the mailbox and on the pins.  TSystem cannot be preempted in it, so it is one
\* step for Task5, also if it halts before Task5's turn (see Shutdown).
closeAllTasks ==
    /\ stat = "suspend" /\ stat' = "closed"
    /\ UNCHANGED <<pc, activation, mb2_5, arrays, counters, pin>>

-----------------------------------------------------------------------------
(* Task5, brushes_speed_entry *)

Goto(from, to) == stat = "ready" /\ pc = from /\ pc' = to

T5_recv ==
    /\ Goto("recv", "mail")
    /\ activation' = FALSE
    /\ stat' = IF activation THEN "ready" ELSE "suspend"
    /\ UNCHANGED <<mb2_5, arrays, counters, pin>>

\* Mutant: the mail is taken and the pin is left alone.
T5_mail_ignored ==
    /\ Goto("mail", "pins")
    /\ mb2_5' = IF mb2_5 > 0 THEN mb2_5 - 1 ELSE mb2_5
    /\ UNCHANGED <<stat, activation, arrays, counters, pin>>

\* rt_mb_recv without waiting; every mail is "Come back home".
T5_mail ==
    /\ Goto("mail", "pins")
    /\ IF mb2_5 > 0
       THEN /\ mb2_5' = mb2_5 - 1
            /\ rt_pin_write(STOP_BRUSHES)
            /\ brushes_power' = [i \in 0 .. 1 |-> 1]
       ELSE UNCHANGED <<mb2_5, pin, brushes_power>>
    /\ UNCHANGED <<stat, activation, brushes_speed_v, counters>>

\* The four reads.  The second one's value is overwritten by the fourth, which
\* belongs to brushes_power[1].
T5_pins ==
    LET r1 == mock_pin_read([start |-> start, offset |-> offset])
        r2 == mock_pin_read(r1)
        r3 == mock_pin_read(r2)
        r4 == mock_pin_read(r3)
    IN  /\ Goto("pins", "regulate")
        /\ brushes_speed_v' = [i \in 0 .. 1 |-> IF i = 0 THEN r1.value ELSE r4.value]
        /\ brushes_power' = [brushes_power EXCEPT ![0] = r3.value]
        /\ start' = r4.start /\ offset' = r4.offset
        /\ UNCHANGED <<stat, activation, mb2_5, pin>>

Power(a, b) == brushes_power[0] = a /\ brushes_power[1] = b
Sensor(a, b) == brushes_speed_v[0] = a /\ brushes_speed_v[1] = b

SetPower(a, b, v) ==
    /\ brushes_power' = [i \in 0 .. 1 |-> IF i = 0 THEN a ELSE b]
    /\ rt_pin_write(v)

\* The chains of if and else if.
Faster ==
    /\ Sensor(1, 0)
    /\ \/ Power(1, 0) /\ SetPower(0, 0, MEDIUM)
       \/ Power(0, 0) /\ SetPower(0, 1, HIGH)

Slower ==
    /\ Sensor(0, 1)
    /\ \/ Power(0, 1) /\ SetPower(0, 0, MEDIUM)
       \/ Power(0, 0) /\ SetPower(1, 0, LOW)

Unregulated ==
    \/ Sensor(1, 0) /\ ~Power(1, 0) /\ ~Power(0, 0)
    \/ Sensor(0, 1) /\ ~Power(0, 1) /\ ~Power(0, 0)
    \/ ~Sensor(1, 0) /\ ~Sensor(0, 1)

T5_regulate ==
    /\ Goto("regulate", "spin")
    /\ \/ Faster
       \/ Slower
       \/ Unregulated /\ UNCHANGED <<brushes_power, pin>>
    /\ UNCHANGED <<stat, activation, mb2_5, brushes_speed_v, counters>>

\* The rest of the job's duration, then the loop starts again.
T5_spin ==
    /\ Goto("spin", "recv")
    /\ UNCHANGED <<stat, activation, mb2_5, arrays, counters, pin>>

brushes_speed == T5_recv \/ T5_mail \/ T5_pins \/ T5_regulate \/ T5_spin

-----------------------------------------------------------------------------

\* The locals of the entry function are not initialized.  brushes_power[1] is the
\* only one that is ever read before it is written.
BrushesInit ==
    /\ stat = "ready" /\ pc = "recv" /\ activation = FALSE
    /\ mb2_5 = 0
    /\ brushes_speed_v = [i \in 0 .. 1 |-> 0]
    /\ \E u \in Uninitialized : brushes_power = [i \in 0 .. 1 |-> u]
    /\ start = 0 /\ offset = 0
    /\ written = -1 /\ level = 0

BrushesNext == timeout_brushes_speed \/ Task2_mails \/ brushes_speed \/ closeAllTasks

\* The periodic timer keeps firing until the power-off stops it, and a ready Task5 gets
\* the CPU again and again (Timing).  Nothing is assumed of Task2 and TSystem.
BrushesSpec ==
    /\ BrushesInit /\ [][BrushesNext]_BrushesVars
    /\ WF_BrushesVars(brushes_speed) /\ WF_BrushesVars(timeout_brushes_speed)

-----------------------------------------------------------------------------
(* Properties *)

Bits == 0 .. 1

\* Type invariant.
BrushesTypeOK ==
    /\ stat \in {"ready", "suspend", "closed"} /\ pc \in {"recv", "mail", "pins", "regulate", "spin"}
    /\ activation \in BOOLEAN
    /\ mb2_5 \in 0 .. MailCap
    /\ brushes_speed_v \in [0 .. 1 -> Bits]
    /\ brushes_power \in [0 .. 1 -> Bits \cup Uninitialized]
    /\ start \in Nat /\ offset \in Nat
    /\ written \in {-1, STOP_BRUSHES, LOW, MEDIUM, HIGH} /\ level \in Bits

\* The mock sensor never falls silent and its counter stays small: a 1 comes at
\* least every 70 reads, because offset never leaves the reach of start % 70.
SensorKeepsPulsing == start < 70

\* A mail from Task2 stops the brushes at some time, however many jobs and mails come in
\* between, unless the power-off overtakes it and Task5 ends with the mail unread.
MailStopsBrushes ==
    mb2_5 > 0 ~> (written = STOP_BRUSHES /\ level = 0) \/ (stat = "closed" /\ mb2_5 > 0)

=============================================================================
