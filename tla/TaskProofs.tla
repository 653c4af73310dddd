----------------------------- MODULE TaskProofs -----------------------------
(***************************************************************************)
(* Proofs about the jobs of the tasks.                                     *)
(*                                                                         *)
(* Brushes, for every mailbox size and every content of the stack slot     *)
(* brushes_power[1] starts with.                                           *)
(*                                                                         *)
(* Timing, for every garbage level FULL and every start tick: the periods, *)
(* the durations and the priorities are the code's own.  The invariant is  *)
(* a schedulability argument: how much work is left at any distance from   *)
(* the timers, for the tasks above Task5, for Task5, and for all of them   *)
(* together with the alarms that Task3 may still raise.                    *)
(***************************************************************************)
EXTENDS Brushes, Timing, FiniteSetTheorems, TLAPS

-----------------------------------------------------------------------------
(* Brushes *)

\* The counters of mock_pin_read: start is on its way to offset, except in the
\* first round, where it goes to 70.
CountersOK(c) ==
    /\ c.start \in Nat /\ c.offset \in 0 .. 50
    /\ IF c.offset = 0 THEN c.start < 70 ELSE c.start < c.offset

PulseInv == CountersOK([start |-> start, offset |-> offset])

\* One read keeps the counters in range and returns a bit.
LEMMA ReadOK ==
    ASSUME NEW c, CountersOK(c)
    PROVE  CountersOK(mock_pin_read(c)) /\ mock_pin_read(c).value \in Bits
<1>1. Next_offset(c.offset) \in 1 .. 50
  BY DEF CountersOK, Next_offset
<1>2. CASE (c.start + 1) % 70 = c.offset
  BY <1>1, <1>2 DEF CountersOK, mock_pin_read, Bits
<1>3. CASE (c.start + 1) % 70 # c.offset
  <2>1. c.start + 1 \in Nat /\ (c.offset = 0 => c.start + 1 < 70)
        /\ (c.offset # 0 => c.start + 1 < c.offset)
    BY <1>3 DEF CountersOK
  <2> QED BY <1>3, <2>1 DEF CountersOK, mock_pin_read, Bits
<1> QED BY <1>2, <1>3

\* The four reads of one job.
LEMMA FourReads ==
    ASSUME PulseInv, T5_pins
    PROVE  /\ PulseInv'
           /\ brushes_speed_v' \in [0 .. 1 -> Bits]
           /\ \E b \in Bits : brushes_power' = [brushes_power EXCEPT ![0] = b]
<1> DEFINE r0 == [start |-> start, offset |-> offset]
           r1 == mock_pin_read(r0)
           r2 == mock_pin_read(r1)
           r3 == mock_pin_read(r2)
           r4 == mock_pin_read(r3)
<1>1. /\ brushes_speed_v' = [i \in 0 .. 1 |-> IF i = 0 THEN r1.value ELSE r4.value]
      /\ brushes_power' = [brushes_power EXCEPT ![0] = r3.value]
      /\ start' = r4.start /\ offset' = r4.offset
  BY DEF T5_pins
<1>2. CountersOK(r0)
  BY DEF PulseInv
<1> HIDE DEF r0, r1, r2, r3, r4
<1>3. CountersOK(r1) /\ r1.value \in Bits
  BY <1>2, ReadOK DEF r1
<1>4. CountersOK(r2)
  BY <1>3, ReadOK DEF r2
<1>5. CountersOK(r3) /\ r3.value \in Bits
  BY <1>4, ReadOK DEF r3
<1>6. CountersOK(r4) /\ r4.value \in Bits
  BY <1>5, ReadOK DEF r4
<1>7. PulseInv'
  BY <1>1, <1>6 DEF PulseInv, CountersOK
<1> QED BY <1>1, <1>3, <1>5, <1>6, <1>7

TypeTask ==
    /\ stat \in {"ready", "suspend", "closed"} /\ pc \in {"recv", "mail", "pins", "regulate", "spin"}
    /\ activation \in BOOLEAN
TypeData ==
    /\ mb2_5 \in 0 .. MailCap
    /\ brushes_speed_v \in [0 .. 1 -> Bits]
    /\ brushes_power \in [0 .. 1 -> Bits \cup Uninitialized]
    /\ written \in {-1, STOP_BRUSHES, LOW, MEDIUM, HIGH} /\ level \in Bits

BrushesInv == TypeTask /\ TypeData /\ PulseInv

LEMMA BrushesStarts == BrushesInit => BrushesInv
<1> SUFFICES ASSUME BrushesInit PROVE BrushesInv
  OBVIOUS
<1> USE BrushesAssumption DEF BrushesAssumption, BrushesInit
<1>1. TypeTask
  BY DEF TypeTask
<1>2. TypeData
  BY DEF TypeData, Bits
<1>3. PulseInv
  BY DEF PulseInv, CountersOK
<1> QED BY <1>1, <1>2, <1>3 DEF BrushesInv

LEMMA BrushesStep == BrushesInv /\ [BrushesNext]_BrushesVars => BrushesInv'
<1> SUFFICES ASSUME BrushesInv, [BrushesNext]_BrushesVars PROVE BrushesInv'
  OBVIOUS
<1> USE BrushesAssumption DEF BrushesAssumption, BrushesInv, task, arrays, counters, pin, Goto
<1>1. CASE timeout_brushes_speed
  <2> USE <1>1 DEF timeout_brushes_speed
  <2>1. TypeTask'
    BY DEF TypeTask
  <2>2. TypeData' /\ PulseInv'
    BY DEF TypeData, PulseInv
  <2> QED BY <2>1, <2>2
<1>2. CASE Task2_mails
  <2> USE <1>2 DEF Task2_mails
  <2>1. TypeTask' /\ PulseInv'
    BY DEF TypeTask, PulseInv
  <2>2. TypeData'
    BY DEF TypeData
  <2> QED BY <2>1, <2>2
<1>3. CASE T5_recv
  <2> USE <1>3 DEF T5_recv
  <2>1. TypeTask'
    BY DEF TypeTask
  <2>2. TypeData' /\ PulseInv'
    BY DEF TypeData, PulseInv
  <2> QED BY <2>1, <2>2
<1>4. CASE T5_mail
  <2> USE <1>4 DEF T5_mail
  <2>1. TypeTask' /\ PulseInv'
    BY DEF TypeTask, PulseInv
  <2>2. TypeData'
    BY DEF TypeData, rt_pin_write, Bits
  <2> QED BY <2>1, <2>2
<1>5. CASE T5_pins
  <2>1. PulseInv' /\ brushes_speed_v' \in [0 .. 1 -> Bits]
    BY <1>5, FourReads
  <2>2. PICK b \in Bits : brushes_power' = [brushes_power EXCEPT ![0] = b]
    BY <1>5, FourReads
  <2>3. TypeTask' /\ UNCHANGED <<mb2_5, written, level>>
    BY <1>5 DEF T5_pins, TypeTask
  <2>4. TypeData'
    BY <2>1, <2>2, <2>3 DEF TypeData
  <2> QED BY <2>1, <2>3, <2>4
<1>6. CASE T5_regulate
  <2> USE <1>6 DEF T5_regulate
  <2>1. TypeTask' /\ PulseInv'
    BY DEF TypeTask, PulseInv
  <2>2. TypeData'
    <3> USE DEF TypeData, rt_pin_write, Bits, SetPower
    <3>1. CASE Faster
      BY <3>1 DEF Faster
    <3>2. CASE Slower
      BY <3>2 DEF Slower
    <3>3. CASE UNCHANGED <<brushes_power, pin>>
      BY <3>3
    <3> QED BY <3>1, <3>2, <3>3
  <2> QED BY <2>1, <2>2
<1>7. CASE T5_spin \/ UNCHANGED BrushesVars
  <2>1. TypeTask'
    BY <1>7 DEF T5_spin, BrushesVars, TypeTask
  <2>2. TypeData' /\ PulseInv'
    BY <1>7 DEF T5_spin, BrushesVars, TypeData, PulseInv
  <2> QED BY <2>1, <2>2
<1>8. CASE closeAllTasks
  <2> USE <1>8 DEF closeAllTasks
  <2>1. TypeTask'
    BY DEF TypeTask
  <2>2. TypeData' /\ PulseInv'
    BY DEF TypeData, PulseInv
  <2> QED BY <2>1, <2>2
<1> QED BY <1>1, <1>2, <1>3, <1>4, <1>5, <1>6, <1>7, <1>8 DEF BrushesNext, brushes_speed

LEMMA BrushesInvariance == BrushesSpec => []BrushesInv
BY BrushesStarts, BrushesStep, PTL DEF BrushesSpec

\* The variables keep their types.
THEOREM BrushesTypeCorrect == BrushesSpec => []BrushesTypeOK
<1>1. BrushesInv => BrushesTypeOK
  <2> SUFFICES ASSUME BrushesInv PROVE BrushesTypeOK
    OBVIOUS
  <2>1. TypeTask /\ TypeData /\ start \in Nat /\ offset \in Nat
    BY DEF BrushesInv, PulseInv, CountersOK
  <2> QED BY <2>1 DEF BrushesTypeOK, TypeTask, TypeData
<1> QED BY <1>1, BrushesInvariance, PTL

\* mock_pin_read returns a 1 at least every 70 reads.
THEOREM SensorPulses == BrushesSpec => []SensorKeepsPulsing
<1>1. BrushesInv => SensorKeepsPulsing
  BY DEF BrushesInv, PulseInv, CountersOK, SensorKeepsPulsing
<1> QED BY <1>1, BrushesInvariance, PTL

-----------------------------------------------------------------------------
(* Timing: the inductive invariant *)

\* Ticks since the timers of Task1 and Task2, of Task3 and of Task5 fired last.
Since1 == 50 - due["Task1"]
Since3 == 25 - due["Task3"]
Since5 == 25 - due["Task5"]

\* The timers of Task1 and Task2 fire together with every second one of Task3.
Phases ==
    /\ due \in [Periodic -> Nat]
    /\ due["Task1"] >= 1 /\ due["Task1"] <= 50 /\ due["Task2"] = due["Task1"]
    /\ due["Task3"] >= 1 /\ due["Task3"] <= 25 /\ due["Task5"] <= 25
    /\ due["Task1"] = due["Task3"] \/ due["Task1"] = due["Task3"] + 25

\* The next timer of Task3 brings Task1 and Task2 along.
AllNext == due["Task1"] = due["Task3"]

Counted ==
    /\ jobs \subseteq Tasks /\ tick_count \in [Tasks -> Nat]
    /\ \A t \in Tasks : tick_count[t] <= Duration[t] /\ (t \notin jobs => tick_count[t] = 0)

Aged ==
    /\ age \in [Periodic -> Nat]
    /\ \A t \in Periodic : age[t] = IF t \in jobs THEN Period[t] - due[t] ELSE 0

FlagsKept ==
    /\ flag \subseteq closed \cup {"Task4"} /\ closed \subseteq {"Task2"}
    /\ "Task2" \in closed => "Task2" \notin jobs
    /\ "Task4" \in flag => "Task4" \in jobs

Work12 == tick_count["Task1"] + tick_count["Task2"]
Work123 == Work12 + tick_count["Task3"]
Work1235 == Work123 + tick_count["Task5"]

\* What the tasks above Task5 have left to do, from the timers that started it: the
\* three jobs of the full activation take 17 ticks, the one of Task3 alone takes 6.
HigherDone ==
    /\ "Task1" \in jobs => tick_count["Task1"] + Since1 = 5
    /\ "Task2" \in jobs => Work12 + Since1 <= 11
    /\ "Task1" \in jobs \/ "Task2" \in jobs \/ "Task3" \in jobs =>
          Work123 + Since3 <= IF AllNext THEN 6 ELSE 17

\* The work that the next timer of Task3 puts before Task5, if Task5 does not end first.
Preempting == IF Work1235 < due["Task3"] THEN 0 ELSE IF AllNext THEN 17 ELSE 6

\* Task5 ends 24 ticks after its activation at the latest, wherever its timer falls
\* between the others; after 9 when the timer was started on time.
FifthDone ==
    "Task5" \in jobs => /\ Since5 + Work1235 + Preempting <= 24
                        /\ OnTime => Since5 + Work1235 <= 9

\* The ticks that the jobs will use before TSystem gets the CPU, alarms included.
Demand ==
    Work1235 + tick_count["Task4"] + (IF "Task3" \in undone THEN 2 ELSE 0)
             + (IF "Task4" \in flag THEN 2 ELSE 0)

\* Task5 is activated before Task3 is.
FifthBefore == IF due["Task5"] < due["Task3"] THEN 7 ELSE 0

\* After the second activation of Task3 without TSystem the CPU is free before the
\* third; after the first one it is clear that this will be so: a full activation with
\* its alarm takes 19 ticks, one of Task3 alone 8, one of Task5 7.
CPUFree ==
    /\ crowd \in {0, 1, 2}
    /\ crowd = 0 => jobs \subseteq {"Task5"}
    /\ crowd = 1 =>
          Demand + FifthBefore + 7 + (IF AllNext THEN 19 ELSE 8) < due["Task3"] + 25
    /\ crowd = 2 => Demand + FifthBefore < due["Task3"]

\* main starts the timer of Task5 at most 20 ticks after the others, before any of them
\* fires.
Started ==
    /\ low \in {"main", "TSystem"} /\ slice \in 1 .. Slice[low]
    /\ ~Starting => low = "TSystem"
    /\ Starting => /\ jobs = {} /\ crowd = 0 /\ due["Task1"] >= 30
                   /\ low = "TSystem" => due["Task1"] >= 30 + slice

\* Task3 looks at the bag after Task2 has filled it and before Task2 fills it again.
FullKept ==
    /\ undone \subseteq jobs \cap Workers
    /\ "Task2" \in undone => "Task3" \in undone
    /\ garbage \in 0 .. GarbageMax /\ seen \in BOOLEAN
    /\ garbage = FULL /\ ~seen => "Task3" \in undone /\ "Task2" \notin undone
    /\ garbage > FULL => seen

TimingInv ==
    /\ tick \in 0 .. 89
    /\ Phases /\ Counted /\ Aged /\ FlagsKept /\ HigherDone /\ FifthDone /\ CPUFree
    /\ Started /\ FullKept

-----------------------------------------------------------------------------
(* Timing: one tick *)

LEMMA Tables ==
    /\ Periodic = {"Task1", "Task2", "Task3", "Task5"}
    /\ Tasks = {"Task1", "Task2", "Task3", "Task5", "Task4"}
    /\ Duration["Task1"] = 5 /\ Duration["Task2"] = 6 /\ Duration["Task3"] = 6
    /\ Duration["Task5"] = 7 /\ Duration["Task4"] = 2
    /\ Period["Task1"] = 50 /\ Period["Task2"] = 50 /\ Period["Task3"] = 25
    /\ Period["Task5"] = 25
    /\ Priority["Task1"] = 2 /\ Priority["Task2"] = 3 /\ Priority["Task3"] = 4
    /\ Priority["Task5"] = 5 /\ Priority["Task4"] = 6
    /\ Slice["main"] = 20 /\ Slice["TSystem"] = 5
BY DEF Periodic, Tasks, Duration, Period, Priority, Slice

\* The most urgent job has the CPU.
LEMMA CurrentIs ==
    ASSUME jobs \subseteq Tasks
    PROVE  /\ jobs = {} => Current = low
           /\ jobs # {} => Current \in jobs
           /\ \A t \in jobs : (\A u \in jobs : Priority[t] <= Priority[u]) => Current = t
<1>1. CASE jobs = {}
  BY <1>1 DEF Current
<1>2. CASE jobs # {}
  <2>1. \E t \in jobs : \A u \in jobs : Priority[t] <= Priority[u]
    <3>1. \A u \in jobs : u \in {"Task1", "Task2", "Task3", "Task5", "Task4"}
      BY Tables
    <3>2. CASE "Task1" \in jobs
      BY <3>1, <3>2, Tables
    <3>3. CASE "Task1" \notin jobs /\ "Task2" \in jobs
      BY <3>1, <3>3, Tables
    <3>4. CASE "Task1" \notin jobs /\ "Task2" \notin jobs /\ "Task3" \in jobs
      BY <3>1, <3>4, Tables
    <3>5. CASE /\ "Task1" \notin jobs /\ "Task2" \notin jobs /\ "Task3" \notin jobs
               /\ "Task5" \in jobs
      BY <3>1, <3>5, Tables
    <3>6. CASE /\ "Task1" \notin jobs /\ "Task2" \notin jobs /\ "Task3" \notin jobs
               /\ "Task5" \notin jobs
      <4>1. "Task4" \in jobs /\ \A u \in jobs : u = "Task4"
        BY <1>2, <3>1, <3>6
      <4> QED BY <4>1, Tables
    <3> QED BY <3>2, <3>3, <3>4, <3>5, <3>6
  <2>2. Current = CHOOSE t \in jobs : \A u \in jobs : Priority[t] <= Priority[u]
    BY <1>2 DEF Current
  <2>3. Current \in jobs /\ \A u \in jobs : Priority[Current] <= Priority[u]
    BY <2>1, <2>2
  <2>4. \A t, u \in jobs : Priority[t] <= Priority[u] /\ Priority[u] <= Priority[t] => t = u
    BY Tables
  <2> QED BY <1>2, <2>3, <2>4
<1> QED BY <1>1, <1>2

LEMMA CurrentTask ==
    ASSUME jobs \subseteq Tasks
    PROVE  /\ "Task1" \in jobs => Current = "Task1"
           /\ "Task1" \notin jobs /\ "Task2" \in jobs => Current = "Task2"
           /\ "Task1" \notin jobs /\ "Task2" \notin jobs /\ "Task3" \in jobs => Current = "Task3"
           /\ "Task1" \notin jobs /\ "Task2" \notin jobs /\ "Task3" \notin jobs
                 /\ "Task5" \in jobs => Current = "Task5"
           /\ jobs = {"Task4"} => Current = "Task4"
BY CurrentIs, Tables

\* Every tick takes one from what the jobs of each priority and above have left.
LEMMA CountsDown ==
    ASSUME Counted, low \in {"main", "TSystem"}, Spins
    PROVE  /\ Counts \in [Tasks -> Nat]
           /\ \A t \in Tasks : Counts[t] <= tick_count[t] /\ (t \notin jobs => Counts[t] = 0)
           /\ "Task1" \in jobs => Counts["Task1"] = tick_count["Task1"] - 1
           /\ "Task1" \in jobs \/ "Task2" \in jobs =>
                 Counts["Task1"] + Counts["Task2"] = Work12 - 1
           /\ "Task1" \in jobs \/ "Task2" \in jobs \/ "Task3" \in jobs =>
                 Counts["Task1"] + Counts["Task2"] + Counts["Task3"] = Work123 - 1
           /\ "Task1" \in jobs \/ "Task2" \in jobs \/ "Task3" \in jobs \/ "Task5" \in jobs =>
                 Counts["Task1"] + Counts["Task2"] + Counts["Task3"] + Counts["Task5"]
                    = Work1235 - 1
           /\ jobs # {} =>
                 Counts["Task1"] + Counts["Task2"] + Counts["Task3"] + Counts["Task5"]
                    + Counts["Task4"] = Work1235 + tick_count["Task4"] - 1
<1>1. /\ tick_count["Task1"] \in Nat /\ tick_count["Task2"] \in Nat /\ tick_count["Task3"] \in Nat
      /\ tick_count["Task5"] \in Nat /\ tick_count["Task4"] \in Nat
      /\ \A t \in Tasks : t \notin jobs => tick_count[t] = 0
  BY Tables DEF Counted
<1>2. \A t \in Tasks : Counts[t] = IF t = Current /\ tick_count[t] > 0 THEN tick_count[t] - 1
                                   ELSE tick_count[t]
  BY DEF Counts
<1>3. Counts \in [Tasks -> Nat]
  BY DEF Counts, Counted
<1>4. \A t \in Tasks : Counts[t] <= tick_count[t] /\ (t \notin jobs => Counts[t] = 0)
  BY <1>1, <1>2, Tables
<1>5. CASE jobs = {}
  BY <1>3, <1>4, <1>5
<1>6. CASE jobs # {}
  <2>1. Current \in jobs /\ Current \in Tasks /\ tick_count[Current] > 0
    BY <1>6, CurrentIs DEF Counted, Spins
  <2>2. \A t \in Tasks : Counts[t] = IF t = Current THEN tick_count[t] - 1 ELSE tick_count[t]
    BY <1>2, <2>1
  <2>3. CASE Current = "Task1"
    BY <1>1, <1>3, <1>4, <2>1, <2>2, <2>3, Tables DEF Work12, Work123, Work1235
  <2>4. CASE Current = "Task2"
    BY <1>1, <1>3, <1>4, <2>1, <2>2, <2>4, Tables, CurrentTask DEF Work12, Work123, Work1235, Counted
  <2>5. CASE Current = "Task3"
    BY <1>1, <1>3, <1>4, <2>1, <2>2, <2>5, Tables, CurrentTask DEF Work12, Work123, Work1235, Counted
  <2>6. CASE Current = "Task5"
    <3>1. "Task1" \notin jobs /\ "Task2" \notin jobs /\ "Task3" \notin jobs
      BY <2>6, CurrentTask DEF Counted
    <3> QED BY <1>1, <1>3, <1>4, <2>1, <2>2, <2>6, <3>1, Tables DEF Work12, Work123, Work1235
  <2>7. CASE Current = "Task4"
    <3>1. /\ "Task1" \notin jobs /\ "Task2" \notin jobs /\ "Task3" \notin jobs
          /\ "Task5" \notin jobs
      BY <2>7, CurrentTask DEF Counted
    <3> QED BY <1>1, <1>3, <1>4, <2>1, <2>2, <2>7, <3>1, Tables DEF Work12, Work123, Work1235
  <2> QED BY <2>1, <2>3, <2>4, <2>5, <2>6, <2>7, Tables
<1> QED BY <1>5, <1>6

\* A timer fires only when the job it started before is over.
LEMMA NoOverrun ==
    ASSUME TimingInv, Spins
    PROVE  \A t \in Periodic : Fires(t) => t \notin jobs
<1>1. /\ tick_count["Task1"] \in Nat /\ tick_count["Task2"] \in Nat /\ tick_count["Task3"] \in Nat
      /\ tick_count["Task5"] \in Nat /\ due["Task3"] \in Nat /\ due["Task1"] \in Nat
      /\ due["Task5"] \in Nat
  BY Tables DEF TimingInv, Counted, Phases
<1>2. due["Task1"] = 1 => "Task1" \notin jobs
  BY <1>1 DEF TimingInv, HigherDone, Since1
<1>3. due["Task2"] = 1 => "Task2" \notin jobs
  BY <1>1 DEF TimingInv, HigherDone, Since1, Phases, Work12
<1>4. due["Task3"] = 1 => "Task3" \notin jobs
  BY <1>1 DEF TimingInv, HigherDone, Since3, Work12, Work123
<1>5. due["Task5"] = 1 => "Task5" \notin jobs
  <2> SUFFICES ASSUME due["Task5"] = 1, "Task5" \in jobs PROVE FALSE
    OBVIOUS
  <2>1. Work1235 \in Nat /\ Preempting \in Nat
    BY <1>1 DEF Work12, Work123, Work1235, Preempting
  <2>2. Work1235 = 0
    BY <1>1, <2>1 DEF TimingInv, FifthDone, Since5
  <2>3. Counts["Task1"] + Counts["Task2"] + Counts["Task3"] + Counts["Task5"] = Work1235 - 1
    BY CountsDown DEF TimingInv, Started
  <2>4. /\ Counts["Task1"] \in Nat /\ Counts["Task2"] \in Nat /\ Counts["Task3"] \in Nat
        /\ Counts["Task5"] \in Nat
    BY CountsDown, Tables DEF TimingInv, Started
  <2> QED BY <2>2, <2>3, <2>4
<1> QED BY <1>2, <1>3, <1>4, <1>5, Tables DEF Fires

\* What a tick does to the timers and to who has a job.
LEMMA TickTimers ==
    ASSUME TimingInv, rt_tick_increase
    PROVE  /\ Spins /\ Slices /\ UNCHANGED <<closed, garbage, seen>>
           /\ tick' \in 0 .. 89 /\ due' \in [Periodic -> Nat] /\ jobs' \subseteq Tasks
           /\ due'["Task1"] = IF due["Task1"] = 1 THEN 50 ELSE due["Task1"] - 1
           /\ due'["Task2"] = due'["Task1"]
           /\ due'["Task3"] = IF due["Task3"] = 1 THEN 25 ELSE due["Task3"] - 1
           /\ due'["Task5"] = IF due["Task5"] = 1 THEN 25
                              ELSE IF due["Task5"] = 0 THEN 0 ELSE due["Task5"] - 1
           /\ "Task1" \in jobs' <=> "Task1" \in jobs \/ due["Task1"] = 1
           /\ "Task2" \in jobs' <=> "Task2" \in jobs \/ (due["Task1"] = 1 /\ "Task2" \notin closed)
           /\ "Task3" \in jobs' <=> "Task3" \in jobs \/ due["Task3"] = 1
           /\ "Task5" \in jobs' <=> "Task5" \in jobs \/ due["Task5"] = 1
           /\ "Task4" \in jobs' <=> "Task4" \in jobs
<1> DEFINE fired == {t \in Periodic : Fires(t)}
           fresh == fired \ (jobs \cup closed)
<1>1. /\ Spins /\ Slices /\ UNCHANGED <<closed, garbage, seen>>
      /\ tick' = (tick + 1) % 90
      /\ due' = [t \in Periodic |-> IF Fires(t) THEN Period[t]
                                    ELSE IF due[t] = 0 THEN 0 ELSE due[t] - 1]
      /\ jobs' = jobs \cup fresh
  BY DEF rt_tick_increase
<1>2. tick' \in 0 .. 89
  BY <1>1 DEF TimingInv
<1>3. /\ due["Task1"] \in Nat /\ due["Task2"] = due["Task1"] /\ due["Task3"] \in Nat
      /\ due["Task5"] \in Nat /\ due["Task1"] >= 1 /\ due["Task3"] >= 1
      /\ \A t \in Periodic : due[t] \in Nat
  BY Tables DEF TimingInv, Phases
<1>4. due' \in [Periodic -> Nat]
  BY <1>1, <1>3, Tables DEF Fires
<1>5. /\ due'["Task1"] = IF due["Task1"] = 1 THEN 50 ELSE due["Task1"] - 1
      /\ due'["Task2"] = due'["Task1"]
      /\ due'["Task3"] = IF due["Task3"] = 1 THEN 25 ELSE due["Task3"] - 1
      /\ due'["Task5"] = IF due["Task5"] = 1 THEN 25
                         ELSE IF due["Task5"] = 0 THEN 0 ELSE due["Task5"] - 1
  BY <1>1, <1>3, Tables DEF Fires
<1>6. closed \subseteq {"Task2"} /\ jobs \subseteq Tasks
  BY DEF TimingInv, FlagsKept, Counted
<1>7. \A t \in Periodic : t \in fresh <=> due[t] = 1 /\ t \notin jobs /\ t \notin closed
  BY DEF Fires
<1>8. fresh \subseteq Periodic
  OBVIOUS
<1> HIDE DEF fresh
<1>9. "Task2" \in closed => "Task2" \notin jobs
  BY DEF TimingInv, FlagsKept
<1> QED BY <1>1, <1>2, <1>3, <1>4, <1>5, <1>6, <1>7, <1>8, <1>9, Tables

\* What a tick does to the jobs.
LEMMA TickJobs ==
    ASSUME TimingInv, rt_tick_increase
    PROVE  /\ tick_count' \in [Tasks -> Nat]
           /\ tick_count'["Task1"] = IF due["Task1"] = 1 THEN 5 ELSE Counts["Task1"]
           /\ tick_count'["Task2"] = IF due["Task1"] = 1 /\ "Task2" \notin closed THEN 6
                                     ELSE Counts["Task2"]
           /\ tick_count'["Task3"] = IF due["Task3"] = 1 THEN 6 ELSE Counts["Task3"]
           /\ tick_count'["Task5"] = IF due["Task5"] = 1 THEN 7 ELSE Counts["Task5"]
           /\ tick_count'["Task4"] = Counts["Task4"]
           /\ undone' \subseteq Workers
           /\ "Task2" \in undone' <=>
                 "Task2" \in undone \/ (due["Task1"] = 1 /\ "Task2" \notin closed)
           /\ "Task3" \in undone' <=> "Task3" \in undone \/ due["Task3"] = 1
           /\ flag' \subseteq flag \cup closed /\ ("Task4" \in flag' <=> "Task4" \in flag)
           /\ age' = [t \in Periodic |-> IF t \in jobs THEN age[t] + 1 ELSE 0]
           /\ crowd' = IF Current = "TSystem" THEN (IF due["Task3"] = 1 THEN 1 ELSE 0)
                       ELSE IF due["Task3"] = 1 /\ crowd < 3 THEN crowd + 1 ELSE crowd
<1> DEFINE fired == {t \in Periodic : Fires(t)}
           fresh == fired \ (jobs \cup closed)
<1>1. /\ tick_count' = [t \in Tasks |-> IF t \in fresh THEN Duration[t] ELSE Counts[t]]
      /\ undone' = undone \cup (fresh \cap Workers)
      /\ flag' = flag \cup (fired \ fresh)
      /\ age' = [t \in Periodic |-> IF t \in jobs THEN age[t] + 1 ELSE 0]
      /\ crowd' = IF Current = "TSystem" THEN Cardinality(fired \cap {"Task3"})
                  ELSE IF "Task3" \in fired /\ crowd < CrowdMax THEN crowd + 1 ELSE crowd
      /\ Spins
  BY DEF rt_tick_increase
<1>2. \A t \in Periodic : t \in fired => t \notin jobs
  BY <1>1, NoOverrun
<1>3. /\ closed \subseteq {"Task2"} /\ jobs \subseteq Tasks /\ undone \subseteq Workers
      /\ due["Task2"] = due["Task1"]
  BY DEF TimingInv, FlagsKept, Counted, FullKept, Phases
<1>4. /\ "Task1" \in fresh <=> due["Task1"] = 1
      /\ "Task2" \in fresh <=> due["Task1"] = 1 /\ "Task2" \notin closed
      /\ "Task3" \in fresh <=> due["Task3"] = 1
      /\ "Task5" \in fresh <=> due["Task5"] = 1
      /\ "Task4" \notin fresh /\ "Task4" \notin fired
      /\ "Task3" \in fired <=> due["Task3"] = 1
      /\ fired \ fresh \subseteq closed
  BY <1>2, <1>3, Tables DEF Fires
<1>5. crowd' = IF Current = "TSystem" THEN (IF due["Task3"] = 1 THEN 1 ELSE 0)
               ELSE IF due["Task3"] = 1 /\ crowd < 3 THEN crowd + 1 ELSE crowd
  <2>1. CASE due["Task3"] = 1
    <3>1. fired \cap {"Task3"} = {"Task3"}
      BY <1>4, <2>1
    <3>2. Cardinality(fired \cap {"Task3"}) = 1
      BY <3>1, FS_Singleton
    <3> HIDE DEF fired
    <3> QED BY <1>1, <1>4, <2>1, <3>2 DEF CrowdMax
  <2>2. CASE due["Task3"] # 1
    <3>1. fired \cap {"Task3"} = {}
      BY <1>4, <2>2
    <3>2. Cardinality(fired \cap {"Task3"}) = 0
      BY <3>1, FS_EmptySet
    <3> HIDE DEF fired
    <3> QED BY <1>1, <1>4, <2>2, <3>2
  <2> QED BY <2>1, <2>2
<1> HIDE DEF fired, fresh
<1>6. Counts \in [Tasks -> Nat]
  BY <1>1, CountsDown DEF TimingInv, Started
<1>7. tick_count' \in [Tasks -> Nat]
  BY <1>1, <1>6, Tables
<1>8. Workers = {"Task2", "Task3"}
  BY DEF Workers
<1> QED BY <1>1, <1>3, <1>4, <1>5, <1>6, <1>7, <1>8, Tables

LEMMA OnTimeNumbers ==
    \A a \in 1 .. 25, b \in 1 .. 50 :
        (a - b) % 25 = 15 <=> a - b = 15 \/ a - b = -10 \/ a - b = -35
OBVIOUS

\* The numbers that the arguments below are about.
LEMMA Numbers ==
    ASSUME TimingInv
    PROVE  /\ tick_count["Task1"] \in Nat /\ tick_count["Task2"] \in Nat
           /\ tick_count["Task3"] \in Nat /\ tick_count["Task5"] \in Nat
           /\ tick_count["Task4"] \in Nat
           /\ tick_count["Task1"] <= 5 /\ tick_count["Task2"] <= 6 /\ tick_count["Task3"] <= 6
           /\ tick_count["Task5"] <= 7 /\ tick_count["Task4"] <= 2
           /\ due["Task1"] \in Nat /\ due["Task3"] \in Nat /\ due["Task5"] \in Nat
           /\ due["Task1"] >= 1 /\ due["Task1"] <= 50 /\ due["Task2"] = due["Task1"]
           /\ due["Task3"] >= 1 /\ due["Task3"] <= 25 /\ due["Task5"] <= 25
           /\ due["Task1"] = due["Task3"] \/ due["Task1"] = due["Task3"] + 25
           /\ Work12 = tick_count["Task1"] + tick_count["Task2"]
           /\ Work123 = tick_count["Task1"] + tick_count["Task2"] + tick_count["Task3"]
           /\ Work1235 = tick_count["Task1"] + tick_count["Task2"] + tick_count["Task3"]
                            + tick_count["Task5"]
BY Tables DEF TimingInv, Counted, Phases, Work12, Work123, Work1235

\* CountsDown in a state of the invariant.
LEMMA TickCounts ==
    ASSUME TimingInv, rt_tick_increase
    PROVE  /\ Counts["Task1"] \in Nat /\ Counts["Task2"] \in Nat /\ Counts["Task3"] \in Nat
           /\ Counts["Task5"] \in Nat /\ Counts["Task4"] \in Nat
           /\ \A t \in Tasks : Counts[t] <= tick_count[t] /\ (t \notin jobs => Counts[t] = 0)
           /\ "Task1" \in jobs => Counts["Task1"] = tick_count["Task1"] - 1
           /\ "Task1" \in jobs \/ "Task2" \in jobs =>
                 Counts["Task1"] + Counts["Task2"] = Work12 - 1
           /\ "Task1" \in jobs \/ "Task2" \in jobs \/ "Task3" \in jobs =>
                 Counts["Task1"] + Counts["Task2"] + Counts["Task3"] = Work123 - 1
           /\ "Task1" \in jobs \/ "Task2" \in jobs \/ "Task3" \in jobs \/ "Task5" \in jobs =>
                 Counts["Task1"] + Counts["Task2"] + Counts["Task3"] + Counts["Task5"]
                    = Work1235 - 1
           /\ jobs # {} =>
                 Counts["Task1"] + Counts["Task2"] + Counts["Task3"] + Counts["Task5"]
                    + Counts["Task4"] = Work1235 + tick_count["Task4"] - 1
           /\ due["Task1"] = 1 => "Task1" \notin jobs /\ "Task2" \notin jobs
           /\ due["Task3"] = 1 => "Task3" \notin jobs
           /\ due["Task5"] = 1 => "Task5" \notin jobs
<1>1. Spins
  BY TickTimers
<1>2. Counted /\ low \in {"main", "TSystem"} /\ due["Task2"] = due["Task1"]
  BY DEF TimingInv, Started, Phases
<1>3. Counts \in [Tasks -> Nat]
  BY <1>1, <1>2, CountsDown
<1>4. /\ due["Task1"] = 1 => "Task1" \notin jobs /\ "Task2" \notin jobs
      /\ due["Task3"] = 1 => "Task3" \notin jobs
      /\ due["Task5"] = 1 => "Task5" \notin jobs
  BY <1>1, <1>2, NoOverrun, Tables DEF Fires
<1> QED BY <1>1, <1>2, <1>3, <1>4, CountsDown, Tables

LEMMA TickPhases ==
    ASSUME TimingInv, rt_tick_increase
    PROVE  Phases' /\ Counted' /\ Aged' /\ FlagsKept'
<1>1. Phases'
  <2>1. /\ due'["Task1"] >= 1 /\ due'["Task1"] <= 50
        /\ due'["Task3"] >= 1 /\ due'["Task3"] <= 25 /\ due'["Task5"] <= 25
    BY TickTimers, Numbers
  <2>2. due'["Task1"] = due'["Task3"] \/ due'["Task1"] = due'["Task3"] + 25
    BY TickTimers, Numbers
  <2> QED BY <2>1, <2>2, TickTimers DEF Phases
<1>2. Counted'
  <2>1. jobs' \subseteq Tasks /\ tick_count' \in [Tasks -> Nat]
    BY TickTimers, TickJobs
  <2>2. \A t \in Tasks : tick_count'[t] <= Duration[t] /\ (t \notin jobs' => tick_count'[t] = 0)
    BY TickTimers, TickJobs, TickCounts, Numbers, Tables
  <2> QED BY <2>1, <2>2 DEF Counted
<1>3. Aged'
  <2>1. \A t \in Periodic : age'[t] = IF t \in jobs THEN age[t] + 1 ELSE 0
    BY TickJobs
  <2>2. \A t \in Periodic : age[t] \in Nat /\ age[t] = IF t \in jobs THEN Period[t] - due[t] ELSE 0
    BY DEF TimingInv, Aged
  <2>3. age' \in [Periodic -> Nat]
    BY <2>2, TickJobs
  <2>4. age'["Task1"] = IF "Task1" \in jobs' THEN 50 - due'["Task1"] ELSE 0
    BY <2>1, <2>2, TickTimers, TickCounts, Numbers, Tables
  <2>5. age'["Task2"] = IF "Task2" \in jobs' THEN 50 - due'["Task2"] ELSE 0
    BY <2>1, <2>2, TickTimers, TickCounts, Numbers, Tables
  <2>6. age'["Task3"] = IF "Task3" \in jobs' THEN 25 - due'["Task3"] ELSE 0
    BY <2>1, <2>2, TickTimers, TickCounts, Numbers, Tables
  <2>7. "Task5" \in jobs => due["Task5"] # 0
    BY DEF TimingInv, Started, Starting
  <2>8. age'["Task5"] = IF "Task5" \in jobs' THEN 25 - due'["Task5"] ELSE 0
    BY <2>1, <2>2, <2>7, TickTimers, TickCounts, Numbers, Tables
  <2> QED BY <2>3, <2>4, <2>5, <2>6, <2>8, Tables DEF Aged
<1>4. FlagsKept'
  BY TickTimers, TickJobs, TickCounts DEF TimingInv, FlagsKept
<1> QED BY <1>1, <1>2, <1>3, <1>4

\* What is left to do after a tick, in terms of what was left before.
LEMMA TickWork ==
    ASSUME TimingInv, rt_tick_increase
    PROVE  /\ Work12' = tick_count'["Task1"] + tick_count'["Task2"]
           /\ Work123' = tick_count'["Task1"] + tick_count'["Task2"] + tick_count'["Task3"]
           /\ Work1235' = tick_count'["Task1"] + tick_count'["Task2"] + tick_count'["Task3"]
                            + tick_count'["Task5"]
           /\ tick_count'["Task1"] \in Nat /\ tick_count'["Task2"] \in Nat
           /\ tick_count'["Task3"] \in Nat /\ tick_count'["Task5"] \in Nat
           /\ tick_count'["Task4"] \in Nat
BY TickJobs, Tables DEF Work12, Work123, Work1235

LEMMA TickHigher ==
    ASSUME TimingInv, rt_tick_increase
    PROVE  HigherDone'
<1>1. /\ "Task1" \in jobs => tick_count["Task1"] + (50 - due["Task1"]) = 5
      /\ "Task2" \in jobs => Work12 + (50 - due["Task1"]) <= 11
      /\ "Task1" \in jobs \/ "Task2" \in jobs \/ "Task3" \in jobs =>
          Work123 + (25 - due["Task3"]) <= IF due["Task1"] = due["Task3"] THEN 6 ELSE 17
  BY DEF TimingInv, HigherDone, Since1, Since3, AllNext
<1>2. "Task1" \in jobs' => tick_count'["Task1"] + (50 - due'["Task1"]) = 5
  BY <1>1, TickTimers, TickJobs, TickCounts, Numbers
<1>3. "Task2" \in jobs' => Work12' + (50 - due'["Task1"]) <= 11
  <2>1. CASE due["Task1"] = 1
    BY <2>1, TickTimers, TickJobs, TickWork, TickCounts, Tables
  <2>2. CASE due["Task1"] # 1
    BY <1>1, <2>2, TickTimers, TickJobs, TickWork, TickCounts, Numbers
  <2> QED BY <2>1, <2>2
<1>4. "Task1" \in jobs' \/ "Task2" \in jobs' \/ "Task3" \in jobs' =>
          Work123' + (25 - due'["Task3"]) <= IF due'["Task1"] = due'["Task3"] THEN 6 ELSE 17
  <2>1. CASE due["Task1"] = 1
    <3>1. due["Task3"] = 1 /\ due'["Task1"] = 50 /\ due'["Task3"] = 25
      BY <2>1, TickTimers, Numbers
    <3>2. tick_count'["Task1"] = 5 /\ tick_count'["Task2"] <= 6 /\ tick_count'["Task3"] = 6
      BY <2>1, <3>1, TickJobs, TickCounts, Tables
    <3> QED BY <3>1, <3>2, TickWork
  <2>2. CASE due["Task1"] # 1 /\ due["Task3"] = 1
    <3>1. "Task1" \notin jobs /\ "Task2" \notin jobs /\ due["Task1"] = 26
      BY <1>1, <2>2, Numbers
    <3> QED BY <2>2, <3>1, TickTimers, TickJobs, TickWork, TickCounts, Numbers, Tables
  <2>3. CASE due["Task3"] # 1
    <3>1. /\ due["Task1"] # 1 /\ due'["Task1"] = due["Task1"] - 1
          /\ due'["Task3"] = due["Task3"] - 1
      BY <2>3, TickTimers, Numbers
    <3>2. Work123' = Counts["Task1"] + Counts["Task2"] + Counts["Task3"]
      BY <2>3, <3>1, TickJobs, TickWork
    <3>3. /\ "Task1" \in jobs' <=> "Task1" \in jobs
          /\ "Task2" \in jobs' <=> "Task2" \in jobs
          /\ "Task3" \in jobs' <=> "Task3" \in jobs
      BY <2>3, <3>1, TickTimers
    <3> QED BY <1>1, <3>1, <3>2, <3>3, TickCounts, Numbers
  <2> QED BY <2>1, <2>2, <2>3
<1> QED BY <1>2, <1>3, <1>4 DEF HigherDone, Since1, Since3, AllNext

\* Whoever of the tasks above Task5 has a job, what they have left fits into the ticks
\* before the next timer of Task3.
LEMMA HigherBound ==
    ASSUME TimingInv
    PROVE  /\ Work123 \in Nat
           /\ Work123 > 0 => Work123 + (25 - due["Task3"])
                                <= IF due["Task1"] = due["Task3"] THEN 6 ELSE 17
<1>1. "Task1" \in jobs \/ "Task2" \in jobs \/ "Task3" \in jobs =>
          Work123 + (25 - due["Task3"]) <= IF due["Task1"] = due["Task3"] THEN 6 ELSE 17
  BY DEF TimingInv, HigherDone, Since3, AllNext
<1>2. ~("Task1" \in jobs \/ "Task2" \in jobs \/ "Task3" \in jobs) => Work123 = 0
  BY Numbers, Tables DEF TimingInv, Counted
<1> QED BY <1>1, <1>2, Numbers

LEMMA HigherBoundNext ==
    ASSUME HigherDone', Counted', Work123' \in Nat,
           Work123' = tick_count'["Task1"] + tick_count'["Task2"] + tick_count'["Task3"]
    PROVE  Work123' > 0 => Work123' + (25 - due'["Task3"])
                              <= IF due'["Task1"] = due'["Task3"] THEN 6 ELSE 17
<1>1. "Task1" \in jobs' \/ "Task2" \in jobs' \/ "Task3" \in jobs' =>
          Work123' + (25 - due'["Task3"]) <= IF due'["Task1"] = due'["Task3"] THEN 6 ELSE 17
  BY DEF HigherDone, Since3, AllNext
<1>2. ~("Task1" \in jobs' \/ "Task2" \in jobs' \/ "Task3" \in jobs') => Work123' = 0
  BY Tables DEF Counted
<1> QED BY <1>1, <1>2

LEMMA TickFifth ==
    ASSUME TimingInv, rt_tick_increase
    PROVE  FifthDone'
<1> SUFFICES ASSUME "Task5" \in jobs'
             PROVE  /\ Since5' + Work1235' + Preempting' <= 24
                    /\ OnTime' => Since5' + Work1235' <= 9
  BY DEF FifthDone
<1>1. /\ Since5' = 25 - due'["Task5"] /\ Since5 = 25 - due["Task5"]
      /\ Preempting' = IF Work1235' < due'["Task3"] THEN 0
                       ELSE IF due'["Task1"] = due'["Task3"] THEN 17 ELSE 6
      /\ Preempting = IF Work1235 < due["Task3"] THEN 0
                      ELSE IF due["Task1"] = due["Task3"] THEN 17 ELSE 6
      /\ OnTime' <=> (due'["Task5"] - due'["Task1"]) % 25 = 15
      /\ OnTime <=> (due["Task5"] - due["Task1"]) % 25 = 15
  BY DEF Since5, Preempting, AllNext, OnTime
<1>2. due["Task5"] # 0
  <2>1. "Task5" \in jobs => due["Task5"] # 0
    BY DEF TimingInv, Started, Starting
  <2> QED BY <2>1, TickTimers
<1>3. /\ due["Task5"] \in 1 .. 25 /\ due'["Task5"] \in 1 .. 25
      /\ due["Task1"] \in 1 .. 50 /\ due'["Task1"] \in 1 .. 50
  BY <1>2, Numbers, TickTimers
<1>4. /\ OnTime <=> \/ due["Task5"] - due["Task1"] = 15 \/ due["Task5"] - due["Task1"] = -10
                    \/ due["Task5"] - due["Task1"] = -35
      /\ OnTime' <=> \/ due'["Task5"] - due'["Task1"] = 15 \/ due'["Task5"] - due'["Task1"] = -10
                     \/ due'["Task5"] - due'["Task1"] = -35
  BY <1>1, <1>3, OnTimeNumbers
<1>5. /\ due["Task1"] = 1 => due["Task3"] = 1
      /\ due'["Task3"] \in 1 .. 25
      /\ due'["Task1"] = due'["Task3"] \/ due'["Task1"] = due'["Task3"] + 25
  <2>1. due["Task1"] = 1 => due["Task3"] = 1
    BY Numbers
  <2>2. due'["Task3"] \in 1 .. 25
    BY TickPhases, Tables DEF Phases
  <2>3. due'["Task1"] = due'["Task3"] \/ due'["Task1"] = due'["Task3"] + 25
    BY TickPhases DEF Phases
  <2> QED BY <2>1, <2>2, <2>3
<1>6. Work1235' = Work123' + tick_count'["Task5"] /\ Work123' \in Nat /\ tick_count'["Task5"] \in Nat
  BY TickWork
\* Task5 has just been activated.
<1>7. CASE due["Task5"] = 1
  <2>1. due'["Task5"] = 25 /\ tick_count'["Task5"] = 7
    BY <1>7, TickTimers, TickJobs
  <2>2. Work123' > 0 => Work123' + (25 - due'["Task3"])
                            <= IF due'["Task1"] = due'["Task3"] THEN 6 ELSE 17
    BY <1>6, TickHigher, TickPhases, TickWork, HigherBoundNext
  <2>3. Since5' = 0 /\ Work1235' = Work123' + 7
    BY <1>1, <1>6, <2>1
  <2>4. CASE Work123' = 0
    BY <1>1, <2>3, <2>4
  <2>5. CASE Work123' > 0
    <3>1. Work1235' < due'["Task3"] /\ Work1235' <= 24
      BY <1>5, <1>6, <2>2, <2>3, <2>5
    <3>2. OnTime' => due'["Task3"] = 10
      BY <1>4, <1>5, <2>1
    <3>3. OnTime' => Work1235' <= 9
      BY <1>6, <2>2, <2>3, <2>5, <3>2
    <3> QED BY <1>1, <1>6, <2>3, <3>1, <3>3
  <2> QED BY <1>6, <2>4, <2>5
<1>8. CASE due["Task5"] # 1
  <2>1. "Task5" \in jobs /\ due'["Task5"] = due["Task5"] - 1 /\ tick_count'["Task5"] = Counts["Task5"]
    BY <1>2, <1>8, TickTimers, TickJobs
  <2>2. /\ Since5 + Work1235 + Preempting <= 24
        /\ OnTime => Since5 + Work1235 <= 9
    BY <2>1 DEF TimingInv, FifthDone
  <2>3. /\ Counts["Task1"] + Counts["Task2"] + Counts["Task3"] + Counts["Task5"] = Work1235 - 1
        /\ Work1235 \in Nat /\ Work1235 >= 1
    BY <2>1, TickCounts, Numbers
  <2>4. CASE due["Task3"] # 1
    <3>1. due["Task1"] # 1
      BY <1>5, <2>4
    <3>2. Work1235' = Work1235 - 1
      BY <2>1, <2>3, <2>4, <3>1, TickJobs, TickWork
    <3>3. due'["Task3"] = due["Task3"] - 1 /\ due'["Task1"] = due["Task1"] - 1
      BY <2>4, <3>1, TickTimers
    <3> QED BY <1>1, <1>3, <1>4, <2>1, <2>2, <2>3, <3>2, <3>3, Numbers
  <2>5. CASE due["Task3"] = 1
    <3>1. Preempting = IF due["Task1"] = 1 THEN 17 ELSE 6
      BY <1>1, <2>3, <2>5, Numbers
    <3>2. Work1235' <= Work1235 - 1 + Preempting
      <4>1. CASE due["Task1"] = 1
        <5>1. /\ tick_count'["Task1"] = 5 /\ tick_count'["Task2"] <= 6
              /\ tick_count'["Task3"] = 6
          BY <2>5, <4>1, TickJobs, TickCounts, Tables
        <5> QED BY <2>1, <2>3, <3>1, <4>1, <5>1, TickWork, TickCounts
      <4>2. CASE due["Task1"] # 1
        <5>1. /\ tick_count'["Task1"] = Counts["Task1"] /\ tick_count'["Task2"] = Counts["Task2"]
              /\ tick_count'["Task3"] = 6
          BY <2>5, <4>2, TickJobs
        <5> QED BY <2>1, <2>3, <3>1, <4>2, <5>1, TickWork, TickCounts
      <4> QED BY <4>1, <4>2
    <3>3. due'["Task3"] = 25
      BY <2>5, TickTimers
    <3>4. Since5' + Work1235' + Preempting' <= 24
      BY <1>1, <1>3, <1>6, <2>1, <2>2, <2>3, <3>1, <3>2, <3>3
    <3>5. ~OnTime'
      <4>1. OnTime' => OnTime
        BY <1>3, <1>4, <2>1, <2>5, Numbers, TickTimers
      <4>2. ~OnTime
        BY <1>1, <1>3, <1>4, <2>2, <2>3, <2>5, Numbers
      <4> QED BY <4>1, <4>2
    <3> QED BY <3>4, <3>5
  <2> QED BY <2>4, <2>5
<1> QED BY <1>7, <1>8

\* What the timers that fire now add to the demand.
Added ==
    (IF due["Task1"] = 1 THEN 11 ELSE 0) + (IF due["Task3"] = 1 THEN 8 ELSE 0)
        + (IF due["Task5"] = 1 THEN 7 ELSE 0)

LEMMA TickDemand ==
    ASSUME TimingInv, rt_tick_increase
    PROVE  /\ Demand \in Nat /\ Demand' \in Nat
           /\ jobs = {} => Demand' <= Added
           /\ jobs # {} => Demand >= 1 /\ Demand' <= Demand - 1 + Added
<1> DEFINE alarm3 == IF "Task3" \in undone THEN 2 ELSE 0
           alarm4 == IF "Task4" \in flag THEN 2 ELSE 0
           left == Counts["Task1"] + Counts["Task2"] + Counts["Task3"] + Counts["Task5"]
                      + Counts["Task4"]
<1>1. /\ Demand = Work1235 + tick_count["Task4"] + alarm3 + alarm4
      /\ Demand' = Work1235' + tick_count'["Task4"] + alarm3' + alarm4'
  BY DEF Demand
<1>2. "Task3" \in undone => "Task3" \in jobs
  BY DEF TimingInv, FullKept
<1>3. /\ alarm3 \in {0, 2} /\ alarm4 \in {0, 2} /\ alarm3' \in {0, 2} /\ alarm4' = alarm4
      /\ alarm3' = alarm3 + (IF due["Task3"] = 1 THEN 2 ELSE 0)
  BY <1>2, TickJobs, TickCounts
<1>4. jobs = {} => alarm3 = 0 /\ alarm4 = 0
  BY <1>2 DEF TimingInv, FlagsKept
<1> HIDE DEF alarm3, alarm4
<1>5. Work1235' + tick_count'["Task4"] <= left + (Added - (IF due["Task3"] = 1 THEN 2 ELSE 0))
  <2>1. tick_count'["Task1"] <= Counts["Task1"] + (IF due["Task1"] = 1 THEN 5 ELSE 0)
    BY TickJobs, TickCounts
  <2>2. tick_count'["Task2"] <= Counts["Task2"] + (IF due["Task1"] = 1 THEN 6 ELSE 0)
    BY TickJobs, TickCounts
  <2>3. tick_count'["Task3"] <= Counts["Task3"] + (IF due["Task3"] = 1 THEN 6 ELSE 0)
    BY TickJobs, TickCounts
  <2>4. tick_count'["Task5"] <= Counts["Task5"] + (IF due["Task5"] = 1 THEN 7 ELSE 0)
    BY TickJobs, TickCounts
  <2>5. tick_count'["Task4"] = Counts["Task4"]
    BY TickJobs
  <2> QED BY <2>1, <2>2, <2>3, <2>4, <2>5, TickWork, TickCounts DEF Added
<1>6. /\ jobs = {} => left = 0
      /\ jobs # {} => left = Work1235 + tick_count["Task4"] - 1
      /\ left \in Nat
  <2>1. jobs = {} => left = 0
    <3> SUFFICES ASSUME jobs = {} PROVE left = 0
      OBVIOUS
    <3>1. \A t \in Tasks : Counts[t] = 0
      BY TickCounts
    <3>2. /\ Counts["Task1"] = 0 /\ Counts["Task2"] = 0 /\ Counts["Task3"] = 0
          /\ Counts["Task5"] = 0 /\ Counts["Task4"] = 0
      BY <3>1, Tables
    <3> QED BY <3>2
  <2>2. jobs # {} => left = Work1235 + tick_count["Task4"] - 1
    BY TickCounts
  <2>3. left \in Nat
    BY TickCounts
  <2> QED BY <2>1, <2>2, <2>3
<1>7. Work1235 + tick_count["Task4"] \in Nat /\ Work1235' + tick_count'["Task4"] \in Nat
      /\ Added \in Nat
  BY Numbers, TickWork DEF Added
<1> HIDE DEF left
<1>8. Demand \in Nat /\ Demand' \in Nat
  BY <1>1, <1>3, <1>7
<1>9. Demand' <= left + Added + alarm3 + alarm4
  BY <1>1, <1>3, <1>5, <1>6, <1>7
<1>10. jobs = {} => Demand' <= Added
  BY <1>4, <1>6, <1>7, <1>8, <1>9
<1>11. jobs # {} => Demand >= 1 /\ Demand' <= Demand - 1 + Added
  <2> SUFFICES ASSUME jobs # {} PROVE Demand >= 1 /\ Demand' <= Demand - 1 + Added
    OBVIOUS
  <2>1. Work1235 + tick_count["Task4"] = left + 1
    BY <1>6, Numbers
  <2>2. Demand = left + 1 + alarm3 + alarm4 /\ alarm3 \in Nat /\ alarm4 \in Nat
    BY <1>1, <1>3, <2>1
  <2> QED BY <1>6, <1>7, <1>8, <1>9, <2>2
<1> QED BY <1>8, <1>10, <1>11

\* An activation of Task3, the next one of Task5 and the activation of Task3 after it.
LEMMA AddedNext ==
    ASSUME TimingInv, rt_tick_increase, due["Task3"] = 1, due["Task5"] >= 1
    PROVE  Added + FifthBefore' + (IF AllNext' THEN 19 ELSE 8) <= 34 /\ Added \in Nat
           /\ FifthBefore' \in Nat
<1>1. /\ FifthBefore' = IF due'["Task5"] < due'["Task3"] THEN 7 ELSE 0
      /\ AllNext' <=> due'["Task1"] = due'["Task3"]
  BY DEF FifthBefore, AllNext
<1>2. due'["Task3"] = 25
  BY TickTimers
<1>3. FifthBefore' = IF due["Task5"] = 1 THEN 0 ELSE 7
  BY <1>1, <1>2, TickTimers, Numbers
<1>4. CASE due["Task1"] = 1
  <2>1. ~AllNext'
    BY <1>1, <1>2, <1>4, TickTimers
  <2> QED BY <1>3, <1>4, <2>1 DEF Added
<1>5. CASE due["Task1"] # 1
  BY <1>3, <1>5 DEF Added
<1> QED BY <1>4, <1>5

LEMMA TickCPU ==
    ASSUME TimingInv, rt_tick_increase
    PROVE  CPUFree'
<1>1. /\ FifthBefore = IF due["Task5"] < due["Task3"] THEN 7 ELSE 0
      /\ FifthBefore' = IF due'["Task5"] < due'["Task3"] THEN 7 ELSE 0
      /\ AllNext <=> due["Task1"] = due["Task3"]
      /\ AllNext' <=> due'["Task1"] = due'["Task3"]
  BY DEF FifthBefore, AllNext
<1>2. /\ crowd \in {0, 1, 2}
      /\ crowd = 0 => jobs \subseteq {"Task5"}
      /\ crowd = 1 =>
            Demand + FifthBefore + 7 + (IF AllNext THEN 19 ELSE 8) < due["Task3"] + 25
      /\ crowd = 2 => Demand + FifthBefore < due["Task3"]
  BY DEF TimingInv, CPUFree
<1>3. /\ ~Starting => low = "TSystem"
      /\ Starting => jobs = {} /\ crowd = 0 /\ due["Task1"] >= 30
      /\ Starting <=> due["Task5"] = 0
  BY DEF TimingInv, Started, Starting
<1>4. due["Task1"] = 1 => due["Task3"] = 1
  BY Numbers
\* main waits for the time to start Task5.
<1>5. CASE Starting
  <2>1. due["Task3"] # 1 /\ due["Task1"] # 1 /\ due["Task5"] # 1
    BY <1>3, <1>5, Numbers
  <2>2. crowd' = 0
    BY <1>3, <1>5, <2>1, TickJobs
  <2>3. jobs' = {}
    BY <1>3, <1>5, <2>1, TickTimers, Tables
  <2> QED BY <2>2, <2>3 DEF CPUFree
\* TSystem has the CPU.
<1>6. CASE ~Starting /\ jobs = {}
  <2>1. Current = "TSystem" /\ due["Task5"] >= 1
    BY <1>3, <1>6, CurrentIs, Numbers
  <2>2. CASE due["Task3"] # 1
    <3>1. crowd' = 0
      BY <2>1, <2>2, TickJobs
    <3>2. jobs' \subseteq {"Task5"}
      BY <1>4, <1>6, <2>2, TickTimers, Tables
    <3> QED BY <3>1, <3>2 DEF CPUFree
  <2>3. CASE due["Task3"] = 1
    <3>1. crowd' = 1
      BY <2>1, <2>3, TickJobs
    <3>2. due'["Task3"] = 25 /\ Demand' <= Added /\ Demand' \in Nat
      BY <1>6, <2>3, TickTimers, TickDemand
    <3>3. Demand' + FifthBefore' + 7 + (IF AllNext' THEN 19 ELSE 8) < 50
      BY <2>1, <2>3, <3>2, AddedNext
    <3> QED BY <3>1, <3>2, <3>3 DEF CPUFree
  <2> QED BY <2>2, <2>3
\* A job has the CPU.
<1>7. CASE ~Starting /\ jobs # {}
  <2>1. /\ Current # "TSystem" /\ due["Task5"] >= 1
        /\ crowd' = IF due["Task3"] = 1 THEN crowd + 1 ELSE crowd
    <3>1. Current \in Tasks
      BY <1>7, CurrentIs DEF TimingInv, Counted
    <3>2. Current # "TSystem" /\ due["Task5"] >= 1
      BY <1>3, <1>7, <3>1, Numbers, Tables
    <3> QED BY <1>2, <3>2, TickJobs
  <2>2. Demand \in Nat /\ Demand >= 1 /\ Demand' <= Demand - 1 + Added /\ Demand' \in Nat
    BY <1>7, TickDemand
  <2>3. CASE crowd = 0
    <3>1. jobs = {"Task5"}
      BY <1>2, <1>7, <2>3
    <3>2. Demand <= 7
      <4>1. "Task3" \notin undone /\ "Task4" \notin flag
        BY <3>1 DEF TimingInv, FullKept, FlagsKept
      <4>2. /\ tick_count["Task1"] = 0 /\ tick_count["Task2"] = 0 /\ tick_count["Task3"] = 0
            /\ tick_count["Task4"] = 0
        BY <3>1, Tables DEF TimingInv, Counted
      <4> QED BY <4>1, <4>2, Numbers DEF Demand
    <3>3. CASE due["Task3"] # 1
      <4>1. crowd' = 0
        BY <2>1, <2>3, <3>3
      <4>2. jobs' \subseteq {"Task5"}
        BY <1>4, <3>1, <3>3, TickTimers, Tables
      <4> QED BY <4>1, <4>2 DEF CPUFree
    <3>4. CASE due["Task3"] = 1
      <4>1. crowd' = 1 /\ due'["Task3"] = 25
        BY <2>1, <2>3, <3>4, TickTimers
      <4>2. Demand' + FifthBefore' + 7 + (IF AllNext' THEN 19 ELSE 8) < 50
        BY <2>1, <2>2, <3>2, <3>4, AddedNext
      <4> QED BY <4>1, <4>2 DEF CPUFree
    <3> QED BY <3>3, <3>4
  <2>4. CASE crowd = 1 /\ due["Task3"] # 1
    <3>1. crowd' = 1 /\ due["Task1"] # 1
      BY <1>4, <2>1, <2>4
    <3>2. Demand' + FifthBefore' + 7 + (IF AllNext' THEN 19 ELSE 8) < due'["Task3"] + 25
      BY <1>1, <1>2, <2>1, <2>2, <2>4, <3>1, TickTimers, Numbers DEF Added
    <3> QED BY <3>1, <3>2 DEF CPUFree
  <2>5. CASE crowd = 1 /\ due["Task3"] = 1
    <3>1. crowd' = 2
      BY <2>1, <2>5
    <3>2. Demand' + FifthBefore' < due'["Task3"]
      BY <1>1, <1>2, <2>1, <2>2, <2>5, TickTimers, Numbers DEF Added
    <3> QED BY <3>1, <3>2 DEF CPUFree
  <2>6. CASE crowd = 2
    <3>1. due["Task3"] # 1 /\ due["Task1"] # 1
      BY <1>1, <1>2, <1>4, <2>2, <2>6
    <3>2. crowd' = 2
      BY <2>1, <2>6, <3>1
    <3>3. Demand' + FifthBefore' < due'["Task3"]
      BY <1>1, <1>2, <2>1, <2>2, <2>6, <3>1, TickTimers, Numbers DEF Added
    <3> QED BY <3>2, <3>3 DEF CPUFree
  <2> QED BY <1>2, <2>3, <2>4, <2>5, <2>6
<1> QED BY <1>5, <1>6, <1>7

LEMMA TickStarted ==
    ASSUME TimingInv, rt_tick_increase
    PROVE  Started'
<1>1. /\ low \in {"main", "TSystem"} /\ slice \in 1 .. Slice[low]
      /\ ~Starting => low = "TSystem"
      /\ Starting => /\ jobs = {} /\ crowd = 0 /\ due["Task1"] >= 30
                     /\ low = "TSystem" => due["Task1"] >= 30 + slice
  BY DEF TimingInv, Started
<1>2. Starting' <=> Starting
  BY TickTimers, Numbers DEF Starting
<1>3. Slices /\ Spins
  BY TickTimers
<1>4. low' \in {"main", "TSystem"} /\ slice' \in 1 .. Slice[low']
  BY <1>1, <1>3, Tables DEF Slices
<1>5. CASE ~Starting
  BY <1>1, <1>2, <1>3, <1>4, <1>5 DEF Started, Slices
<1>6. CASE Starting
  <2>1. Current = low
    BY <1>1, <1>6, CurrentIs DEF TimingInv, Counted
  <2>2. low = "main" => due["Task1"] > 35
    BY <1>3, <2>1, Numbers DEF Spins
  <2>3. due["Task1"] # 1 /\ due["Task3"] # 1 /\ due["Task5"] = 0
    BY <1>1, <1>6, Numbers DEF Starting
  <2>4. jobs' = {} /\ crowd' = 0
    BY <1>1, <1>6, <2>3, TickTimers, TickJobs, Tables
  <2>5. due'["Task1"] = due["Task1"] - 1
    BY <2>3, TickTimers
  <2>6. due'["Task1"] >= 30 /\ (low' = "TSystem" => due'["Task1"] >= 30 + slice')
    BY <1>1, <1>3, <1>6, <2>1, <2>2, <2>5, Numbers, Tables DEF Slices
  <2> QED BY <1>2, <1>4, <1>6, <2>4, <2>6 DEF Started
<1> QED BY <1>5, <1>6

LEMMA TickFull ==
    ASSUME TimingInv, rt_tick_increase
    PROVE  FullKept'
<1>1. /\ undone \subseteq jobs \cap Workers
      /\ "Task2" \in undone => "Task3" \in undone
      /\ garbage \in 0 .. GarbageMax /\ seen \in BOOLEAN
      /\ garbage = FULL /\ ~seen => "Task3" \in undone /\ "Task2" \notin undone
      /\ garbage > FULL => seen
  BY DEF TimingInv, FullKept
<1>2. undone' \subseteq jobs' \cap Workers
  BY <1>1, TickTimers, TickJobs DEF Workers
<1>3. due["Task1"] = 1 => due["Task3"] = 1 /\ "Task3" \notin undone
  BY <1>1, Numbers, TickCounts
<1> QED BY <1>1, <1>2, <1>3, TickTimers, TickJobs DEF FullKept

LEMMA TickKeeps ==
    ASSUME TimingInv, rt_tick_increase
    PROVE  TimingInv'
BY TickTimers, TickPhases, TickHigher, TickFifth, TickCPU, TickStarted, TickFull DEF TimingInv

-----------------------------------------------------------------------------
(* Timing: the steps that take no time *)

LEMMA MainKeeps ==
    ASSUME TimingInv, main_starts_Task5
    PROVE  TimingInv'
<1>1. /\ Current = "main" /\ low' = "TSystem" /\ slice' = 5
      /\ due' = [due EXCEPT !["Task5"] = 25]
      /\ UNCHANGED <<tick, jobs, flag, tick_count, undone, age, closed, garbage, seen, crowd>>
  BY Tables DEF main_starts_Task5
<1>2. /\ jobs = {} /\ low = "main"
  <2>1. "main" \notin Tasks
    BY Tables
  <2> QED BY <1>1, <2>1, CurrentIs DEF TimingInv, Counted
<1>3. crowd = 0
  BY <1>2 DEF TimingInv, Started
<1>4. /\ due' \in [Periodic -> Nat] /\ due'["Task1"] = due["Task1"]
      /\ due'["Task2"] = due["Task2"] /\ due'["Task3"] = due["Task3"] /\ due'["Task5"] = 25
  BY <1>1, Tables DEF TimingInv, Phases
<1>5. Phases'
  BY <1>4 DEF TimingInv, Phases
<1>6. Counted' /\ FlagsKept' /\ FullKept'
  BY <1>1 DEF TimingInv, Counted, FlagsKept, FullKept
<1>7. Aged'
  BY <1>1, <1>2 DEF TimingInv, Aged
<1>8. HigherDone' /\ FifthDone' /\ CPUFree'
  BY <1>1, <1>2, <1>3 DEF HigherDone, FifthDone, CPUFree
<1>9. Started'
  BY <1>1, <1>4, Tables DEF Started, Starting
<1> QED BY <1>1, <1>5, <1>6, <1>7, <1>8, <1>9 DEF TimingInv

\* The work of every task stays as it is.
LEMMA CleanKeeps ==
    ASSUME TimingInv, T2_cleans
    PROVE  TimingInv'
<1>1. /\ Current = "Task2" /\ "Task2" \in undone /\ undone' = undone \ {"Task2"}
      /\ garbage' \in {garbage, garbage + 1} /\ garbage' <= GarbageMax
      /\ UNCHANGED <<tick, due, jobs, flag, tick_count, age, closed, low, slice, seen, crowd>>
  BY DEF T2_cleans
<1>2. Phases' /\ Counted' /\ Aged' /\ FlagsKept' /\ Started'
  BY <1>1 DEF TimingInv, Phases, Counted, Aged, FlagsKept, Started, Starting
<1>3. HigherDone' /\ FifthDone'
  BY <1>1 DEF TimingInv, HigherDone, FifthDone, Since1, Since3, Since5, Work12, Work123, Work1235,
              Preempting, AllNext, OnTime
<1>4. Demand' = Demand
  BY <1>1 DEF Demand, Work12, Work123, Work1235
<1>5. CPUFree'
  BY <1>1, <1>4 DEF TimingInv, CPUFree, FifthBefore, AllNext
<1>6. FullKept'
  <2>1. FULL \in Nat /\ GarbageMax = FULL + 1 /\ garbage \in Nat
    BY TimingAssumption DEF GarbageMax, TimingInv, FullKept
  <2>2. garbage' \in 0 .. GarbageMax
    BY <1>1, <2>1
  <2>3. garbage = FULL => seen
    BY <1>1 DEF TimingInv, FullKept
  <2> QED BY <1>1, <2>1, <2>2, <2>3 DEF TimingInv, FullKept
<1> QED BY <1>1, <1>2, <1>3, <1>5, <1>6 DEF TimingInv

\* Task2 gives back the time it had left.
LEMMA StuckKeeps ==
    ASSUME TimingInv, T2_stuck
    PROVE  TimingInv'
<1>1. /\ Current = "Task2" /\ "Task2" \in undone /\ undone' = undone \ {"Task2"}
      /\ jobs' = jobs \ {"Task2"} /\ closed' = closed \cup {"Task2"}
      /\ tick_count' = [tick_count EXCEPT !["Task2"] = 0]
      /\ age' = [age EXCEPT !["Task2"] = 0]
      /\ UNCHANGED <<tick, due, flag, low, slice, garbage, seen, crowd>>
  BY DEF T2_stuck
<1>2. /\ tick_count' \in [Tasks -> Nat] /\ tick_count'["Task2"] = 0
      /\ tick_count'["Task1"] = tick_count["Task1"] /\ tick_count'["Task3"] = tick_count["Task3"]
      /\ tick_count'["Task5"] = tick_count["Task5"] /\ tick_count'["Task4"] = tick_count["Task4"]
  BY <1>1, Tables DEF TimingInv, Counted
<1>3. "Task2" \in jobs
  BY <1>1 DEF TimingInv, FullKept
<1>4. Phases'
  BY <1>1 DEF TimingInv, Phases
<1>5. Counted'
  BY <1>1, <1>2, Tables DEF TimingInv, Counted
<1>6. Aged'
  BY <1>1, Tables DEF TimingInv, Aged
<1>7. FlagsKept'
  BY <1>1 DEF TimingInv, FlagsKept
<1>8. /\ Work12' = Work12 - tick_count["Task2"] /\ Work123' = Work123 - tick_count["Task2"]
      /\ Work1235' = Work1235 - tick_count["Task2"]
  BY <1>2, Numbers DEF Work12, Work123, Work1235
<1>9. HigherDone'
  BY <1>1, <1>2, <1>8, Numbers DEF TimingInv, HigherDone, Since1, Since3, AllNext
<1>10. FifthDone'
  BY <1>1, <1>8, Numbers DEF TimingInv, FifthDone, Since5, Preempting, AllNext, OnTime
<1>11. Demand' = Demand - tick_count["Task2"] /\ Demand \in Nat
  BY <1>1, <1>2, <1>8, Numbers DEF Demand
<1>12. CPUFree'
  <2>1. FifthBefore' = FifthBefore /\ FifthBefore \in Nat /\ (AllNext' <=> AllNext)
    BY <1>1 DEF FifthBefore, AllNext
  <2> QED BY <1>1, <1>11, <2>1, Numbers DEF TimingInv, CPUFree
<1>13. Started'
  BY <1>1, <1>3 DEF TimingInv, Started, Starting
<1>14. FullKept'
  BY <1>1 DEF TimingInv, FullKept
<1> QED BY <1>1, <1>4, <1>5, <1>6, <1>7, <1>9, <1>10, <1>12, <1>13, <1>14 DEF TimingInv

\* An alarm only turns what Task3 might have to ask of Task4 into work of Task4.
LEMMA CheckKeeps ==
    ASSUME TimingInv, NEW alarm \in BOOLEAN, T3_checks(alarm)
    PROVE  TimingInv'
<1>1. /\ Current = "Task3" /\ "Task3" \in undone /\ undone' = undone \ {"Task3"}
      /\ seen' = (seen \/ garbage = FULL)
      /\ UNCHANGED <<tick, due, age, closed, low, slice, garbage, crowd>>
      /\ \/ /\ "Task4" \notin jobs /\ jobs' = jobs \cup {"Task4"} /\ flag' = flag
            /\ tick_count' = [tick_count EXCEPT !["Task4"] = 2]
         \/ flag' \in {flag, flag \cup {"Task4"}} /\ UNCHANGED <<jobs, tick_count>>
            /\ ("Task4" \in jobs \/ flag' = flag)
  BY Tables DEF T3_checks
<1>2. "Task3" \in jobs /\ jobs # {} /\ crowd # 0
  BY <1>1 DEF TimingInv, FullKept, CPUFree
<1>3. /\ tick_count' \in [Tasks -> Nat] /\ tick_count'["Task2"] = tick_count["Task2"]
      /\ tick_count'["Task1"] = tick_count["Task1"] /\ tick_count'["Task3"] = tick_count["Task3"]
      /\ tick_count'["Task5"] = tick_count["Task5"]
      /\ tick_count'["Task4"] = IF jobs' = jobs THEN tick_count["Task4"] ELSE 2
  BY <1>1, Tables DEF TimingInv, Counted
<1>4. /\ jobs' \subseteq Tasks /\ jobs' \subseteq jobs \cup {"Task4"} /\ jobs \subseteq jobs'
      /\ jobs' # jobs => "Task4" \notin jobs /\ "Task4" \in jobs' /\ flag' = flag
  BY <1>1, Tables DEF TimingInv, Counted
<1>5. Phases'
  BY <1>1 DEF TimingInv, Phases
<1>6. Counted'
  <2>1. \A t \in Tasks : t # "Task4" => tick_count'[t] = tick_count[t] /\ (t \in jobs' <=> t \in jobs)
    BY <1>3, <1>4, Tables
  <2>2. tick_count'["Task4"] <= 2 /\ ("Task4" \notin jobs' => tick_count'["Task4"] = 0)
    BY <1>3, <1>4, Tables, Numbers DEF TimingInv, Counted
  <2> QED BY <1>3, <1>4, <2>1, <2>2, Tables DEF TimingInv, Counted
<1>7. Aged'
  BY <1>1, <1>4, Tables DEF TimingInv, Aged
<1>8. FlagsKept'
  BY <1>1, <1>4 DEF TimingInv, FlagsKept
<1>9. Work12' = Work12 /\ Work123' = Work123 /\ Work1235' = Work1235
  BY <1>3 DEF Work12, Work123, Work1235
<1>10. HigherDone'
  BY <1>1, <1>3, <1>4, <1>9 DEF TimingInv, HigherDone, Since1, Since3, AllNext
<1>11. FifthDone'
  BY <1>1, <1>4, <1>9 DEF TimingInv, FifthDone, Since5, Preempting, AllNext, OnTime
<1>12. Demand' <= Demand /\ Demand \in Nat /\ Demand' \in Nat
  <2>1. Demand = Work1235 + tick_count["Task4"] + 2 + (IF "Task4" \in flag THEN 2 ELSE 0)
    BY <1>1 DEF Demand
  <2>2. Demand' = Work1235 + tick_count'["Task4"] + 0 + (IF "Task4" \in flag' THEN 2 ELSE 0)
    BY <1>1, <1>9 DEF Demand
  <2>3. CASE jobs' = jobs
    BY <1>3, <2>1, <2>2, <2>3, Numbers
  <2>4. CASE jobs' # jobs
    BY <1>3, <1>4, <2>1, <2>2, <2>4, Numbers
  <2> QED BY <2>3, <2>4
<1>13. CPUFree'
  <2>1. FifthBefore' = FifthBefore /\ FifthBefore \in Nat /\ (AllNext' <=> AllNext)
    BY <1>1 DEF FifthBefore, AllNext
  <2> QED BY <1>1, <1>2, <1>12, <2>1, Numbers DEF TimingInv, CPUFree
<1>14. Started'
  BY <1>1, <1>2 DEF TimingInv, Started, Starting
<1>15. FullKept'
  <2>1. "Task2" \notin undone
    <3>1. "Task2" \notin jobs
      BY <1>1, CurrentTask DEF TimingInv, Counted
    <3> QED BY <3>1 DEF TimingInv, FullKept
  <2> QED BY <1>1, <1>4, <2>1 DEF TimingInv, FullKept
<1> QED BY <1>1, <1>5, <1>6, <1>7, <1>8, <1>10, <1>11, <1>13, <1>14, <1>15 DEF TimingInv

\* The end of a job: only Task4 can find its event set.
LEMMA EndKeeps ==
    ASSUME TimingInv, NEW t \in Tasks, job_ends(t)
    PROVE  TimingInv'
<1>1. /\ Current = t /\ tick_count[t] = 0 /\ t \notin undone /\ flag' = flag \ {t}
      /\ jobs' = IF t \in flag THEN jobs ELSE jobs \ {t}
      /\ tick_count' = [tick_count EXCEPT ![t] = IF t \in flag THEN Duration[t] ELSE 0]
      /\ undone' = IF t \in flag THEN undone \cup ({t} \cap Workers) ELSE undone
      /\ age' = [u \in Periodic |-> IF u # t THEN age[u]
                                    ELSE IF t \in flag THEN age[u] - Period[u] ELSE 0]
      /\ UNCHANGED <<tick, due, closed, low, slice, garbage, seen, crowd>>
  BY DEF job_ends
<1>2. t \in jobs
  BY <1>1, CurrentIs, Tables DEF TimingInv, Counted, Started
<1>3. t \in flag => t = "Task4"
  BY <1>2 DEF TimingInv, FlagsKept
<1>4. undone' = undone
  BY <1>1, <1>3 DEF Workers
<1>5. /\ tick_count' \in [Tasks -> Nat]
      /\ \A u \in Tasks : tick_count'[u] = IF u = "Task4" /\ t = "Task4" /\ "Task4" \in flag THEN 2
                                           ELSE tick_count[u]
  BY <1>1, <1>3, Tables DEF TimingInv, Counted
<1>6. /\ jobs' \subseteq jobs
      /\ \A u \in Tasks : u \in jobs' <=> u \in jobs /\ (u # t \/ t \in flag)
  BY <1>1
<1>7. Phases'
  BY <1>1 DEF TimingInv, Phases
<1>8. Counted'
  <2>1. \A u \in Tasks : tick_count'[u] <= Duration[u]
    BY <1>5, Tables DEF TimingInv, Counted
  <2>2. \A u \in Tasks : u \notin jobs' => tick_count'[u] = 0
    BY <1>1, <1>2, <1>5, <1>6 DEF TimingInv, Counted
  <2> QED BY <1>5, <1>6, <2>1, <2>2 DEF TimingInv, Counted
<1>9. Aged'
  <2>1. \A u \in Periodic : age'[u] = IF u # t THEN age[u] ELSE 0
    BY <1>1, <1>3, Tables
  <2>2. age' \in [Periodic -> Nat]
    BY <1>1, <1>3, <2>1, Tables DEF TimingInv, Aged
  <2>3. \A u \in Periodic : u \in jobs' <=> u \in jobs /\ u # t
    BY <1>3, <1>6, Tables
  <2> QED BY <1>1, <2>1, <2>2, <2>3 DEF TimingInv, Aged
<1>10. FlagsKept'
  BY <1>1, <1>3, <1>6, Tables DEF TimingInv, FlagsKept
<1>11. /\ tick_count'["Task1"] = tick_count["Task1"] /\ Work12' = Work12 /\ Work123' = Work123
       /\ Work1235' = Work1235
  BY <1>5, Tables DEF Work12, Work123, Work1235
<1>12. HigherDone'
  BY <1>1, <1>6, <1>11 DEF TimingInv, HigherDone, Since1, Since3, AllNext
<1>13. FifthDone'
  BY <1>1, <1>6, <1>11 DEF TimingInv, FifthDone, Since5, Preempting, AllNext, OnTime
<1>14. Demand' = Demand
  <2>1. CASE t = "Task4" /\ "Task4" \in flag
    <3>1. tick_count["Task4"] = 0 /\ tick_count'["Task4"] = 2 /\ "Task4" \notin flag'
      BY <1>1, <1>5, <2>1, Tables
    <3> QED BY <1>4, <1>11, <2>1, <3>1, Numbers DEF Demand
  <2>2. CASE ~(t = "Task4" /\ "Task4" \in flag)
    <3>1. tick_count'["Task4"] = tick_count["Task4"] /\ ("Task4" \in flag' <=> "Task4" \in flag)
      BY <1>1, <1>5, <2>2, Tables
    <3> QED BY <1>4, <1>11, <3>1 DEF Demand
  <2> QED BY <2>1, <2>2
<1>15. CPUFree'
  BY <1>1, <1>6, <1>14 DEF TimingInv, CPUFree, FifthBefore, AllNext
<1>16. Started'
  BY <1>1, <1>2 DEF TimingInv, Started, Starting
<1>17. FullKept'
  BY <1>1, <1>4, <1>6 DEF TimingInv, FullKept, Workers, Tasks
<1> QED BY <1>1, <1>7, <1>8, <1>9, <1>10, <1>12, <1>13, <1>15, <1>16, <1>17 DEF TimingInv

-----------------------------------------------------------------------------
(* Timing: the theorems *)

LEMMA TimingStarts == Init => TimingInv
<1> SUFFICES ASSUME Init PROVE TimingInv
  OBVIOUS
<1>1. /\ tick \in StartTicks
      /\ due = [t \in Periodic |-> IF t = "Task5" THEN 0 ELSE Period[t]]
      /\ jobs = {} /\ flag = {} /\ closed = {} /\ undone = {}
      /\ tick_count = [t \in Tasks |-> 0] /\ age = [t \in Periodic |-> 0]
      /\ low = "main" /\ slice \in 1 .. Slice["main"]
      /\ garbage = 0 /\ seen = FALSE /\ crowd = 0
  BY DEF Init
<1>2. /\ due["Task1"] = 50 /\ due["Task2"] = 50 /\ due["Task3"] = 25 /\ due["Task5"] = 0
      /\ due \in [Periodic -> Nat]
  BY <1>1, Tables
<1>3. Phases
  BY <1>2 DEF Phases
<1>4. Counted /\ Aged /\ FlagsKept
  BY <1>1, Tables DEF Counted, Aged, FlagsKept
<1>5. HigherDone /\ FifthDone /\ CPUFree
  BY <1>1 DEF HigherDone, FifthDone, CPUFree
<1>6. Started
  BY <1>1, <1>2 DEF Started, Starting
<1>7. FullKept
  <2>1. FULL \in Nat /\ FULL > 0 /\ GarbageMax = FULL + 1
    BY TimingAssumption DEF GarbageMax
  <2>2. garbage \in 0 .. GarbageMax /\ garbage # FULL /\ ~(garbage > FULL)
    BY <1>1, <2>1
  <2> QED BY <1>1, <2>2 DEF FullKept
<1>8. tick \in 0 .. 89
  BY <1>1, TimingAssumption
<1> QED BY <1>3, <1>4, <1>5, <1>6, <1>7, <1>8 DEF TimingInv

LEMMA TimingStep == TimingInv /\ [Next]_vars => TimingInv'
<1> SUFFICES ASSUME TimingInv, [Next]_vars PROVE TimingInv'
  OBVIOUS
<1>1. CASE rt_tick_increase
  BY <1>1, TickKeeps
<1>2. CASE main_starts_Task5
  BY <1>2, MainKeeps
<1>3. CASE T2_cleans
  BY <1>3, CleanKeeps
<1>4. CASE T2_stuck
  BY <1>4, StuckKeeps
<1>5. CASE \E alarm \in BOOLEAN : T3_checks(alarm)
  BY <1>5, CheckKeeps
<1>6. CASE \E t \in Tasks : job_ends(t)
  BY <1>6, EndKeeps
<1>7. CASE UNCHANGED vars
  BY <1>7 DEF vars, TimingInv, Phases, Counted, Aged, FlagsKept, HigherDone, FifthDone, CPUFree,
              Started, FullKept, Since1, Since3, Since5, Work12, Work123, Work1235, Preempting,
              AllNext, OnTime, Demand, FifthBefore, Starting
<1> QED BY <1>1, <1>2, <1>3, <1>4, <1>5, <1>6, <1>7 DEF Next

\* The schedule of the jobs: who is released when, how much of it is left at any tick,
\* and what this leaves for TSystem.
THEOREM TimingInvariant == Spec => []TimingInv
BY TimingStarts, TimingStep, PTL DEF Spec

\* The variables keep their types, and the slices of main and TSystem their lengths.
THEOREM TimingTypeCorrect == Spec => []TypeOK
<1>1. TimingInv => TypeOK
  <2> SUFFICES ASSUME TimingInv PROVE TypeOK
    OBVIOUS
  <2>1. /\ tick \in 0 .. 89 /\ due \in [Periodic -> Nat] /\ age \in [Periodic -> Nat]
        /\ jobs \subseteq Tasks /\ tick_count \in [Tasks -> Nat]
    BY DEF TimingInv, Phases, Aged, Counted
  <2>2. flag \subseteq Tasks /\ closed \subseteq {"Task2"}
    BY Tables DEF TimingInv, FlagsKept
  <2>3. /\ undone \subseteq jobs \cap Workers /\ garbage \in 0 .. GarbageMax /\ seen \in BOOLEAN
        /\ low \in {"main", "TSystem"} /\ slice \in 1 .. Slice[low]
    BY DEF TimingInv, FullKept, Started
  <2>4. crowd \in 0 .. CrowdMax
    BY DEF TimingInv, CPUFree, CrowdMax
  <2> QED BY <2>1, <2>2, <2>3, <2>4 DEF TypeOK
<1> QED BY <1>1, TimingInvariant, PTL

\* No timer fires while the job it started before is unfinished, so no activation of a
\* running task is ever lost, however late main starts Task5.
THEOREM JobsEndInPeriodHolds == Spec => []JobsEndInPeriod
<1>1. TimingInv => JobsEndInPeriod
  BY DEF TimingInv, FlagsKept, JobsEndInPeriod
<1> QED BY <1>1, TimingInvariant, PTL

\* Every job ends within its bound: 5 ticks for Task1, 11 for Task2, 17 for Task3, and 9
\* for a Task5 that was started on time.
THEOREM DeadlinesMetHolds == Spec => []DeadlinesMet
<1>1. TimingInv => DeadlinesMet
  <2> SUFFICES ASSUME TimingInv PROVE DeadlinesMet
    OBVIOUS
  <2>1. /\ age["Task1"] = IF "Task1" \in jobs THEN 50 - due["Task1"] ELSE 0
        /\ age["Task2"] = IF "Task2" \in jobs THEN 50 - due["Task1"] ELSE 0
        /\ age["Task3"] = IF "Task3" \in jobs THEN 25 - due["Task3"] ELSE 0
        /\ age["Task5"] = IF "Task5" \in jobs THEN 25 - due["Task5"] ELSE 0
    BY Tables, Numbers DEF TimingInv, Aged
  <2>2. age["Task1"] < 10 /\ age["Task2"] <= 11
    BY <2>1, Numbers DEF TimingInv, HigherDone, Since1
  <2>3. age["Task3"] < 20
    BY <2>1, Numbers DEF TimingInv, HigherDone, Since3
  <2>4. OnTime => age["Task5"] < 20
    BY <2>1, Numbers DEF TimingInv, FifthDone, Since5
  <2> QED BY <2>2, <2>3, <2>4 DEF DeadlinesMet
<1> QED BY <1>1, TimingInvariant, PTL

\* Task3 reads the level FULL before Task2 can add to it, for every FULL but 0.
THEOREM FullIsSeenHolds == Spec => []FullIsSeen
<1>1. TimingInv => FullIsSeen
  BY DEF TimingInv, FullKept, FullIsSeen
<1> QED BY <1>1, TimingInvariant, PTL

\* TSystem has the CPU at least once between any three activations of Task3, whatever
\* alarms there are and wherever the timer of Task5 falls.
THEOREM TSystemGetsCPUHolds == Spec => []TSystemGetsCPU
<1>1. TimingInv => TSystemGetsCPU
  BY DEF TimingInv, CPUFree, TSystemGetsCPU
<1> QED BY <1>1, TimingInvariant, PTL

=============================================================================
