# Verification of the RVC_Oses robot vacuum cleaner

RVC_Oses is a simulated robot vacuum cleaner on a modified RT-Thread kernel: seven
threads, four periodic timers, soft interrupts (signals), events, two mailboxes and
one mutex on a single CPU with fixed-priority scheduling.  This directory holds TLA+
models of it, TLC configurations and TLAPS proofs.  All paths below are relative to
`src/RVC_Oses/`; "kernel" is `rt-thread/src/`.

## 1. Inventory

| Part | State | Operations | Interacts with |
|---|---|---|---|
| TaskS `movement_stop` (prio 1) | – | wait for `event_obstacle`, write STOP | Task1 (event), engine |
| Task1 `obstacle_control` (2) | – | every 500 ms read the sensor; on 'y' SIGUSR1 to Task2, event to TaskS | sensor, Task2, TaskS |
| Task2 `movement_control` (3) | `map`, `position`, `direction`, `stuck` | every 500 ms: take a mail, clean the tile, move, start the engine, or end; SIGUSR1 handler marks the tile and steps back | Task1, Task3 (`mb2_3`), Task5 (`mb2_5`), TSystem (SIGUSR2), engine, bag |
| Task3 `check_resources` (4) | – | every 250 ms: battery under `battMutex`, bag | Task2 (mail), Task4 (event), TSystem (SIGUSR2, mutex) |
| Task5 `brushes_speed` (5) | brush pins | every 250 ms: mail, pin reads, speed state machine | Task2 |
| Task4 `acoustic_signals` (6) | – | wait for `event_resources`, sound the alarm | Task3, speaker |
| TSystem (10) | `batteryStatus`, `turnOffFlag` | discharge in the tick with `curr_time % 900 == 0`; on SIGUSR2 become non-preemptable, close all tasks, exit | everyone |
| start-up (`main.c`) | – | create the objects, start threads and timers | everyone |
| mock devices | bag counter, engine state | read / write | tasks |
| kernel: events, mailboxes, mutex (`ipc.c`) | bit sets, ring buffers, owner and waiting list | send / receive, take / release | all threads |
| kernel: signals (`signal.c`) | pending set, mask, handler frame, `thread->error` | kill, deliver, mask, handle | Task2, TSystem |
| kernel: scheduler, threads | ready table, `preemptableFlag`, priorities | schedule, change priority, suspend, resume, exit, detach | all |
| kernel: clock, timers | tick, timer lists, `tick_count` | tick, expire | all periodic tasks |
| other kernel parts, drivers, board support | – | third party, not part of this program's logic | – |

What is hard here:

* the signal may arrive at any statement of Task2 or TSystem, also while the thread is
  suspended in `rt_event_recv` or has just been made ready by a timer;
* Task1 informs two threads in two calls;
* the mutex changes the owner's priority, and the change is wrong (the address of the
  priority is stored instead of the priority, `ipc.c:985`, `thread.c:742`);
* the power-off may hit TSystem while it holds the mutex;
* bounded mailboxes whose senders ignore `-RT_EFULL`;
* unsigned battery arithmetic, exact comparisons (`== FULL`), an uninitialised local;
* kernel waits that end in several ways at once (hand-over, time-out, signal, reset),
  each of which takes the thread off a list another call is about to walk;
* `rt_thread_detach`, the retry in `rt_mutex_take` and the error handling of
  `rt_event_recv` are not one critical section;
* tick arithmetic wraps around, and timer callbacks change the list being walked;
* deadlines, lost activations and the discharge depend on phases of a few ticks.

`PROJECT.json` lists these under `hazards`, each at its line, with the properties that
cover it.

What makes each part correct: no wake-up, signal or mail that matters is lost; the
engine never starts over an unhandled obstacle; the robot stays in the room, goes home
when told and gets there; the battery is read and written under the mutex; conditions
are reported; jobs end before their next activation; a power-off closes every task while
nothing else runs; the kernel objects below deliver each mail and flag once and in order,
wake whoever can go on, and keep their lists exact.

## 2. Modules

The modules are in two layers.  The application layer models tasks with the kernel calls
they make; the kernel layer models one kernel object each, for any number of threads and
every way of calling it.

| Module | Models | Layer |
|---|---|---|
| `Movement` | TaskS, Task1, Task2, SIGUSR1, their timers, engine, room | application |
| `Power` | Task3, Task4, TSystem, SIGUSR2, `battMutex`, battery, bag, power-off | application |
| `Brushes` | Task5, `mb2_5`, its timer, the pin driver with `mock_pin_read` | application |
| `Shutdown` | `closeAllTasks` over thread objects, ready table, event lists and timers; `rt_schedule`, resume, sleep, exit, detach | application and kernel |
| `Timing` | periods, durations, priorities, time slices and `tick_count`, tick by tick | application and kernel |
| `Mailbox` | what a mailbox promises: a bounded queue | abstract |
| `RtMailbox` | ring buffer, waiting senders and receivers; refines `Mailbox` | kernel |
| `RtMutex` | take, release, recursion, hand-over, retry, priority bytes | kernel |
| `RtEvent` | flags, AND / OR / CLEAR, waiting list, reset | kernel |
| `Countdown` | what timers promise: each counts down and fires | abstract |
| `RtTimer` | sorted list, wrapping tick counter, callbacks; refines `Countdown` | kernel |
| `MCMovement`, `MCPower`, `MCBrushes`, `MCShutdown`, `MCTiming`, `MCMailbox`, `MCMutex`, `MCEvent`, `MCTimer` | the instances for TLC | |
| `MovementProofs`, `PowerProofs`, `ShutdownProofs`, `MailboxProofs`, `MutexProofs` | TLAPS proofs about the module of that name | |
| `TaskProofs` | TLAPS proofs about `Brushes` and `Timing` | |
| `KernelProofs` | TLAPS proofs about `RtTimer` and `RtEvent` | |
| `WaitingLists` | lemmas about duplicate-free lists of threads and about induction, for the proofs of the kernel modules | |

How the layers meet.  `Movement`, `Power` and `Brushes` use a mailbox as a count and an
event as one bit with one waiting thread.  `RtMailbox` and `RtEvent` check the objects
behind these views in full: a mailbox behaves as a bounded queue, and a waiter never
sleeps past its flags.  The abstraction is not a formal refinement: it is read off these
properties.  `Timing` justifies the frame and the constant `Slack` of the other
modules (`JobsEndInPeriod`, `TSystemGetsCPU`).  `Power` shows when TSystem, the only thread
with both a handler and a mutex, can sleep on the mutex (`TSystemNeverBlocks`): for the links
where it cannot, the flaws of the retry in `RtMutex` are latent.  `Power` keeps the closing
as one step, which succeeds or halts in the assertion; `Shutdown` takes it apart.

### Conventions

* **Steps.** A stretch of a kernel call that runs with interrupts disabled is one step.
  Between them, a C statement that touches state another thread or a handler also touches is one
  step.  `pc[t]` names the next statement of thread `t`; an action `T2_clean` is the step
  of Task2 at statement `clean`.
* **CPU.** `Running(t)`: `t` is ready and nothing of smaller priority number is.  A thread
  acts only when it is running; timers (interrupts) act at any time.
* **Waiting.** A thread that calls `rt_event_recv` goes to `return` with `stat` either
  still `ready` (it had the event) or `suspend`.  Task2, which has a handler, first resets
  `thread->error` in a step of its own (`T2_reset`, `ipc.c:1578`).  Sending makes a suspended thread ready
  and leaves its bit clear, or sets the bit of a thread that is not waiting.
* **Signals.** `sig_pending`, `sig_mask` (TRUE = unmasked, as in the kernel) and
  `sig_entry`, the state bit `RT_THREAD_STAT_SIGNAL`: the handler runs before the thread's
  next statement.  `_signal_deliver` has a branch for a suspended thread (it is resumed and
  the handler runs in the tail of `rt_schedule`) and one for a ready thread (a handler
  frame is pushed); both end with `-RT_EINTR` in `thread->error`, which is what
  `rt_event_recv` then returns.
* **Data.** Mails are counted, because no receiver modelled here looks at the text.  A
  tile is the integer at offset `row * MAP_SIDE + column`.  Outside the array a write is
  lost to this model and a read gives any answer.
* **Init** is the state after `main`: all tasks asleep in their first `rt_event_recv`
  (`Timing` starts earlier, in main's busy wait).
* **Kernel calls that wait** are several steps: up to the suspension, and from the resumption
  on (`..._resumed`).  `call[t]` says where in its call a thread is, `stat[t]` whether it sleeps,
  `error[t]` is `thread->error`.  Time-outs are `"no"`, `"ticks"`, `"forever"`; a thread
  waiting for ticks may time out at any moment.  `rt_event_recv` resets and returns
  `thread->error` with interrupts enabled, so these are steps of their own.  After a signal
  `rt_mutex_take` jumps behind its interrupt lock; every statement of this retry is a step
  (`again_...`), at any of which ticks, signals and other threads come in.  `lingers` is a
  thread that has suspended itself there and still has the CPU.  What has no further
  meaning in C ends in `halted`: a failed assertion in the interrupt, a thread switch between
  the writes that link a list node.
* **Histories.** `taken` (`RtMutex`), `owed` and `given` (`RtEvent`) and `older` (`RtTimer`)
  record what callers have been told or are about to be; no guard reads them.
* Definitions whose names end in a variation (`..._no_resume`, `..._late`) and whose comment
  begins with "Mutant" are wrong versions of the definition after them.  No specification
  uses them: they show that the properties notice such a mistake.

### Environment

`Movement` treats Task3 (sends mails) and Task5 (takes mails) as environment that acts
only while its three threads are blocked.  `Power` treats Task2 as environment that may
act at any time unless TSystem is non-preemptable or a priority byte outranks it: it fills
the bag, takes a mail, comes home (SIGUSR2), or ends as stuck, after which Task1 may still
signal it.  `Clock` opens and closes the tick with
`curr_time % 900 == 0`; within it TSystem may decrement any number of times, as its loop
does.

The priorities that `rt_mutex_take` and `rt_mutex_release` store are the low bytes of three
addresses (`ipc.c:985`, `ipc.c:1125`, `thread.c:742`): of the two threads' `current_priority`
and of the mutex's `original_priority`.  The link fixes them and nothing in the code confines
them, so `Links` is any set of triples of bytes and `Init` chooses one.  A byte of 32 or more
makes the scheduler index outside its ready table when the thread is queued; the model ends
there (`halted = "table"`).  The byte of the mutex decides whether TSystem can sleep on it
(`Demoted`: it is greater than Task3's priority).  If TSystem can, SIGUSR2 can find it there:
it then retries for ever, or takes a mutex that became free, or, because a non-preemptable
thread is not switched away from, goes on as if it had the mutex.  The run reaches all of
these; the properties say that nothing else goes wrong, and that these need that byte.

In `Brushes` Task2 is the environment that mails at any time, and TSystem the one that closes
Task5 at any time.  In `Shutdown` a task may, when
it has the CPU, do whatever kernel call the source lets it do (`Sends`, `Kills`, `Enders`), and
SIGUSR2 may arrive whenever TSystem runs; `Sleepers` are tasks that also wait with a time-out,
of which the application has none.  In `Timing` the work of a job takes no time of its own
beyond the ticks it spins for.

## 3. Runs

| Run | Bounds | Shows |
|---|---|---|
| `movement` | 3x3 room, 2 mails, 2 obstacles, both values of the uninitialised `stuck`, one Task1 and one Task2 activation per 50-tick frame | `NoLostWakeup`, `SignalArmed`, `NoStartOverObstacle`, `ReturnIsFinal`, `MailBringsReturn`, `JobFollowsActivation`, `HomeFromInside` |
| `power` | charge 3, thresholds 2 and 1, 4-value battery word, bag 0..1, 1 mail, five links: TSystem stays last; inherits more urgency than Task3 and falls back below it; becomes as urgent as Task3; Task3, or TSystem, leaves the ready table | `MutexExclusive`, `TSystemNeverBlocks`, `NoLostWakeup`, `QuietShutdown`, `ShutdownCompletes` |
| `shutdown` | the six tasks; Task2 and Task4 also wait with time-outs | `ListsMatchState`, `OffMeansClosed`, `TimeoutFindsSleeper`, `HaltsOnlyOnLateSignal`, `ClosingEnds` |
| `timing` | the code's numbers, FULL 2, start at tick 0 mod 90, any rest of main's slice | `TypeOK`, `JobsEndInPeriod`, `DeadlinesMet`, `FullIsSeen`, `TSystemGetsCPU` |
| `brushes` | 2 mails, `brushes_power[1]` starting as 0, 1 or anything else (7), the pin mock's own constants | `SensorKeepsPulsing`, `MailStopsBrushes` |
| `mailbox` | 3 threads, one of which may install a signal handler at any time, 2 mails, size 2, PRIO | `ListsExact`, `NobodyStranded`, `RefinesMailbox` |
| `mutex` | 3 threads, one of which may install a handler, hold up to 2, `mutex->value` up to 2, address bytes that are a priority of another thread or less urgent than all | `ListExact`, `OwnershipExact`, `UrgentFirst` |
| `event` | 3 threads, one with a handler, 2 flags, PRIO | `EventTypeOK`, `ListExact`, `NoSatisfiedWaiter`, `EventKept`, `UrgentServedFirst` |
| `timer` | 2 timers, word 8, times 1 and 2 | `EarlyFirst`, `RefinesCountdown`, `InterruptEnds` |
| `position_in_room`, `empty_battery_turns_off`, `task2_deadline` | – | the counterexamples of section 4 |

Type correctness is proved for every module (section 5); `timing` and `event` also check it, as
it says what the fields of their records and counters can hold.

Why the bounds are enough.  Two obstacles allow a second signal while the first is
pending, being handled, masked, or after Task2 has ended.  A 3x3 room has every bound of
the switch, dead ends, positions outside, and a way home of several steps with turns.  One
or two mails reach full and empty mailboxes.  The battery word passes through high, low,
critical, empty and wrapped around.  The bag reaches `FULL` in `power`; that it is not missed
is the subject of `timing`.  The five links have one example of each order that the bytes can
give to Task3, Task4 and TSystem and of each byte outside the table.  `Slack` = 2 is what
`TSystemGetsCPU` shows.

Two slots make the ring wrap in both directions with a waiting thread on either side; three
threads add a third party that takes what another was woken for.  Two flags are what AND
differs from OR by, three waiters what one send can serve, starve and skip.  Three threads on
a mutex give an owner and two ordered waiters; hold 2 is recursion at its limit, and value 2
is a mutex that the retry has released once too often.  One thread
with a handler is enough for every race of a signal with a hand-over or a time-out, because
the others race with it.  A word of 8 ticks (`RT_TICK_MAX / 2` = 3) lets time-outs of 1 and
2 lie on both sides of the wrap-around from every starting tick.  The schedule of `Timing`
repeats after 450 ticks, which the run covers for every rest of main's slice; FULL is
small because only the tiles around it matter.  Timers that overrun, FIFO waiting lists and
other bytes are left to the proofs, which hold for all of them.

Deadlock is checked where something can always happen (timers, ticks or calls).  `Power`,
`Brushes` and `Shutdown` really stop after the power-off, all threads of a mailbox may wait for ever for
each other, and threads of a mutex with signals may all be stopped by an assertion or wait
for themselves, so those configurations say `CHECK_DEADLOCK FALSE`.

**Fairness.** Weak fairness of each timer action (the tick interrupt keeps coming) and of
each thread (a running thread keeps executing); none for the sensor, for Task3 mailing, for
Task2 as environment or for the clock window.  In `movement` a frame ends only
when both timers have fired and all three threads are blocked: the jobs of Task1 and Task2
take 5 + 6 of 50 ticks and nothing outranks them.  In `Power`, Task3 may be activated at
most `Slack` times between two moments at which TSystem has the CPU: the periodic tasks
need 5 + 6 + 2*6 + 2*7 ticks of 50 and Task4 at most 2*2 more, so TSystem runs in every
frame, in which Task3 has two activations; `TSystemGetsCPU` checks this.  `Brushes`: the
timer, until the power-off stops it, and Task5 (it ends each job in its period,
`JobsEndInPeriod`); none for mails and for the power-off.
`Shutdown`: TSystem goes on when it has the CPU, which nobody takes from it during the
power-off.  `RtTimer`: ticks come and the interrupt goes on, callbacks included.

## 4. Where the repository's words and the code differ

Three disagreements are runs that TLC must find violated; `findings` in `PROJECT.json` quotes
the lines.

* `PositionInRoom`: the handler always steps back, also when Task2 has not moved: row -1.
* `EmptyBatteryTurnsOff`: the unsigned level is decremented past 0 within one window, so
  Task3 never sees 0.
* `Task2Deadline`: Task1 and Task2 together take 110 ms of Task2's 100.  `DeadlinesMet` says
  that one tick is all Task2 is ever late by.

Further deviations met while modelling.  The models contain them, and the properties are
stated so that they hold beside them; no run is about them.

* A signal between a timer's activation and Task2's return from `rt_event_recv` swallows the
  activation (`ipc.c:1653`), and so does one between the reset of `thread->error`
  (`ipc.c:1578`) and the critical section, for the activation that comes next.
  `JobFollowsActivation` says that a job still follows in the end; in `RtEvent` a flag that is
  cleared for such a call is gone, and `EventKept` says that this is the only way to lose one.
* The way home ignores the map and leads over marked tiles (`tasks.c:396`);
  `find_new_position` never considers the tile behind the robot, so a dead end counts as stuck
  (`tasks.c:69`); `stuck` is read before it is assigned (`tasks.c:403`), and with 1 on the
  stack Task2 ends after its first straight move.  `HomeFromInside` therefore speaks of
  `stuck` = 0 and promises only that the robot gets home.
* Both resource flags received together sound no alarm (`tasks.c:570`).
* If Task2 mails Task5 and reaches home in the same job, TSystem closes Task5 before its next
  job and the mail is never read (`tasks.c:365`, `tasks.c:420`, `tasks.c:130`); the pins stay as
  they are.  `MailStopsBrushes` names this case.
* `tasks.c:667` reads the power pin into the wrong array: brushes that Task2's mail has stopped
  start again on the way home, although implementation.md:36 says that the task "turns off the
  brushes, because not needed" and the comment at `tasks.c:646` that they stop; and
  `brushes_power` need not be the code of the speed written.  `MailStopsBrushes` therefore
  promises the stop and not that it lasts.  `brushes_power[1]` is compared before it is assigned: with stack contents
  other than 0 and 1 the brushes never start.
* TSystem's time slices can delay main; Task5's timer then starts late and its jobs may take
  240 ms instead of 200.  `DeadlinesMet` speaks of a Task5 started on time.  If the timers
  start in a tick divisible by 10, TSystem never has the CPU in a tick with
  `curr_time % 900 == 0`, and the battery never discharges.
* A Task2 that ended as stuck and is signalled afterwards is detached a second time, which the
  assertion of `rt_thread_detach` stops (`thread.c:397`): the power-off never completes.
  `HaltsOnlyOnLateSignal` says that this is the only way to it, and `ShutdownCompletes` that
  a power-off halts in the assertion for no other reason.
* The owner of a mutex inherits an address byte instead of the waiter's priority
  (`ipc.c:985`), and a release gives it another one instead of its own (`ipc.c:1125`).
  `TSystemNeverBlocks`, `MutexExclusive` and `ShutdownCompletes` name what that can do.
* A second send of an event before the woken thread has run is received again
  (`ipc.c:1499`), although thread-sync.md calls events not queuing.
* Latent in this application, which does not use the kernel in that way: a signal to a
  receiver that a mail has woken strands the mail (`ipc.c:2298`); after a signal the retry of
  `rt_mutex_take` lets an owner wait for itself or two threads take the mutex (`ipc.c:1019`),
  and, its statements being interruptible, leaves a suspended thread on no list, a list
  half linked, or an assertion of the interrupt or of `rt_thread_control` failing; a release
  with `mutex->value` at its maximum keeps the owner without a hold, and the next one wraps
  `mutex->hold` (`ipc.c:1170`, `ipc.c:1118`);
  a thread timer between the sections of `rt_thread_detach` leaves a closed thread in the
  ready table (`thread.c:406`); a periodic timer made one-shot by its callback keeps its
  active flag on no list (`timer.c:639`).

## 5. Proofs

`MovementProofs` proves for every room size, mailbox size and timing assumption
`TypeOK`, `NoLostWakeup`, `SignalArmed`, `NoStartOverObstacle` and `ReturnIsFinal`.
The only assumption is `MovementAssumption`.  The inductive invariant is

    IInv == TypeOK /\ PcOK /\ NoLostWakeup /\ SignalArmed /\ EntryOK /\ ReturnOK

`PcOK` (where each thread may be, only Task2 ends) and `EntryOK` (a handler frame means a
pending, unmasked signal) are needed for `SignalArmed`: Task2 may suspend or mask only with
no frame, hence with no unmasked signal pending.  `ReturnOK` ties the mask to
`direction = "RETURN"`.  `NoStartOverObstacle` follows because a running Task2 means that
TaskS and Task1 are asleep, and by `NoLostWakeup` asleep with nothing in hand.

`PowerProofs` proves for every battery size, threshold, mailbox size and all address bytes
`TypeOK`, `MutexExclusive`, `TSystemNeverBlocks`, `NoLostWakeup` and `QuietShutdown`
from `PowerAssumption`, which says only that the bytes are bytes.  Its inductive invariant is

    Control == TypeThreads /\ PcOK /\ MutexExclusive /\ OwnerOK /\ WaitOK /\ DemotedOK
               /\ ShutdownOK /\ NoLostWakeup
    IInv    == TypeOK /\ Control

`OwnerOK` says that the owner is at a statement from which it will release, `WaitOK` that a
TSystem resumed in `rt_mutex_take` before the power-off owns the mutex or is about to run its
handler.  `DemotedOK` is the argument of `TSystemNeverBlocks`: Task3 keeps priority 4, since
nobody can wait for a mutex it holds, and TSystem is below it unless it holds the mutex
itself, whatever it has inherited; so when TSystem runs and wants the mutex, Task3 is asleep
and does not own it.  `ShutdownOK` orders the stages of the power-off.

`MailboxProofs` proves for every set of threads, set of mails and size that `RtMailbox`
implements `Mailbox` (`ImplementsMailbox`), from

    RingInv == TypeRing /\ TypeCalls /\ RingOK /\ HoldsMail /\ FullSlots

`RingOK` relates the two offsets and `entry` (without it a stored mail would not be the last of
the queue), `HoldsMail` that a waiting sender has its mail, `FullSlots` that occupied slots
hold mails.  `ListsExactHolds` rests on `ListInv` and the lemmas of `WaitingLists`.
`NobodyStranded` speaks of the time until a thread installs a handler (`handlers = {}`; with
signals it is false, see section 4), and its proof counts the woken threads: a store
adds one mail and one woken receiver, a receiver that leaves takes its mail along.  The
counting is why `RtMailboxAssumption` asks for finitely many threads.

`MutexProofs`: `TypeOK` and `ListExact` for every set of threads and all bytes, signals and
the statements of the retry included, from `BaseInv == TypeOK /\ ListInv`.  `ListExact` excepts
exactly the stretch between `rt_thread_suspend` and the insertion (`call = "enlist"`), and
nothing after `halted`.  Then `OwnershipExact` and `UrgentFirst`, which speak
of the time until a thread installs a handler, from `OwnInv` (until then nobody is in the
retry).  Its part `SleepersWait` says that
sleepers own nothing; that an owner does not sleep is what keeps the waiting list sorted although
priorities change, because only owners' priorities change.

`KernelProofs`, first part: `TypeOK`, `HeadIsNext`, `EarlyFirst` and the refinement of `Countdown`
for every word of at least 5 values and all times below half of it, from

    TimerInv == TypeOK /\ ListOK /\ NotOverdue /\ HeadIsNext

`NotOverdue` is the key: a timer on the list has less than half of the word left, so that the sign
of an unsigned difference orders the time-outs.

Second part: `EventTypeOK`, `ListExact`, `NoSatisfiedWaiter`, `EventKept` and, for
`Flag = "PRIO"` (with FIFO it is false and not promised), `UrgentServedFirst`, for all threads and
flags, from

    EventInv == EventTypeOK /\ ListExact /\ NoSatisfiedWaiter /\ EventKept /\ Asleep /\ Queue

`Asleep` says that a call that has yet to be given its flags, or to return them, has no error
but what a signal has left: a time-out or a reset cannot meet a thread that a send has resumed.
A thread without a handler that a send resumes therefore returns with its flags; `Queue` is the order of the list.  The loop
of `rt_event_send` is modelled by what it does to each thread: it is resumed if and only if it is
satisfied by the flags that the resumed threads in front of it have left (`OnePass`).
`SendHasOneOutcome` proves that this determines who is resumed: such a set exists (`ServedIs`,
going along the list) and there is only one (`ServedOnly`, at the first place where two would
differ).  The flags shrink along the list, and to be satisfied is monotone in the flags: so
nobody who was passed over is satisfied at the end, nor by what a less urgent thread got.  A
cleared flag is in the hands of the first thread on the list that cleared it.

The induction over the list is done by hand.  The library states induction with the hypothesis as
an operator, which the provers cannot instantiate; `Least` and `UpTo` in `WaitingLists` state it
with a set and derive it from `NatLessThanWellFounded`.  `OrderExists` is the other use: a
set of places can be counted in order, so a list from which threads are unlinked is again a list.

`ShutdownProofs`, for every set of tasks, priorities and order of closing, whoever waits with a
time-out: `TypeOK`, `ListsMatchState`, `TimeoutFindsSleeper`, `OffMeansClosed`
and `HaltsOnlyOnLateSignal`, from

    CloseInv == Types /\ Control /\ ListsMatchState /\ Lists /\ ObjectsOpen /\ TSystemAlone
                /\ Progress /\ Asleep

`TSystemAlone` (from turnOffSystem on TSystem keeps the CPU), `Progress` (the tasks before the
index are closed) and `ObjectsOpen` (who is not closed has its object) carry the closing.
A thread that waits with a time-out may be put back into the ready table between the
critical sections of `rt_thread_detach` and be closed all the same (section 4).  `Lists` bounds
the damage: only such a thread is in the ready table while closed, and only while TSystem cannot
be preempted; `Asleep` says that its timer is gone when it is marked closed, so that no timer ever
finds a thread that is not suspended.  After TSystem has ended (`pc = "exit"`) such a thread may
run: `ListsMatchState` and the part of `OffMeansClosed` about states and the ready table
therefore speak of `Plain` threads, those that never wait with a time-out.

`TaskProofs`, first part: `BrushesTypeOK` and `SensorKeepsPulsing`.  `PulseInv` lists which
`start` each `offset` allows.

Second part: `TypeOK`, `JobsEndInPeriod`, `DeadlinesMet`, `FullIsSeen` and `TSystemGetsCPU` of
`Timing`, for every garbage level `FULL` and every set of start ticks; the periods, durations,
slices and priorities are the code's.  The run starts at ticks divisible by 90 and takes
FULL = 2; the theorems cover the other phases of main against the timers, and 30.  The inductive
invariant is a schedulability argument:

    TimingInv == Phases /\ Counted /\ Aged /\ FlagsKept /\ HigherDone /\ FifthDone
                 /\ CPUFree /\ Started /\ FullKept

`Phases` says that Task1 and Task2 are activated together with every second activation of Task3,
`HigherDone` bounds the work that these three have left at each distance from their timers,
`FifthDone` that of Task5 below them, wherever its timer falls, `CPUFree` the work of all tasks,
the alarms of Task4 that may still come included, until TSystem runs, and `FullKept` says that
Task3 looks at the bag between two tiles.  `TimingAssumption` asks for
`FULL # 0`: with 0 the bag is full before Task2 has cleaned a tile and `FullIsSeen` is false.

Only model-checked: everything under fairness (`MailBringsReturn`, `JobFollowsActivation`,
`HomeFromInside`, `ShutdownCompletes`, `MailStopsBrushes`, `ClosingEnds`, `InterruptEnds`), which
is outside this prover's reach, and the counterexamples.  Every invariant, action property
and refinement of the passing runs is also a theorem.

## 6. Not modelled, and the plan

Left, in order of use:

1. `RVC`: `Movement` and `Power` composed over the shared mailboxes, bag and SIGUSR2, with
   Task2 and Task3 no longer each other's environment.
2. The refinement of the bit-per-thread events of `Movement` and `Power` by `RtEvent`.
3. Several signal numbers per thread, `rt_signal_wait` and the siginfo pool (`signal.c`).
4. detach, delete and control of mutex, event and mailbox while threads wait.

Not planned: start-up error paths (each only prints and returns); semaphores, message queues,
memory and the idle thread's clean-up (the application does not use them, or only at
start-up); drivers, libcpu, board support and the vendored HAL, which are most of the
repository's lines and hold none of this program's logic.
