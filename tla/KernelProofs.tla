---------------------------- MODULE KernelProofs ----------------------------
(***************************************************************************)
(* Proofs about two parts of the kernel, RtTimer and RtEvent.              *)
(*                                                                         *)
(* RtTimer, for any number of timers, every width of the tick counter and  *)
(* all times below half of it: the timer list implements ideal countdown   *)
(* timers.  The argument rests on one bound.  Every timer on the list has  *)
(* fewer than Half ticks left, so the unsigned differences the code        *)
(* compares are the differences of the ticks left, on both sides of the    *)
(* wrap-around.                                                            *)
(*                                                                         *)
(* RtEvent, for any threads and flags: the loop of rt_event_send has one   *)
(* outcome, serves everyone it can serve and loses no flag.  The argument  *)
(* is that the flags only shrink along the list, so who is passed over is  *)
(* not served by what is left either, and that a cleared flag is in the    *)
(* hands of the first thread that cleared it.                              *)
(***************************************************************************)
EXTENDS RtTimer, RtEvent, WaitingLists, FiniteSetTheorems, TLAPS

Left(t) == Sub(timeout[t], tick)

\* Nobody on the list is overdue, and outside the interrupt nobody is even due.
NotOverdue ==
    \A t \in ToSet(list) : /\ Left(t) < Half
                           /\ pc = "thread" => Left(t) > 0

\* What is on the list is active; a timer whose callback runs is on the temporary
\* list alone.
ListOK ==
    /\ IsInjective(list)
    /\ ToSet(list) \subseteq on
    /\ temp \cap ToSet(list) = {}
    /\ \A t, u \in temp : t = u
    /\ pc # "callback" => temp = {}

TimerInv == TypeOK /\ ListOK /\ NotOverdue /\ HeadIsNext

-----------------------------------------------------------------------------
(* Arithmetic of the tick counter *)

LEMMA HalfOK == Half \in Nat /\ Half > 1 /\ 2 * Half < Word /\ Word \in Nat
<1>1. Word \in Nat /\ (Word - 1) \div 2 > 1
  BY TimerAssumption DEF Half
<1>2. Word > 0
  BY <1>1
<1> QED BY <1>1, <1>2 DEF Half

LEMMA AddSub ==
    ASSUME NEW a \in 0 .. Word - 1, NEW b \in 0 .. Word - 1
    PROVE  /\ Add(a, b) \in 0 .. Word - 1 /\ Sub(a, b) \in 0 .. Word - 1
           /\ Sub(Add(a, b), a) = b
BY HalfOK DEF Add, Sub

\* One more tick is one tick less for everybody who has one left.
LEMMA TickTakesOne ==
    ASSUME NEW a \in 0 .. Word - 1, NEW now \in 0 .. Word - 1, Sub(a, now) > 0
    PROVE  Sub(a, Add(now, 1)) = Sub(a, now) - 1
BY HalfOK DEF Add, Sub

\* The test of rt_timer_check.
LEMMA DueMeansNoneLeft ==
    ASSUME NEW a \in 0 .. Word - 1, NEW now \in 0 .. Word - 1, Sub(a, now) < Half
    PROVE  Sub(now, a) < Half <=> Sub(a, now) = 0
BY HalfOK DEF Sub

\* The test of rt_timer_start.
LEMMA DifferenceCompares ==
    ASSUME NEW a \in 0 .. Word - 1, NEW now \in 0 .. Word - 1, Sub(a, now) < Half,
           NEW n \in 1 .. Half - 1, NEW d, d = Sub(a, Add(now, n))
    PROVE  /\ d = 0 \/ d >= Half => Sub(a, now) <= n
           /\ d # 0 /\ d < Half => n < Sub(a, now)
BY HalfOK DEF Add, Sub

-----------------------------------------------------------------------------
(* The list *)

LEMMA ListIs == TimerInv => IsList(list, Timers)
BY DEF TimerInv, TypeOK, ListOK, IsList

LEMMA RemainingOK ==
    TypeOK => /\ Remaining \in [Timers -> 0 .. Word - 1]
              /\ \A t \in Timers : Left(t) \in 0 .. Word - 1
<1> SUFFICES ASSUME TypeOK
             PROVE  /\ Remaining \in [Timers -> 0 .. Word - 1]
                    /\ \A t \in Timers : Left(t) \in 0 .. Word - 1
  OBVIOUS
<1>1. \A t \in Timers : Sub(timeout[t], tick) \in 0 .. Word - 1
  BY AddSub DEF TypeOK
<1> QED BY <1>1, HalfOK DEF Remaining, Left

LEMMA SortedIs == HeadIsNext <=> Sorted(list, Remaining)
BY DEF HeadIsNext, Sorted

LEMMA MemberIs ==
    ASSUME NEW S, NEW l \in Seq(S)
    PROVE  /\ ToSet(l) \subseteq S
           /\ \A i \in 1 .. Len(l) : l[i] \in ToSet(l)
           /\ \A t \in ToSet(l) : \E i \in 1 .. Len(l) : l[i] = t
BY DEF ToSet

\* A list stays in order under any key that agrees on its members.
LEMMA SortedSame ==
    ASSUME NEW S, NEW l \in Seq(S), NEW P, NEW Q, Sorted(l, P),
           \A t \in ToSet(l) : P[t] = Q[t]
    PROVE  Sorted(l, Q)
BY MemberIs DEF Sorted

\* What the body of rt_timer_start does to the list.
LEMMA StartInserts ==
    ASSUME TimerInv, NEW t \in Timers, start(t), tick' = tick
    PROVE  /\ IsList(list', Timers) /\ ToSet(list') = ToSet(list) \cup {t}
           /\ timeout' = [timeout EXCEPT ![t] = Add(tick, init[t])]
           /\ timeout' \in [Timers -> 0 .. Word - 1]
           /\ Remaining' = [Remaining EXCEPT ![t] = init[t]]
           /\ Sub(timeout[t], tick)' = init[t] /\ init[t] \in 1 .. Half - 1
           /\ HeadIsNext'
<1> DEFINE rest == RemoveFirst(list, t)
           to == Add(tick, init[t])
<1>1. PICK i \in 1 .. Len(rest) + 1 : Position(rest, to, i) /\ list' = InsertAt(rest, i, t)
  BY DEF start
<1>2. /\ timeout' = [timeout EXCEPT ![t] = to]
  BY DEF start
<1>3. IsList(list, Timers) /\ IsList(rest, Timers) /\ ToSet(rest) = ToSet(list) \ {t}
  BY ListIs, RemoveList
<1> HIDE DEF rest
<1>4. t \notin ToSet(rest)
  BY <1>3
<1>5. IsList(list', Timers) /\ ToSet(list') = ToSet(list) \cup {t}
  BY <1>1, <1>3, <1>4, InsertList
<1>6. /\ init[t] \in 1 .. Half - 1 /\ init[t] \in 0 .. Word - 1
      /\ tick \in 0 .. Word - 1 /\ timeout \in [Timers -> 0 .. Word - 1]
  <2>1. init[t] \in 1 .. Half - 1
    BY TimerAssumption DEF TimerInv, TypeOK
  <2> QED BY <2>1, HalfOK DEF TimerInv, TypeOK
<1>7. to \in 0 .. Word - 1 /\ Sub(to, tick) = init[t]
  BY <1>6, AddSub
<1> HIDE DEF to
<1>8. timeout' \in [Timers -> 0 .. Word - 1] /\ timeout'[t] = to
      /\ \A u \in Timers : u # t => timeout'[u] = timeout[u]
  BY <1>2, <1>6, <1>7
<1>9. Sub(timeout[t], tick)' = init[t]
  BY <1>7, <1>8
<1>10. Remaining' = [Remaining EXCEPT ![t] = init[t]]
  <2>1. \A u \in Timers : (IF u \in ToSet(list') THEN Sub(timeout'[u], tick') ELSE 0)
                          = IF u = t THEN init[t] ELSE Remaining[u]
    BY <1>5, <1>7, <1>8 DEF Remaining
  <2> QED BY <2>1 DEF Remaining
<1>11. Sorted(rest, Remaining)
  <2>1. Sorted(list, Remaining)
    BY SortedIs DEF TimerInv
  <2> QED BY <2>1, <1>3, RemoveSorted DEF rest
<1>12. rest \in Seq(Timers) /\ Remaining \in [Timers -> 0 .. Word - 1]
  BY <1>3, RemainingOK DEF IsList, TimerInv
<1>13. \A u \in ToSet(rest) : Remaining[u] = Remaining'[u]
  BY <1>4, <1>10, <1>12, MemberIs
<1>14. Sorted(rest, Remaining')
  BY <1>11, <1>12, <1>13, SortedSame
<1>15. Remaining' \in [Timers -> Int] /\ Remaining'[t] = init[t]
  BY <1>6, <1>10, <1>12, HalfOK
<1>16. \A j \in 1 .. Len(rest) : /\ rest[j] \in Timers
                                /\ Remaining'[rest[j]] = Sub(timeout[rest[j]], tick)
                                /\ Sub(timeout[rest[j]], tick) < Half
                                /\ timeout[rest[j]] \in 0 .. Word - 1
  <2> SUFFICES ASSUME NEW j \in 1 .. Len(rest)
               PROVE  /\ rest[j] \in Timers
                      /\ Remaining'[rest[j]] = Sub(timeout[rest[j]], tick)
                      /\ Sub(timeout[rest[j]], tick) < Half
                      /\ timeout[rest[j]] \in 0 .. Word - 1
    OBVIOUS
  <2>1. rest[j] \in ToSet(rest) /\ rest[j] \in Timers /\ rest[j] \in ToSet(list)
    BY <1>3, <1>12, MemberIs
  <2>2. Remaining'[rest[j]] = Remaining[rest[j]]
    BY <1>13, <2>1
  <2>3. Remaining[rest[j]] = Sub(timeout[rest[j]], tick)
    BY <2>1 DEF Remaining
  <2>4. Sub(timeout[rest[j]], tick) < Half
    BY <2>1 DEF TimerInv, NotOverdue, Left
  <2> QED BY <1>6, <2>1, <2>2, <2>3, <2>4
<1>17. \A j \in 1 .. i - 1 : Remaining'[rest[j]] <= Remaining'[t]
  <2> SUFFICES ASSUME NEW j \in 1 .. i - 1 PROVE Remaining'[rest[j]] <= Remaining'[t]
    OBVIOUS
  <2>1. j \in 1 .. Len(rest)
    BY <1>12
  <2>2. Sub(timeout[rest[j]], to) = 0 \/ Sub(timeout[rest[j]], to) >= Half
    BY <1>1 DEF Position
  <2>3. Sub(timeout[rest[j]], tick) <= init[t]
    BY <2>1, <2>2, <1>6, <1>16, DifferenceCompares DEF to
  <2> QED BY <2>1, <2>3, <1>15, <1>16
<1>18. i <= Len(rest) => Remaining'[t] < Remaining'[rest[i]]
  <2> SUFFICES ASSUME i <= Len(rest) PROVE Remaining'[t] < Remaining'[rest[i]]
    OBVIOUS
  <2>1. i \in 1 .. Len(rest)
    BY <1>12
  <2>2. Sub(timeout[rest[i]], to) # 0 /\ Sub(timeout[rest[i]], to) < Half
    BY <1>1 DEF Position
  <2>3. init[t] < Sub(timeout[rest[i]], tick)
    BY <2>1, <2>2, <1>6, <1>16, DifferenceCompares DEF to
  <2> QED BY <2>1, <2>3, <1>15, <1>16
<1>19. HeadIsNext'
  <2>1. Sorted(InsertAt(rest, i, t), Remaining')
    BY <1>12, <1>14, <1>15, <1>17, <1>18, InsertSorted
  <2> QED BY <1>1, <2>1 DEF HeadIsNext, Sorted
<1> QED BY <1>2, <1>5, <1>6, <1>8, <1>9, <1>10, <1>19 DEF to

\* What _timer_remove does to the list.
LEMMA RemoveLeaves ==
    ASSUME TimerInv, NEW t \in Timers, list' = RemoveFirst(list, t),
           tick' = tick, timeout' = timeout
    PROVE  /\ IsList(list', Timers) /\ ToSet(list') = ToSet(list) \ {t}
           /\ Remaining' = [Remaining EXCEPT ![t] = 0]
           /\ HeadIsNext'
<1>1. IsList(list, Timers) /\ IsList(list', Timers) /\ ToSet(list') = ToSet(list) \ {t}
  BY ListIs, RemoveList
<1>2. Remaining' = [Remaining EXCEPT ![t] = 0]
  <2>1. \A u \in Timers : (IF u \in ToSet(list') THEN Sub(timeout'[u], tick') ELSE 0)
                          = IF u = t THEN 0 ELSE Remaining[u]
    BY <1>1 DEF Remaining
  <2> QED BY <2>1 DEF Remaining
<1>3. Sorted(list', Remaining)
  BY <1>1, RemoveSorted, SortedIs DEF TimerInv
<1>4. list' \in Seq(Timers) /\ Remaining \in [Timers -> 0 .. Word - 1]
  BY <1>1, RemainingOK DEF IsList, TimerInv
<1>5. \A u \in ToSet(list') : Remaining[u] = Remaining'[u]
  BY <1>1, <1>2, <1>4, MemberIs
<1>6. Sorted(list', Remaining')
  BY <1>3, <1>4, <1>5, SortedSame
<1> QED BY <1>1, <1>2, <1>6 DEF HeadIsNext, Sorted

-----------------------------------------------------------------------------
(* The invariant *)

LEMMA InitInv == Init => TimerInv
<1> SUFFICES ASSUME Init PROVE TimerInv
  OBVIOUS
<1>1. list = << >> /\ ToSet(list) = {} /\ IsInjective(list) /\ Len(list) = 0
  BY EmptyList DEF Init, IsList
<1>2. TypeOK
  BY <1>1, HalfOK DEF Init, TypeOK
<1> QED BY <1>1, <1>2 DEF Init, TimerInv, ListOK, NotOverdue, HeadIsNext

\* rt_timer_start keeps the invariant, from a thread, a callback or rt_timer_check.
LEMMA StartKeeps ==
    ASSUME TimerInv, NEW t \in Timers, start(t), tick' = tick, UNCHANGED <<kind, object, stopping>>,
           pc' \in {"thread", "check", "callback"}, pc' = "thread" => pc = "thread",
           temp' \subseteq temp \ {t}, pc' # "callback" => temp' = {}
    PROVE  TimerInv'
<1>1. /\ IsList(list', Timers) /\ ToSet(list') = ToSet(list) \cup {t}
      /\ timeout' = [timeout EXCEPT ![t] = Add(tick, init[t])]
      /\ timeout' \in [Timers -> 0 .. Word - 1]
      /\ Sub(timeout[t], tick)' = init[t] /\ init[t] \in 1 .. Half - 1
      /\ HeadIsNext'
  BY StartInserts
<1>2. on' = on \cup {t}
      /\ older' = {p \in older : t \notin {p[1], p[2]}} \cup (ToSet(RemoveFirst(list, t)) \X {t})
  BY DEF start
<1>3. ToSet(RemoveFirst(list, t)) \subseteq Timers
  BY ListIs, RemoveList, MemberIs DEF IsList
<1>4. TypeOK'
  BY <1>1, <1>2, <1>3 DEF TimerInv, TypeOK, IsList, kind
<1>5. ListOK'
  BY <1>1, <1>2 DEF TimerInv, ListOK, IsList
<1>6. NotOverdue'
  <2> SUFFICES ASSUME NEW u \in ToSet(list')
               PROVE  Left(u)' < Half /\ (pc' = "thread" => Left(u)' > 0)
    BY DEF NotOverdue
  <2>1. CASE u = t
    BY <1>1, <2>1, HalfOK DEF Left
  <2>2. CASE u # t
    <3>1. u \in ToSet(list) /\ u \in Timers
      BY <1>1, <2>2, MemberIs DEF IsList
    <3>2. timeout'[u] = timeout[u]
      BY <1>1, <2>2, <3>1 DEF TimerInv, TypeOK
    <3> QED BY <3>1, <3>2 DEF TimerInv, NotOverdue, Left
  <2> QED BY <2>1, <2>2
<1> QED BY <1>1, <1>4, <1>5, <1>6 DEF TimerInv

LEMMA RemoveKeeps ==
    ASSUME TimerInv, NEW t \in Timers, timer_remove(t), pc' = pc,
           UNCHANGED <<tick, timeout, kind>>, object' \subseteq object,
           stopping' \subseteq stopping
    PROVE  TimerInv'
<1>1. /\ list' = RemoveFirst(list, t) /\ temp' = temp \ {t} /\ on' = on \ {t}
      /\ older' \subseteq older
  BY DEF timer_remove
<1>2. /\ IsList(list', Timers) /\ ToSet(list') = ToSet(list) \ {t} /\ HeadIsNext'
  BY <1>1, RemoveLeaves
<1>3. TypeOK'
  BY <1>1, <1>2 DEF TimerInv, TypeOK, IsList, kind
<1>4. ListOK'
  BY <1>1, <1>2 DEF TimerInv, ListOK, IsList
<1>5. NotOverdue'
  BY <1>2 DEF TimerInv, NotOverdue, Left
<1> QED BY <1>2, <1>3, <1>4, <1>5 DEF TimerInv

\* The tick: everybody on the list has one tick less.
LEMMA TickCounts ==
    ASSUME TimerInv, rt_tick_increase
    PROVE  /\ tick' \in 0 .. Word - 1
           /\ \A t \in ToSet(list) : /\ t \in Timers /\ Left(t) \in 1 .. Half - 1
                                     /\ Left(t)' = Left(t) - 1
           /\ Remaining' = [t \in Timers |-> IF t \in ToSet(list) THEN Remaining[t] - 1 ELSE 0]
<1>1. tick' = Add(tick, 1) /\ timeout' = timeout /\ list' = list /\ pc = "thread"
  BY DEF rt_tick_increase
<1>2. tick \in 0 .. Word - 1 /\ timeout \in [Timers -> 0 .. Word - 1] /\ list \in Seq(Timers)
  BY DEF TimerInv, TypeOK
<1>3. tick' \in 0 .. Word - 1
  <2>1. 1 \in 0 .. Word - 1
    BY HalfOK
  <2> QED BY <1>1, <1>2, <2>1, AddSub
<1>4. ASSUME NEW t \in ToSet(list)
      PROVE  t \in Timers /\ Left(t) \in 1 .. Half - 1 /\ Left(t)' = Left(t) - 1
  <2>1. t \in Timers /\ timeout[t] \in 0 .. Word - 1
    BY <1>2, MemberIs
  <2>2. Left(t) \in 0 .. Word - 1
    BY <2>1, RemainingOK DEF TimerInv
  <2>3. Left(t) < Half /\ Left(t) > 0
    BY <1>1 DEF TimerInv, NotOverdue
  <2>4. Sub(timeout[t], Add(tick, 1)) = Sub(timeout[t], tick) - 1
    BY <1>2, <2>1, <2>3, TickTakesOne DEF Left
  <2> QED BY <1>1, <2>1, <2>2, <2>3, <2>4, HalfOK DEF Left
<1>5. Remaining' = [t \in Timers |-> IF t \in ToSet(list) THEN Remaining[t] - 1 ELSE 0]
  <2>1. \A t \in Timers : (IF t \in ToSet(list') THEN Sub(timeout'[t], tick') ELSE 0)
                          = IF t \in ToSet(list) THEN Remaining[t] - 1 ELSE 0
    BY <1>1, <1>4 DEF Remaining, Left
  <2> QED BY <2>1 DEF Remaining
<1> QED BY <1>3, <1>4, <1>5

LEMMA TickKeeps ==
    ASSUME TimerInv, rt_tick_increase
    PROVE  TimerInv'
<1>1. /\ list' = list /\ pc = "thread" /\ pc' = "check" /\ temp' = temp /\ on' = on
      /\ UNCHANGED <<timeout, kind, object, stopping, older>>
  BY DEF rt_tick_increase
<1>2. TypeOK'
  BY <1>1, TickCounts DEF TimerInv, TypeOK, kind
<1>3. ListOK'
  BY <1>1 DEF TimerInv, ListOK
<1>4. NotOverdue'
  BY <1>1, TickCounts, HalfOK DEF NotOverdue
<1>5. HeadIsNext'
  <2> SUFFICES ASSUME NEW i \in 1 .. Len(list), NEW j \in 1 .. Len(list), i < j
               PROVE  Remaining'[list[i]] <= Remaining'[list[j]]
    BY <1>1 DEF HeadIsNext
  <2>1. /\ list[i] \in ToSet(list) /\ list[i] \in Timers
        /\ list[j] \in ToSet(list) /\ list[j] \in Timers
    BY MemberIs DEF TimerInv, TypeOK
  <2>2. Remaining[list[i]] <= Remaining[list[j]]
    BY DEF TimerInv, HeadIsNext
  <2>3. Remaining[list[i]] \in 0 .. Word - 1 /\ Remaining[list[j]] \in 0 .. Word - 1
    BY <2>1, RemainingOK DEF TimerInv
  <2>4. /\ Remaining'[list[i]] = Remaining[list[i]] - 1
        /\ Remaining'[list[j]] = Remaining[list[j]] - 1
    BY <2>1, TickCounts
  <2> QED BY <2>2, <2>3, <2>4, HalfOK
<1> QED BY <1>2, <1>3, <1>4, <1>5 DEF TimerInv

\* A timer that fires has no tick left.
LEMMA FireTakesHead ==
    ASSUME TimerInv, check_fires
    PROVE  \E h \in Timers :
              /\ h = Head(list) /\ h \in ToSet(list) /\ Remaining[h] = 0
              /\ IsList(list', Timers) /\ ToSet(list') = ToSet(list) \ {h}
              /\ Remaining' = Remaining
              /\ HeadIsNext'
<1>1. /\ list # << >> /\ Sub(tick, timeout[Head(list)]) < Half
      /\ list' = Tail(list) /\ tick' = tick /\ timeout' = timeout
  BY DEF check_fires, HeadIsDue, IsDue
<1>2. /\ Head(list) \in ToSet(list) /\ Head(list) \in Timers
      /\ IsList(list', Timers) /\ ToSet(list') = ToSet(list) \ {Head(list)}
  BY <1>1, ListIs, TailList
<1>3. PICK h \in Timers : h = Head(list)
  BY <1>2
<1>4. h \in ToSet(list) /\ ToSet(list') = ToSet(list) \ {h}
  BY <1>2, <1>3
<1>5. Remaining[h] = 0
  <2>1. timeout[h] \in 0 .. Word - 1 /\ tick \in 0 .. Word - 1
    BY DEF TimerInv, TypeOK
  <2>2. Sub(timeout[h], tick) < Half
    BY <1>4 DEF TimerInv, NotOverdue, Left
  <2>3. Sub(timeout[h], tick) = 0
    BY <1>1, <1>3, <2>1, <2>2, DueMeansNoneLeft
  <2> QED BY <1>4, <2>3 DEF Remaining
<1>6. Remaining' = Remaining
  <2>1. \A u \in Timers : (IF u \in ToSet(list') THEN Sub(timeout'[u], tick') ELSE 0)
                          = Remaining[u]
    BY <1>1, <1>4, <1>5 DEF Remaining
  <2>2. Remaining \in [Timers -> 0 .. Word - 1]
    BY RemainingOK DEF TimerInv
  <2> QED BY <2>1, <2>2 DEF Remaining
<1>7. HeadIsNext'
  <2>1. list \in Seq(Timers) /\ Sorted(list, Remaining)
    BY SortedIs DEF TimerInv, TypeOK
  <2>2. Sorted(list', Remaining)
    BY <1>1, <2>1, TailSorted
  <2> QED BY <1>6, <2>2 DEF HeadIsNext, Sorted
<1> QED BY <1>2, <1>3, <1>4, <1>5, <1>6, <1>7

LEMMA CheckKeeps ==
    ASSUME TimerInv, rt_timer_check
    PROVE  TimerInv'
<1>1. CASE check_fires
  <2>1. PICK h \in Timers :
              /\ h = Head(list) /\ h \in ToSet(list) /\ Remaining[h] = 0
              /\ IsList(list', Timers) /\ ToSet(list') = ToSet(list) \ {h}
              /\ HeadIsNext'
    BY <1>1, FireTakesHead
  <2>2. /\ pc = "check" /\ pc' = "callback" /\ temp' = {h} /\ on \ {h} \subseteq on'
        /\ on' \subseteq on /\ older' \subseteq older
        /\ UNCHANGED <<tick, timeout, kind, object, stopping>>
    BY <1>1, <2>1 DEF check_fires
  <2>3. TypeOK'
    BY <2>1, <2>2 DEF TimerInv, TypeOK, IsList, kind
  <2>4. ListOK'
    BY <2>1, <2>2 DEF TimerInv, ListOK, IsList
  <2>5. NotOverdue'
    BY <2>1, <2>2 DEF TimerInv, NotOverdue, Left
  <2> QED BY <2>1, <2>3, <2>4, <2>5 DEF TimerInv
<1>2. CASE check_returns
  <2>1. CASE \E t \in temp \cap periodic \cap on : start(t)
    <3>1. PICK t \in temp \cap periodic \cap on : start(t)
      BY <2>1
    <3>2. t \in Timers
      BY <3>1 DEF TimerInv, TypeOK
    <3>3. /\ tick' = tick /\ UNCHANGED <<kind, object, stopping>> /\ pc' = "check" /\ temp' = {}
      BY <1>2 DEF check_returns
    <3> QED BY <3>1, <3>2, <3>3, StartKeeps
  <2>2. CASE UNCHANGED <<list, timeout, on, older>>
    <3>1. /\ UNCHANGED <<tick, init, periodic, object, stopping, list, timeout, on, older>>
          /\ pc = "callback" /\ pc' = "check" /\ temp' = {}
      BY <1>2, <2>2 DEF check_returns, kind
    <3>2. TypeOK' /\ ListOK'
      BY <3>1 DEF TimerInv, TypeOK, ListOK
    <3>3. NotOverdue' /\ HeadIsNext'
      BY <3>1 DEF TimerInv, NotOverdue, HeadIsNext, Left, Remaining
    <3> QED BY <3>2, <3>3 DEF TimerInv
  <2> QED BY <1>2, <2>1, <2>2 DEF check_returns
<1>3. CASE check_ends
  <2>1. /\ UNCHANGED <<tick, init, periodic, object, stopping, list, timeout, on, older, temp>>
        /\ pc = "check" /\ pc' = "thread" /\ ~HeadIsDue
    BY <1>3 DEF check_ends, kind
  <2>2. TypeOK' /\ ListOK'
    BY <2>1 DEF TimerInv, TypeOK, ListOK
  <2>3. HeadIsNext'
    BY <2>1 DEF TimerInv, HeadIsNext, Left, Remaining
  <2>4. ASSUME NEW t \in ToSet(list) PROVE Left(t) > 0 /\ Left(t) < Half
    <3>1. PICK i \in 1 .. Len(list) : list[i] = t
      BY MemberIs DEF TimerInv, TypeOK
    <3>2. list # << >> /\ 1 \in 1 .. Len(list) /\ Head(list) = list[1]
      BY <3>1 DEF TimerInv, TypeOK
    <3>3. list[1] \in ToSet(list) /\ list[1] \in Timers /\ t \in Timers
      BY <3>2, MemberIs DEF TimerInv, TypeOK
    <3>4. /\ timeout[list[1]] \in 0 .. Word - 1 /\ tick \in 0 .. Word - 1
          /\ Sub(timeout[list[1]], tick) < Half
      BY <3>3 DEF TimerInv, TypeOK, NotOverdue, Left
    <3>5. ~(Sub(tick, timeout[list[1]]) < Half)
      BY <2>1, <3>2 DEF HeadIsDue, IsDue
    <3>6. Sub(timeout[list[1]], tick) # 0
      BY <3>4, <3>5, DueMeansNoneLeft
    <3>7. Remaining[list[1]] = Left(list[1]) /\ Remaining[t] = Left(t)
      BY <3>3 DEF Remaining, Left
    <3>8. Left(list[1]) \in 0 .. Word - 1 /\ Left(t) \in 0 .. Word - 1
      BY <3>3, RemainingOK DEF TimerInv
    <3>9. Left(list[1]) <= Left(t)
      <4>1. CASE i = 1
        BY <4>1, <3>1, <3>8
      <4>2. CASE i # 1
        <5>1. Remaining[list[1]] <= Remaining[list[i]]
          BY <4>2, <3>2 DEF TimerInv, HeadIsNext
        <5> QED BY <5>1, <3>1, <3>7
      <4> QED BY <4>1, <4>2
    <3>10. Left(t) < Half
      BY DEF TimerInv, NotOverdue
    <3> QED BY <3>6, <3>8, <3>9, <3>10, HalfOK DEF Left
  <2>5. NotOverdue'
    BY <2>1, <2>4 DEF NotOverdue, Left
  <2> QED BY <2>2, <2>3, <2>5 DEF TimerInv
<1> QED BY <1>1, <1>2, <1>3 DEF rt_timer_check

LEMMA NextKeeps == TimerInv /\ [Next]_vars => TimerInv'
<1> SUFFICES ASSUME TimerInv, [Next]_vars PROVE TimerInv'
  OBVIOUS
<1>1. CASE rt_tick_increase
  BY <1>1, TickKeeps
<1>2. CASE rt_timer_check
  BY <1>2, CheckKeeps
<1>3. ASSUME NEW t \in Timers, rt_timer_start(t) PROVE TimerInv'
  <2>1. /\ start(t) /\ temp' = temp \ {t} /\ tick' = tick /\ pc' = pc
        /\ UNCHANGED <<kind, object, stopping>>
    BY <1>3 DEF rt_timer_start
  <2>2. pc \in {"thread", "check", "callback"} /\ (pc # "callback" => temp = {})
    BY DEF TimerInv, TypeOK, ListOK
  <2> QED BY <2>1, <2>2, StartKeeps
<1>4. ASSUME NEW t \in Timers, stop_tests(t) PROVE TimerInv'
  <2>1. /\ UNCHANGED <<tick, list, timeout, init, periodic, on, object, temp, pc, older>>
        /\ stopping' = stopping \cup {t}
    BY <1>4 DEF stop_tests, kind
  <2>2. TypeOK' /\ ListOK'
    BY <2>1 DEF TimerInv, TypeOK, ListOK
  <2>3. NotOverdue' /\ HeadIsNext'
    BY <2>1 DEF TimerInv, NotOverdue, HeadIsNext, Left, Remaining
  <2> QED BY <2>2, <2>3 DEF TimerInv
<1>5. ASSUME NEW t \in Timers, stop_removes(t) \/ stop_in_callback(t) \/ rt_timer_detach(t)
      PROVE  TimerInv'
  <2>1. /\ timer_remove(t) /\ pc' = pc /\ UNCHANGED <<tick, timeout, kind>>
        /\ object' \subseteq object /\ stopping' \subseteq stopping
    BY <1>5 DEF stop_removes, stop_in_callback, rt_timer_detach
  <2> QED BY <2>1, RemoveKeeps
<1>6. ASSUME NEW t \in Timers, rt_timer_control(t) PROVE TimerInv'
  <2>1. /\ UNCHANGED <<tick, list, timeout, on, object, temp, stopping, pc, older>>
        /\ init' \in [Timers -> Times] /\ periodic' \subseteq Timers
    BY <1>6 DEF rt_timer_control, TimerInv, TypeOK
  <2>2. TypeOK' /\ ListOK'
    BY <2>1 DEF TimerInv, TypeOK, ListOK
  <2>3. NotOverdue' /\ HeadIsNext'
    BY <2>1 DEF TimerInv, NotOverdue, HeadIsNext, Left, Remaining
  <2> QED BY <2>2, <2>3 DEF TimerInv
<1>7. CASE UNCHANGED vars
  <2>1. UNCHANGED <<tick, list, timeout, init, periodic, on, object, temp, stopping, pc, older>>
    BY <1>7 DEF vars, kind
  <2>2. TypeOK' /\ ListOK'
    BY <2>1 DEF TimerInv, TypeOK, ListOK
  <2>3. NotOverdue' /\ HeadIsNext'
    BY <2>1 DEF TimerInv, NotOverdue, HeadIsNext, Left, Remaining
  <2> QED BY <2>2, <2>3 DEF TimerInv
<1> QED BY <1>1, <1>2, <1>3, <1>4, <1>5, <1>6, <1>7 DEF Next, Uses

THEOREM InvariantHolds == Spec => []TimerInv
BY InitInv, NextKeeps, PTL DEF Spec

\* Every variable of the timer management keeps its type; the tick counter and the
\* time-outs stay within rt_tick_t.
THEOREM TypeCorrect == Spec => []TypeOK
<1>1. TimerInv => TypeOK
  BY DEF TimerInv
<1> QED BY <1>1, InvariantHolds, PTL

\* The head of _timer_list is the timer that is due next, also across the
\* wrap-around of rt_tick.
THEOREM HeadIsNextHolds == Spec => []HeadIsNext
<1>1. TimerInv => HeadIsNext
  BY DEF TimerInv
<1> QED BY <1>1, InvariantHolds, PTL

-----------------------------------------------------------------------------
(* Timers for the same tick *)

\* The pairs of history that do not name t.
Without(t) == {p \in older : t \notin {p[1], p[2]}}

LEMMA PairStays ==
    ASSUME NEW t, NEW u, NEW v, <<u, v>> \in older, u # t, v # t
    PROVE  <<u, v>> \in Without(t)
BY DEF Without

\* Taking one timer off the list leaves the others in their order.
LEMMA EarlyRemove ==
    ASSUME TimerInv, EarlyFirst, NEW t \in Timers, NEW l, l = RemoveFirst(list, t),
           NEW i \in 1 .. Len(l), NEW j \in 1 .. Len(l), i < j,
           timeout[l[i]] = timeout[l[j]]
    PROVE  <<l[i], l[j]>> \in Without(t)
<1>1. IsList(list, Timers) /\ IsList(l, Timers) /\ ToSet(l) = ToSet(list) \ {t}
  BY ListIs, RemoveList
<1>2. l[i] # t /\ l[j] # t
  BY <1>1, MemberIs DEF IsList
<1>3. \E m, n \in 1 .. Len(list) : m < n /\ l[i] = list[m] /\ l[j] = list[n]
  <2>1. CASE l = list
    BY <2>1
  <2>2. CASE \E k \in 1 .. Len(list) : list[k] = t /\ RemoveFirst(list, t) = RemoveAt(list, k)
    <3>1. PICK k \in 1 .. Len(list) : l = RemoveAt(list, k)
      BY <2>2
    <3>2. list \in Seq(Timers) /\ Len(list) \in Nat
      BY <1>1 DEF IsList
    <3>3. /\ Len(l) = Len(list) - 1
          /\ \A x \in 1 .. Len(list) - 1 : l[x] = IF x < k THEN list[x] ELSE list[x + 1]
      <4>1. /\ Len(RemoveAt(list, k)) = Len(list) - 1
            /\ \A x \in 1 .. Len(list) - 1 :
                  RemoveAt(list, k)[x] = IF x < k THEN list[x] ELSE list[x + 1]
        BY <3>2, RemoveElems
      <4> QED BY ONLY <3>1, <4>1
    <3> DEFINE m == IF i < k THEN i ELSE i + 1
               n == IF j < k THEN j ELSE j + 1
    <3>4. m \in 1 .. Len(list) /\ n \in 1 .. Len(list) /\ m < n
      BY <3>2, <3>3
    <3>5. l[i] = list[m] /\ l[j] = list[n]
      BY <3>2, <3>3
    <3> QED BY <3>4, <3>5
  <2> QED BY <1>1, <2>1, <2>2, RemoveFirstIs
<1>4. <<l[i], l[j]>> \in older
  BY <1>3 DEF EarlyFirst
<1> QED BY <1>2, <1>4, PairStays

LEMMA EarlyStart ==
    ASSUME TimerInv, EarlyFirst, NEW t \in Timers, start(t), tick' = tick
    PROVE  EarlyFirst'
<1> DEFINE rest == RemoveFirst(list, t)
           to == Add(tick, init[t])
<1>1. PICK p \in 1 .. Len(rest) + 1 : Position(rest, to, p) /\ list' = InsertAt(rest, p, t)
  BY DEF start
<1>2. /\ timeout' = [timeout EXCEPT ![t] = to] /\ older' = Without(t) \cup (ToSet(rest) \X {t})
  BY DEF start, Without
<1>3. IsList(rest, Timers) /\ ToSet(rest) = ToSet(list) \ {t} /\ rest \in Seq(Timers)
  BY ListIs, RemoveList DEF IsList
<1>4. \A i, j \in 1 .. Len(rest) :
          i < j /\ timeout[rest[i]] = timeout[rest[j]] => <<rest[i], rest[j]>> \in Without(t)
  BY EarlyRemove
<1>5. /\ HeadIsNext' /\ Remaining' = [Remaining EXCEPT ![t] = init[t]]
      /\ ToSet(list') = ToSet(list) \cup {t} /\ IsList(list', Timers)
  BY StartInserts
<1> HIDE DEF rest
<1>6. /\ Len(list') = Len(rest) + 1 /\ Len(rest) \in Nat
      /\ \A j \in 1 .. Len(rest) + 1 :
            list'[j] = IF j < p THEN rest[j] ELSE IF j = p THEN t ELSE rest[j - 1]
  <2>1. HasInserted(list', rest, p, t, Timers)
    BY <1>1, <1>3, InsertElems
  <2>2. Len(rest) \in Nat
    BY <1>3
  <2> QED BY <2>1, <2>2 DEF HasInserted
<1>7. \A j \in 1 .. Len(rest) : /\ rest[j] \in ToSet(rest) /\ rest[j] \in Timers
                               /\ rest[j] # t
  BY <1>3, MemberIs
<1>8. \A u \in Timers : u # t => timeout'[u] = timeout[u]
  BY <1>2 DEF TimerInv, TypeOK
<1>9. timeout'[t] = to
  BY <1>2 DEF TimerInv, TypeOK
<1>10. \A j \in 1 .. Len(rest) : j >= p => timeout[rest[j]] # to
  <2> SUFFICES ASSUME NEW j \in 1 .. Len(rest), j >= p PROVE timeout[rest[j]] # to
    OBVIOUS
  <2>1. /\ p \in 1 .. Len(rest) /\ p \in 1 .. Len(list') /\ p + 1 \in 1 .. Len(list')
        /\ j + 1 \in 1 .. Len(list') /\ p < p + 1 /\ p + 1 <= j + 1
        /\ list'[p] = t /\ list'[p + 1] = rest[p] /\ list'[j + 1] = rest[j]
    BY <1>6
  <2>2. timeout[rest[p]] # to
    <3>1. Sub(timeout[rest[p]], to) # 0
      BY <1>1, <2>1 DEF Position
    <3>2. timeout[rest[p]] \in 0 .. Word - 1 /\ to \in 0 .. Word - 1
      <4>1. init[t] \in 0 .. Word - 1 /\ tick \in 0 .. Word - 1
        <5>1. init[t] \in 1 .. Half - 1
          BY TimerAssumption DEF TimerInv, TypeOK
        <5> QED BY <5>1, HalfOK DEF TimerInv, TypeOK
      <4> QED BY <4>1, <2>1, <1>7, AddSub DEF TimerInv, TypeOK
    <3> QED BY <3>1, <3>2 DEF Sub
  <2>3. CASE j = p
    BY <2>2, <2>3
  <2>4. CASE j # p
    <3> SUFFICES ASSUME timeout[rest[j]] = to PROVE FALSE
      OBVIOUS
    <3>1. /\ init[t] \in 1 .. Half - 1 /\ tick \in 0 .. Word - 1 /\ init[t] \in 0 .. Word - 1
      <4>1. init[t] \in 1 .. Half - 1
        BY TimerAssumption DEF TimerInv, TypeOK
      <4> QED BY <4>1, HalfOK DEF TimerInv, TypeOK
    <3>2. Sub(to, tick) = init[t]
      BY <3>1, AddSub
    <3>3. /\ rest[j] \in ToSet(list) /\ rest[p] \in ToSet(list)
          /\ Remaining[rest[j]] = Sub(timeout[rest[j]], tick)
          /\ Remaining[rest[p]] = Sub(timeout[rest[p]], tick)
      BY <1>3, <1>7, <2>1 DEF Remaining
    <3>4. Remaining \in [Timers -> 0 .. Word - 1]
      BY RemainingOK DEF TimerInv
    <3>5. Remaining'[rest[j]] = Remaining[rest[j]] /\ Remaining'[rest[p]] = Remaining[rest[p]]
      BY <1>5, <1>7, <2>1, <3>4
    <3>6. Remaining'[rest[p]] <= Remaining'[rest[j]]
      <4>1. p + 1 < j + 1
        BY <2>1, <2>4
      <4> QED BY <4>1, <2>1, <1>5 DEF HeadIsNext
    <3>7. Sub(timeout[rest[p]], tick) <= init[t]
      BY <3>2, <3>3, <3>5, <3>6
    <3>8. /\ timeout[rest[p]] \in 0 .. Word - 1 /\ Sub(timeout[rest[p]], tick) < Half
      BY <1>7, <2>1, <3>3 DEF TimerInv, TypeOK, NotOverdue, Left
    <3>9. Sub(timeout[rest[p]], to) # 0 /\ Sub(timeout[rest[p]], to) < Half
      BY <1>1, <2>1 DEF Position
    <3>10. init[t] < Sub(timeout[rest[p]], tick)
      BY <3>1, <3>8, <3>9, DifferenceCompares
    <3>11. Sub(timeout[rest[p]], tick) \in 0 .. Word - 1
      BY <3>1, <3>8, AddSub
    <3> QED BY <3>1, <3>7, <3>10, <3>11, HalfOK
  <2> QED BY <2>3, <2>4
<1> HIDE DEF to
<1> SUFFICES ASSUME NEW i \in 1 .. Len(rest) + 1, NEW j \in 1 .. Len(rest) + 1, i < j,
                    timeout'[list'[i]] = timeout'[list'[j]]
             PROVE  <<list'[i], list'[j]>> \in older'
  BY <1>6 DEF EarlyFirst
<1>11. CASE j = p
  <2>1. list'[j] = t /\ list'[i] = rest[i] /\ i \in 1 .. Len(rest)
    BY <1>6, <1>11
  <2> QED BY <1>2, <1>7, <2>1
<1>12. CASE i = p
  <2>1. list'[i] = t /\ list'[j] = rest[j - 1] /\ j - 1 \in 1 .. Len(rest) /\ j - 1 >= p
    BY <1>6, <1>12
  <2> QED BY <1>7, <1>8, <1>9, <1>10, <2>1
<1>13. CASE i # p /\ j # p
  <2> DEFINE m == IF i < p THEN i ELSE i - 1
             n == IF j < p THEN j ELSE j - 1
  <2>1. m \in 1 .. Len(rest) /\ n \in 1 .. Len(rest) /\ m < n
    BY <1>6, <1>13
  <2>2. list'[i] = rest[m] /\ list'[j] = rest[n]
    BY <1>6, <1>13
  <2>3. timeout[rest[m]] = timeout[rest[n]]
    BY <1>7, <1>8, <2>1, <2>2
  <2> QED BY <1>2, <1>4, <2>1, <2>2, <2>3
<1> QED BY <1>11, <1>12, <1>13

LEMMA EarlyFire ==
    ASSUME TimerInv, EarlyFirst, check_fires
    PROVE  EarlyFirst'
<1>1. PICK h \in Timers : h = Head(list) /\ ToSet(list') = ToSet(list) \ {h}
                        /\ IsList(list', Timers)
  BY FireTakesHead
<1>2. /\ list # << >> /\ list' = Tail(list) /\ timeout' = timeout /\ older' = Without(h)
  BY <1>1 DEF check_fires, HeadIsDue, Without
<1>3. /\ list \in Seq(Timers) /\ Len(list) \in Nat /\ Len(list') = Len(list) - 1
      /\ \A j \in 1 .. Len(list) - 1 : list'[j] = list[j + 1]
  BY <1>2, EmptySeq, HeadTailProperties DEF TimerInv, TypeOK
<1> SUFFICES ASSUME NEW i \in 1 .. Len(list) - 1, NEW j \in 1 .. Len(list) - 1, i < j,
                    timeout[list'[i]] = timeout[list'[j]]
             PROVE  <<list'[i], list'[j]>> \in Without(h)
  BY <1>2, <1>3 DEF EarlyFirst
<1>4. list'[i] = list[i + 1] /\ list'[j] = list[j + 1]
  BY <1>3
<1>5. i + 1 \in 1 .. Len(list) /\ j + 1 \in 1 .. Len(list) /\ i + 1 < j + 1
  BY <1>3
<1>6. <<list[i + 1], list[j + 1]>> \in older
  BY <1>4, <1>5 DEF EarlyFirst
<1>7. list'[i] # h /\ list'[j] # h
  BY <1>1, <1>3, MemberIs DEF IsList
<1> QED BY <1>4, <1>6, <1>7, PairStays

LEMMA EarlyKept == TimerInv /\ EarlyFirst /\ [Next]_vars => EarlyFirst'
<1> SUFFICES ASSUME TimerInv, EarlyFirst, [Next]_vars PROVE EarlyFirst'
  OBVIOUS
<1>1. CASE UNCHANGED <<list, timeout, older>>
  BY <1>1 DEF EarlyFirst
<1>2. ASSUME NEW t \in Timers, start(t), tick' = tick PROVE EarlyFirst'
  BY <1>2, EarlyStart
<1>3. ASSUME NEW t \in Timers, timer_remove(t), timeout' = timeout PROVE EarlyFirst'
  <2>1. list' = RemoveFirst(list, t) /\ older' = Without(t)
    BY <1>3 DEF timer_remove, Without
  <2>2. \A i, j \in 1 .. Len(list') :
            i < j /\ timeout[list'[i]] = timeout[list'[j]] => <<list'[i], list'[j]>> \in Without(t)
    BY <2>1, EarlyRemove
  <2> QED BY <1>3, <2>1, <2>2 DEF EarlyFirst
<1>4. CASE check_fires
  BY <1>4, EarlyFire
<1>5. CASE rt_tick_increase \/ check_ends
  BY <1>1, <1>5 DEF rt_tick_increase, check_ends
<1>6. CASE check_returns
  <2>1. CASE \E t \in temp \cap periodic \cap on : start(t)
    BY <1>2, <1>6, <2>1 DEF check_returns, TimerInv, TypeOK
  <2> QED BY <1>1, <1>6, <2>1 DEF check_returns
<1>7. ASSUME NEW t \in Timers, Uses(t) PROVE EarlyFirst'
  <2>1. CASE rt_timer_start(t)
    BY <1>2, <2>1 DEF rt_timer_start
  <2>2. CASE stop_removes(t) \/ stop_in_callback(t) \/ rt_timer_detach(t)
    BY <1>3, <2>2 DEF stop_removes, stop_in_callback, rt_timer_detach
  <2>3. CASE stop_tests(t) \/ rt_timer_control(t)
    BY <1>1, <2>3 DEF stop_tests, rt_timer_control
  <2> QED BY <1>7, <2>1, <2>2, <2>3 DEF Uses
<1> QED BY <1>1, <1>4, <1>5, <1>6, <1>7 DEF Next, rt_timer_check, vars

\* Of two timers that are due at the same tick, the one rt_timer_start was called for
\* first is first in the list and has its callback called first.
THEOREM EarlyFirstHolds == Spec => []EarlyFirst
<1>1. Init => EarlyFirst
  BY EmptyList DEF Init, EarlyFirst
<1> QED BY <1>1, EarlyKept, InvariantHolds, PTL DEF Spec

-----------------------------------------------------------------------------
(* Refinement of Countdown *)

LEMMA InitRefines == Init => Ideal!Init
<1> SUFFICES ASSUME Init PROVE Ideal!Init
  OBVIOUS
<1>1. ToSet(list) = {}
  BY EmptyList DEF Init
<1>2. Remaining = [t \in Timers |-> 0]
  BY <1>1 DEF Remaining
<1> QED BY <1>1, <1>2 DEF Init, Ideal!Init

\* The effect of rt_timer_start on the mapped variables.
LEMMA StartRefines ==
    ASSUME TimerInv, NEW t \in Timers, rt_timer_start(t)
    PROVE  Ideal!Start(t)
<1>1. /\ start(t) /\ temp' = temp \ {t} /\ tick' = tick /\ pc' = pc
      /\ UNCHANGED <<init, periodic>> /\ pc \in {"thread", "callback"}
  BY DEF rt_timer_start, Callable, kind
<1>2. ToSet(list') = ToSet(list) \cup {t} /\ Remaining' = [Remaining EXCEPT ![t] = init[t]]
  BY <1>1, StartInserts
<1>3. on' = on \cup {t}
  BY <1>1 DEF start
<1>4. temp' \cap on' = (temp \cap on) \ {t}
  BY <1>1, <1>3
<1> QED BY <1>1, <1>2, <1>4 DEF Ideal!Start, Ideal!Callable

LEMMA RemoveRefines ==
    ASSUME TimerInv, NEW t \in Timers,
           stop_removes(t) \/ stop_in_callback(t) \/ rt_timer_detach(t)
    PROVE  Ideal!Stop(t)
<1>1. /\ timer_remove(t) /\ pc' = pc /\ pc \in {"thread", "callback"}
      /\ UNCHANGED <<tick, timeout, init, periodic>>
  BY DEF stop_removes, stop_in_callback, rt_timer_detach, Callable, kind
<1>2. /\ list' = RemoveFirst(list, t) /\ temp' = temp \ {t} /\ on' = on \ {t}
  BY <1>1 DEF timer_remove
<1>3. ToSet(list') = ToSet(list) \ {t} /\ Remaining' = [Remaining EXCEPT ![t] = 0]
  BY <1>1, <1>2, RemoveLeaves
<1>4. temp' \cap on' = (temp \cap on) \ {t}
  BY <1>2
<1> QED BY <1>1, <1>2, <1>3, <1>4 DEF Ideal!Stop, Ideal!Callable

LEMMA CheckRefines ==
    ASSUME TimerInv, TimerInv', rt_timer_check
    PROVE  Ideal!Return \/ Ideal!Done \/ \E t \in Timers : Ideal!Fire(t)
<1>1. CASE check_fires
  <2>1. PICK h \in Timers :
              /\ h = Head(list) /\ h \in ToSet(list) /\ Remaining[h] = 0
              /\ ToSet(list') = ToSet(list) \ {h} /\ Remaining' = Remaining
    BY <1>1, FireTakesHead
  <2>2. /\ pc = "check" /\ pc' = "callback" /\ temp' = {h} /\ UNCHANGED <<init, periodic>>
        /\ on' = IF h \in periodic THEN on ELSE on \ {h}
    BY <1>1, <2>1 DEF check_fires, kind
  <2>3. h \in on
    BY <2>1 DEF TimerInv, ListOK
  <2>4. temp' \cap on' = {h} \cap periodic
    BY <2>2, <2>3
  <2>5. Ideal!Fire(h)
    BY <2>1, <2>2, <2>4 DEF Ideal!Fire
  <2> QED BY <2>5
<1>2. CASE check_returns
  <2>1. /\ pc = "callback" /\ pc' = "check" /\ temp' = {}
        /\ UNCHANGED <<tick, init, periodic>>
    BY <1>2 DEF check_returns, kind
  <2>2. temp' \cap on' = {}
    BY <2>1
  <2>3. Remaining \in [Timers -> 0 .. Word - 1]
    BY RemainingOK DEF TimerInv
  <2> DEFINE rearmed == (temp \cap on) \cap periodic
  <2>4. CASE \E t \in temp \cap periodic \cap on : start(t)
    <3>1. PICK t \in temp \cap periodic \cap on : start(t)
      BY <2>4
    <3>2. t \in Timers /\ rearmed = {t}
      BY <3>1 DEF TimerInv, TypeOK, ListOK
    <3>3. ToSet(list') = ToSet(list) \cup {t} /\ Remaining' = [Remaining EXCEPT ![t] = init[t]]
      BY <2>1, <3>1, <3>2, StartInserts
    <3>4. ToSet(list') = ToSet(list) \cup rearmed
      BY <3>2, <3>3
    <3>5. Remaining' = [u \in Timers |-> IF u \in rearmed THEN init[u] ELSE Remaining[u]]
      BY <2>3, <3>2, <3>3
    <3> QED BY <2>1, <2>2, <3>4, <3>5 DEF Ideal!Return
  <2>5. CASE temp \cap periodic \cap on = {} /\ UNCHANGED <<list, timeout, on, older>>
    <3>1. rearmed = {}
      BY <2>5
    <3>2. ToSet(list') = ToSet(list) \cup rearmed
      BY <2>5, <3>1
    <3>3. Remaining' = Remaining
      BY <2>1, <2>5 DEF Remaining
    <3>4. Remaining' = [u \in Timers |-> IF u \in rearmed THEN init[u] ELSE Remaining[u]]
      BY <2>3, <3>1, <3>3
    <3> QED BY <2>1, <2>2, <3>2, <3>4 DEF Ideal!Return
  <2> QED BY <1>2, <2>4, <2>5 DEF check_returns
<1>3. CASE check_ends
  <2>1. /\ UNCHANGED <<tick, list, timeout, init, periodic, on, temp>>
        /\ pc = "check" /\ pc' = "thread"
    BY <1>3 DEF check_ends, kind
  <2>2. Remaining' = Remaining
    BY <2>1 DEF Remaining
  <2>3. ASSUME NEW t \in ToSet(list) PROVE Remaining[t] > 0
    <3>1. t \in Timers
      BY MemberIs DEF TimerInv, TypeOK
    <3>2. Left(t)' > 0
      BY <2>1 DEF TimerInv, NotOverdue
    <3> QED BY <2>1, <3>1, <3>2 DEF Left, Remaining
  <2> QED BY <2>1, <2>2, <2>3 DEF Ideal!Done
<1> QED BY <1>1, <1>2, <1>3 DEF rt_timer_check

LEMMA StepRefines == TimerInv /\ TimerInv' /\ [Next]_vars => [Ideal!Next]_(Ideal!vars)
<1> SUFFICES ASSUME TimerInv, TimerInv', [Next]_vars PROVE Ideal!Next \/ UNCHANGED Ideal!vars
  OBVIOUS
<1>1. CASE rt_tick_increase
  <2>1. /\ pc = "thread" /\ pc' = "check"
        /\ UNCHANGED <<list, init, periodic, temp, on>>
    BY <1>1 DEF rt_tick_increase, kind
  <2>2. Remaining' = [t \in Timers |-> IF t \in ToSet(list) THEN Remaining[t] - 1 ELSE 0]
    BY <1>1, TickCounts
  <2> QED BY <2>1, <2>2 DEF Ideal!Tick, Ideal!Next
<1>2. CASE rt_timer_check
  BY <1>2, CheckRefines DEF Ideal!Next
<1>3. ASSUME NEW t \in Timers, rt_timer_start(t) PROVE Ideal!Next
  BY <1>3, StartRefines DEF Ideal!Next
<1>4. ASSUME NEW t \in Timers, stop_tests(t) PROVE UNCHANGED Ideal!vars
  BY <1>4 DEF stop_tests, kind, Remaining, Ideal!vars
<1>5. ASSUME NEW t \in Timers, stop_removes(t) \/ stop_in_callback(t) \/ rt_timer_detach(t)
      PROVE  Ideal!Next
  BY <1>5, RemoveRefines DEF Ideal!Next
<1>6. ASSUME NEW t \in Timers, rt_timer_control(t) PROVE Ideal!Next
  <2>1. /\ UNCHANGED <<tick, list, timeout, on, temp, pc>> /\ pc \in {"thread", "callback"}
        /\ init' \in [Timers -> Times] /\ periodic' \in SUBSET Timers
    BY <1>6 DEF rt_timer_control, Callable, TimerInv, TypeOK
  <2>2. Remaining' = Remaining
    BY <2>1 DEF Remaining
  <2> QED BY <2>1, <2>2 DEF Ideal!Configure, Ideal!Callable, Ideal!Next
<1>7. CASE UNCHANGED vars
  BY <1>7 DEF vars, kind, Remaining, Ideal!vars
<1> QED BY <1>1, <1>2, <1>3, <1>4, <1>5, <1>6, <1>7 DEF Next, Uses

\* The timer list implements ideal countdown timers: rt_timer_check calls every
\* callback at its tick, and a timer stopped, restarted or detached in time is not
\* called, whatever the interleaving of threads, interrupt and callbacks.
THEOREM ImplementsCountdown == Spec => RefinesCountdown
BY InitRefines, StepRefines, InvariantHolds, PTL DEF Spec, RefinesCountdown, Ideal!Spec

-----------------------------------------------------------------------------
(* The event set: the list and the loop over it *)

\* InOrder counts a finite set of numbers in their order.
LEMMA OrderIs ==
    ASSUME NEW n \in Nat, NEW S, S \subseteq 1 .. n
    PROVE  Counts(InOrder(S), S)
<1>1. \E f \in Bijection(1 .. Cardinality(S), S) : \A i, j \in DOMAIN f : i < j => f[i] < f[j]
  BY OrderExists DEF Counts
<1> QED BY <1>1, Zenon DEF InOrder, Counts

\* What the list is when some threads have left it.
LEMMA UnlinkedIs ==
    ASSUME NEW S, IsList(suspend_thread, S), NEW gone
    PROVE  IsWithout(Unlinked(gone), suspend_thread, gone, S)
<1> DEFINE l == suspend_thread
           n == Len(l)
           stay == {i \in 1 .. n : l[i] \notin gone}
           f == InOrder(stay)
           k == Cardinality(stay)
           new == [i \in 1 .. k |-> l[f[i]]]
<1>1. l \in Seq(S) /\ n \in Nat /\ DOMAIN l = 1 .. n /\ IsInjective(l)
  BY DEF IsList
<1>2. stay \subseteq 1 .. n
  OBVIOUS
<1>3. k \in Nat
  <2>1. IsFiniteSet(1 .. n)
    BY <1>1, FS_Interval
  <2> HIDE DEF stay
  <2>2. IsFiniteSet(stay)
    BY <1>2, <2>1, FS_Subset
  <2> QED BY <2>2, FS_CardinalityType
<1>4. Counts(f, stay)
  BY <1>1, <1>2, OrderIs
<1>5. /\ f \in [1 .. k -> stay] /\ DOMAIN f = 1 .. k
      /\ \A i, j \in 1 .. k : i < j => f[i] < f[j]
      /\ \A i, j \in 1 .. k : f[i] = f[j] => i = j
      /\ \A s \in stay : \E i \in 1 .. k : f[i] = s
  <2>1. f \in [1 .. k -> stay] /\ DOMAIN f = 1 .. k
    BY <1>4 DEF Counts, Bijection, Surjection
  <2>2. \A s \in stay : \E i \in 1 .. k : f[i] = s
    BY <1>4, Zenon DEF Counts, Bijection, Surjection
  <2>3. IsInjective(f)
    BY <1>4 DEF Counts, Bijection, Injection
  <2> HIDE DEF f, k, stay
  <2>4. \A i, j \in 1 .. k : f[i] = f[j] => i = j
    BY <2>1, <2>3 DEF IsInjective
  <2>5. \A i, j \in 1 .. k : i < j => f[i] < f[j]
    BY <1>4, <2>1 DEF Counts
  <2> QED BY <2>1, <2>2, <2>4, <2>5
<1>6. Unlinked(gone) = new
  <2>1. stay = {i \in DOMAIN suspend_thread : suspend_thread[i] \notin gone}
    BY <1>1
  <2> HIDE DEF stay
  <2>2. Unlinked(gone) = [i \in DOMAIN f |-> l[f[i]]]
    BY <2>1 DEF Unlinked
  <2> HIDE DEF f, k
  <2> QED BY <1>5, <2>2
<1> HIDE DEF f, k
<1>7. \A i \in 1 .. k : f[i] \in 1 .. n /\ l[f[i]] \notin gone /\ l[f[i]] \in S
  BY <1>1, <1>5
<1>8. \A i \in 1 .. n : l[i] \notin gone => \E j \in 1 .. k : f[j] = i
  BY <1>5
<1> HIDE DEF stay
<1>9. new \in Seq(S) /\ Len(new) = k /\ DOMAIN new = 1 .. k
  BY <1>3, <1>7
<1>10. IsInjective(new)
  <2> SUFFICES ASSUME NEW i \in 1 .. k, NEW j \in 1 .. k, l[f[i]] = l[f[j]] PROVE i = j
    BY <1>9 DEF IsInjective
  <2>1. f[i] = f[j]
    BY <1>1, <1>7 DEF IsInjective
  <2> QED BY <1>5, <2>1
<1>11. ToSet(new) = ToSet(l) \ gone
  <2>1. \A x : x \in ToSet(new) <=> \E i \in 1 .. k : x = l[f[i]]
    BY <1>9 DEF ToSet
  <2>2. \A x : x \in ToSet(l) <=> \E i \in 1 .. n : x = l[i]
    BY <1>1 DEF ToSet
  <2> HIDE DEF new, n
  <2> QED BY <1>7, <1>8, <2>1, <2>2
<1>12. ASSUME NEW P, Sorted(l, P) PROVE Sorted(new, P)
  <2> SUFFICES ASSUME NEW i \in 1 .. k, NEW j \in 1 .. k, i < j
               PROVE  P[l[f[i]]] <= P[l[f[j]]]
    BY <1>9 DEF Sorted
  <2>1. f[i] \in 1 .. n /\ f[j] \in 1 .. n /\ f[i] < f[j]
    BY <1>5, <1>7
  <2> QED BY <1>12, <2>1 DEF Sorted
<1> HIDE DEF new
<1> QED BY <1>6, <1>9, <1>10, <1>11, <1>12 DEF IsWithout, IsList

\* The threads in front of the one at place i.
LEMMA AheadIs ==
    ASSUME NEW S, IsList(suspend_thread, S), NEW i \in 1 .. Len(suspend_thread)
    PROVE  \A u : u \in Ahead(suspend_thread[i]) <=> \E j \in 1 .. i - 1 : u = suspend_thread[j]
<1> DEFINE l == suspend_thread
           n == Len(l)
<1>1. l \in Seq(S) /\ n \in Nat /\ DOMAIN l = 1 .. n
  BY DEF IsList
<1>2. \A x, y \in 1 .. n : l[x] = l[y] => x = y
  BY <1>1 DEF IsList, IsInjective
<1>3. \A u : u \in Ahead(l[i]) <=> \E j \in 1 .. n : u = l[j] /\ \E x \in 1 .. n : j < x /\ l[x] = l[i]
  BY <1>1 DEF Ahead
<1>4. \A j \in 1 .. n : (\E x \in 1 .. n : j < x /\ l[x] = l[i]) <=> j < i
  BY <1>2
<1>5. \A j : j \in 1 .. i - 1 <=> j \in 1 .. n /\ j < i
  BY <1>1
<1> QED BY <1>3, <1>4, <1>5

LEMMA Monotone ==
    /\ \A want, option, f, g :
          f \subseteq g /\ Satisfied(want, option, f) => Satisfied(want, option, g)
    /\ \A flags, A, B : A \subseteq B => LeftOver(flags, B) \subseteq LeftOver(flags, A)
BY DEF Satisfied, LeftOver

\* The first m places of the list have been looked at and the threads of W resumed.
Looked(flags, m, W) ==
    /\ \A u \in W : \E i \in 1 .. m : u = suspend_thread[i]
    /\ \A i \in 1 .. m : LET t == suspend_thread[i] IN
          t \in W <=> Satisfied(event_set[t], event_info[t], LeftOver(flags, W \cap Ahead(t)))

LEMMA LookStep ==
    ASSUME NEW S, IsList(suspend_thread, S), NEW flags, NEW m \in 1 .. Len(suspend_thread),
           NEW W, Looked(flags, m - 1, W)
    PROVE  \E V : Looked(flags, m, V)
<1> DEFINE l == suspend_thread
           n == Len(l)
           t == l[m]
           V == IF Satisfied(event_set[t], event_info[t], LeftOver(flags, W \cap Ahead(t)))
                THEN W \cup {t} ELSE W
<1>1. l \in Seq(S) /\ n \in Nat /\ DOMAIN l = 1 .. n
  BY DEF IsList
<1>2. \A x, y \in 1 .. n : l[x] = l[y] => x = y
  BY <1>1 DEF IsList, IsInjective
<1>3. \A i \in 1 .. m : i \in 1 .. n /\ t \notin Ahead(l[i])
  <2> TAKE i \in 1 .. m
  <2>1. i \in 1 .. n /\ \A j \in 1 .. i - 1 : j \in 1 .. n /\ j # m
    BY <1>1
  <2>2. \A j \in 1 .. i - 1 : t # l[j]
    BY <1>2, <2>1
  <2> QED BY <2>1, <2>2, AheadIs
<1>4. \A i \in 1 .. m : V \cap Ahead(l[i]) = W \cap Ahead(l[i])
  BY <1>3
<1>5. \A i \in 1 .. m - 1 : i \in 1 .. m /\ l[i] # t
  <2> TAKE i \in 1 .. m - 1
  <2>1. i \in 1 .. m /\ i \in 1 .. n /\ i # m
    BY <1>1
  <2> QED BY <1>2, <2>1
<1>6. t \notin W
  BY <1>5 DEF Looked
<1>7. \A i \in 1 .. m : i = m \/ i \in 1 .. m - 1
  BY <1>1
<1>8. m \in 1 .. m
  BY <1>1
<1> DEFINE Sat(u, X) == Satisfied(event_set[u], event_info[u], LeftOver(flags, X \cap Ahead(u)))
<1>9. \A i \in 1 .. m : l[i] \in V <=> Sat(l[i], V)
  <2> TAKE i \in 1 .. m
  <2>1. Sat(l[i], V) <=> Sat(l[i], W)
    BY <1>4
  <2>2. CASE i = m
    BY <1>6, <2>1, <2>2
  <2>3. CASE i \in 1 .. m - 1
    <3>1. l[i] \in W <=> Sat(l[i], W)
      BY <2>3 DEF Looked
    <3>2. l[i] \in V <=> l[i] \in W
      BY <1>5, <2>3
    <3> QED BY <2>1, <3>1, <3>2
  <2> QED BY <1>7, <2>2, <2>3
<1>10. \A u \in V : \E i \in 1 .. m : u = l[i]
  <2>1. \A u \in W : \E i \in 1 .. m : u = l[i]
    BY <1>5 DEF Looked
  <2>2. \A u \in V : u \in W \/ u = t
    OBVIOUS
  <2> HIDE DEF V
  <2> QED BY <1>8, <2>1, <2>2
<1> HIDE DEF V
<1>11. Looked(flags, m, V)
  BY <1>9, <1>10 DEF Looked
<1> QED BY <1>11

\* The loop of rt_event_send comes to an end with some threads resumed, and it looked
\* at every thread with what those in front of it had left.
LEMMA ServedIs ==
    ASSUME NEW S, IsList(suspend_thread, S), NEW flags
    PROVE  served(flags) \subseteq ToSet(suspend_thread) /\ OnePass(flags, served(flags))
<1> DEFINE l == suspend_thread
           n == Len(l)
           P == {m \in 0 .. n : \E W : Looked(flags, m, W)}
<1>1. l \in Seq(S) /\ n \in Nat /\ DOMAIN l = 1 .. n
  BY DEF IsList
<1>2. 0 \in P
  <2>1. Looked(flags, 0, {})
    BY DEF Looked
  <2> QED BY <1>1, <2>1
<1>3. \A m \in 1 .. n : m - 1 \in P => m \in P
  <2> SUFFICES ASSUME NEW m \in 1 .. n, m - 1 \in P PROVE m \in P
    OBVIOUS
  <2>1. PICK W : Looked(flags, m - 1, W)
    OBVIOUS
  <2>2. \E V : Looked(flags, m, V)
    BY <2>1, LookStep
  <2> QED BY <1>1, <2>2
<1>4. n \in P
  <2> HIDE DEF P
  <2> QED BY <1>1, <1>2, <1>3, UpTo
<1>5. PICK W : Looked(flags, n, W)
  BY <1>4
<1>6. \A x : x \in ToSet(l) <=> \E i \in 1 .. n : x = l[i]
  BY <1>1 DEF ToSet
<1>7. W \subseteq ToSet(l)
  BY <1>5, <1>6 DEF Looked
<1>8. OnePass(flags, W)
  <2> SUFFICES ASSUME NEW t \in ToSet(l)
               PROVE  t \in W <=> Satisfied(event_set[t], event_info[t], LeftOver(flags, W \cap Ahead(t)))
    BY DEF OnePass
  <2>1. PICK i \in 1 .. n : t = l[i]
    BY <1>6
  <2> QED BY <1>5, <2>1 DEF Looked
<1>9. \E X \in SUBSET ToSet(l) : OnePass(flags, X)
  BY <1>7, <1>8
<1> QED BY <1>9, Zenon DEF served

\* And the loop has no other outcome.
LEMMA ServedOnly ==
    ASSUME NEW S, IsList(suspend_thread, S), NEW flags,
           NEW W, W \subseteq ToSet(suspend_thread), OnePass(flags, W)
    PROVE  W = served(flags)
<1> DEFINE l == suspend_thread
           n == Len(l)
           V == served(flags)
           D == {i \in 1 .. n : ~(l[i] \in W <=> l[i] \in V)}
<1>1. l \in Seq(S) /\ n \in Nat /\ DOMAIN l = 1 .. n
  BY DEF IsList
<1>2. V \subseteq ToSet(l) /\ OnePass(flags, V)
  BY ServedIs
<1> HIDE DEF V
<1>3. \A x : x \in ToSet(l) <=> \E i \in 1 .. n : x = l[i]
  BY <1>1 DEF ToSet
<1>4. CASE D = {}
  <2>1. \A i \in 1 .. n : l[i] \in W <=> l[i] \in V
    BY <1>4
  <2> HIDE DEF n
  <2>2. W = V
    BY <1>2, <1>3, <2>1
  <2> QED BY <2>2 DEF V
<1>5. CASE D # {}
  <2>1. D \subseteq Nat
    OBVIOUS
  <2> HIDE DEF D
  <2>2. PICK i \in D : \A j \in D : i <= j
    BY <1>5, <2>1, Least
  <2> USE DEF D
  <2>3. i \in 1 .. n /\ ~(l[i] \in W <=> l[i] \in V)
    BY <2>2
  <2>4. \A j \in 1 .. i - 1 : l[j] \in W <=> l[j] \in V
    <3> TAKE j \in 1 .. i - 1
    <3>1. j \in 1 .. n /\ ~(i <= j)
      BY <1>1, <2>3
    <3> QED BY <2>2, <3>1
  <2>5. W \cap Ahead(l[i]) = V \cap Ahead(l[i])
    <3>1. \A u : u \in Ahead(l[i]) <=> \E j \in 1 .. i - 1 : u = l[j]
      BY <2>3, AheadIs
    <3> QED BY <2>4, <3>1
  <2>6. l[i] \in ToSet(l)
    BY <1>3, <2>3
  <2> QED BY <1>2, <2>3, <2>5, <2>6 DEF OnePass
<1> QED BY <1>4, <1>5 DEF V

\* The error of a call that has not failed: none, or what a signal has left.
NotFailed(t) == error[t] = "EOK" \/ (error[t] = "EINTR" /\ t \in Interruptible)

\* The threads that are still to be given something, or have been given it.
Asleep ==
    \A t \in Threads : stat[t] = "suspend" \/ call[t] \in {"reset", "done"} => NotFailed(t)

\* With RT_IPC_FLAG_PRIO the list is in the order of the priorities.
Queue == Flag = "PRIO" => Sorted(suspend_thread, Priority)

EventInv ==
    EventTypeOK /\ ListExact /\ NoSatisfiedWaiter /\ EventKept /\ Asleep /\ Queue


-----------------------------------------------------------------------------
(* The invariant, action by action *)

LEMMA QueueIs ==
    ASSUME EventInv
    PROVE  IsList(suspend_thread, Threads)
BY DEF EventInv, EventTypeOK, ListExact, IsList

LEMMA EventInitInv == EventInit => EventInv
<1> SUFFICES ASSUME EventInit PROVE EventInv
  OBVIOUS
<1>1. suspend_thread = <<>> /\ ToSet(suspend_thread) = {} /\ IsList(suspend_thread, Threads)
  BY EmptyList DEF EventInit
<1>2. EventTypeOK
  BY <1>1 DEF EventInit, EventTypeOK, IsList, Options, Default
<1>3. ListExact
  BY <1>1 DEF EventInit, ListExact, IsList
<1>4. NoSatisfiedWaiter /\ EventKept /\ Asleep
  BY DEF EventInit, NoSatisfiedWaiter, EventKept, Asleep
<1>5. Queue
  BY DEF EventInit, Queue, Sorted
<1> QED BY <1>2, <1>3, <1>4, <1>5 DEF EventInv

\* EventKept, flag by flag and thread by thread.
Somewhere(x) == x \in set \/ \E u \in Threads : x \in given[u]

GivenOK(t) == given[t] # {} => call[t] \in {"wait", "done"} /\ stat[t] = "ready" /\ NotFailed(t)

LEMMA KeptIs ==
    EventKept <=> (\A x \in owed : Somewhere(x)) /\ \A t \in Threads : GivenOK(t)
BY DEF EventKept, Somewhere, GivenOK, NotFailed

LEMMA KeptIsNext ==
    EventKept' <=> (\A x \in owed' : Somewhere(x)') /\ \A t \in Threads : GivenOK(t)'
BY DEF EventKept, Somewhere, GivenOK, NotFailed

LEMMA ResetKeeps ==
    ASSUME EventInv, NEW t \in Threads, rt_event_recv(t)
    PROVE  EventInv'
<1>1. /\ call[t] = "none" /\ call' = [call EXCEPT ![t] = "reset"] /\ error' = [error EXCEPT ![t] = "EOK"]
      /\ UNCHANGED <<set, suspend_thread, stat, timer, event_set, event_info, owed, given>>
  BY DEF rt_event_recv, history
<1>2. stat[t] # "suspend" /\ given[t] = {}
  BY <1>1 DEF EventInv, ListExact, EventKept
<1>3. EventTypeOK' /\ Queue' /\ NoSatisfiedWaiter'
  BY <1>1 DEF EventInv, EventTypeOK, Queue, NoSatisfiedWaiter
<1>4. ListExact'
  BY <1>1, <1>2 DEF EventInv, EventTypeOK, ListExact
<1>5. Asleep'
  BY <1>1, <1>2 DEF EventInv, EventTypeOK, Asleep, NotFailed
<1>6. EventKept'
  BY <1>1, <1>2 DEF EventInv, EventTypeOK, EventKept
<1> QED BY <1>3, <1>4, <1>5, <1>6 DEF EventInv

LEMMA TakesKeeps ==
    ASSUME EventInv, NEW t \in Threads, call[t] = "reset", NEW want \in SUBSET Flags,
           NEW option \in Options, recv_takes(t, want, option)
    PROVE  EventInv'
<1>1. /\ call' = [call EXCEPT ![t] = "done"]
      /\ UNCHANGED <<suspend_thread, stat, timer, event_set, event_info, error, owed>>
      /\ \/ set' = set /\ given' = given
         \/ set' = set \ want /\ given' = [given EXCEPT ![t] = want \cap set]
  <2>1. ASSUME option.clear PROVE set' = set \ want /\ given' = [given EXCEPT ![t] = want \cap set]
    BY <2>1, Zenon DEF recv_takes
  <2>2. ASSUME ~option.clear PROVE set' = set /\ given' = given
    BY <2>2, Zenon DEF recv_takes
  <2>3. /\ UNCHANGED <<suspend_thread, stat, timer, event_set, event_info, error, owed>>
        /\ call' = [call EXCEPT ![t] = "done"]
    BY DEF recv_takes
  <2>4. (set' = set /\ given' = given) \/ (set' = set \ want /\ given' = [given EXCEPT ![t] = want \cap set])
    BY <2>1, <2>2, Zenon
  <2> QED BY <2>3, <2>4
<1>2. stat[t] = "ready" /\ given[t] = {} /\ NotFailed(t)
  BY DEF EventInv, EventTypeOK, ListExact, EventKept, Asleep
<1>3. EventTypeOK'
  BY <1>1 DEF EventInv, EventTypeOK
<1>4. ListExact' /\ Queue'
  BY <1>1, <1>2 DEF EventInv, EventTypeOK, ListExact, Queue
<1>5. Asleep'
  BY <1>1, <1>2 DEF EventInv, EventTypeOK, Asleep, NotFailed
<1>6. NoSatisfiedWaiter'
  <2>1. set' \subseteq set
    BY <1>1
  <2> QED BY <1>1, <2>1, Monotone DEF EventInv, NoSatisfiedWaiter
<1>7. \A u \in Threads \ {t} : given'[u] = given[u]
  BY <1>1 DEF EventInv, EventTypeOK
<1>8. ASSUME NEW x \in owed' PROVE Somewhere(x)'
  <2>1. x \in owed
    BY <1>1, <1>8
  <2>2. Somewhere(x)
    BY <2>1, KeptIs DEF EventInv
  <2>3. CASE x \in set
    BY <1>1, <2>3 DEF Somewhere, EventInv, EventTypeOK
  <2>4. CASE x \notin set
    <3>1. PICK u \in Threads : x \in given[u]
      BY <2>2, <2>4 DEF Somewhere
    <3>2. u # t
      BY <1>2, <3>1
    <3> QED BY <1>7, <3>1, <3>2 DEF Somewhere
  <2> QED BY <2>3, <2>4
<1>9. ASSUME NEW u \in Threads PROVE GivenOK(u)'
  <2>1. CASE u = t
    BY <1>1, <1>2, <2>1 DEF GivenOK, NotFailed, EventInv, EventTypeOK
  <2>2. CASE u # t
    <3>1. GivenOK(u)
      BY KeptIs DEF EventInv
    <3> QED BY <1>1, <1>7, <2>2, <3>1 DEF GivenOK, NotFailed, EventInv, EventTypeOK
  <2> QED BY <2>1, <2>2
<1>10. EventKept'
  BY <1>8, <1>9, KeptIsNext
<1> QED BY <1>3, <1>4, <1>5, <1>6, <1>10 DEF EventInv

LEMMA EmptyKeeps ==
    ASSUME EventInv, NEW t \in Threads, call[t] = "reset", NEW want, NEW option, NEW tmo,
           recv_empty(t, want, option, tmo)
    PROVE  EventInv'
<1>1. /\ call' = [call EXCEPT ![t] = "none"] /\ error' = [error EXCEPT ![t] = "EOK"]
      /\ UNCHANGED <<set, suspend_thread, stat, timer, event_set, event_info, owed, given>>
  BY DEF recv_empty, history
<1>2. stat[t] # "suspend" /\ given[t] = {}
  BY DEF EventInv, ListExact, EventKept
<1>3. EventTypeOK' /\ Queue' /\ NoSatisfiedWaiter'
  BY <1>1 DEF EventInv, EventTypeOK, Queue, NoSatisfiedWaiter
<1>4. ListExact'
  BY <1>1, <1>2 DEF EventInv, EventTypeOK, ListExact
<1>5. Asleep'
  BY <1>1, <1>2 DEF EventInv, EventTypeOK, Asleep, NotFailed
<1>6. EventKept'
  BY <1>1, <1>2 DEF EventInv, EventTypeOK, EventKept
<1> QED BY <1>3, <1>4, <1>5, <1>6 DEF EventInv

LEMMA WaitsKeeps ==
    ASSUME EventInv, NEW t \in Threads, call[t] = "reset", NEW want \in SUBSET Flags,
           NEW option \in Options, NEW tmo, recv_waits(t, want, option, tmo)
    PROVE  EventInv'
<1>1. /\ ~Satisfied(want, option, set)
      /\ event_set' = [event_set EXCEPT ![t] = want]
      /\ event_info' = [event_info EXCEPT ![t] = option]
      /\ call' = [call EXCEPT ![t] = "wait"] /\ stat' = [stat EXCEPT ![t] = "suspend"]
      /\ timer' \subseteq timer \cup {t}
      /\ set' = set /\ error' = error /\ owed' = owed /\ given' = given
  BY DEF recv_waits, history
<1>2. PICK i \in 1 .. Len(suspend_thread) + 1 :
         Place(t, i) /\ suspend_thread' = InsertAt(suspend_thread, i, t)
  BY DEF recv_waits
<1>3. IsList(suspend_thread, Threads) /\ t \notin ToSet(suspend_thread)
  BY QueueIs DEF EventInv, ListExact
<1>4. IsList(suspend_thread', Threads) /\ ToSet(suspend_thread') = ToSet(suspend_thread) \cup {t}
  BY <1>2, <1>3, InsertList
<1>5. suspend_thread' \in Seq(Threads) /\ IsInjective(suspend_thread')
  BY <1>4 DEF IsList
<1>6. EventTypeOK'
  BY <1>1, <1>5 DEF EventInv, EventTypeOK
<1>7. ListExact'
  <2>1. ToSet(suspend_thread') = {u \in Threads : stat'[u] = "suspend"}
    BY <1>1, <1>4 DEF EventInv, ListExact, EventTypeOK
  <2>2. \A u \in Threads : stat'[u] = "suspend" => call'[u] = "wait"
    BY <1>1 DEF EventInv, ListExact, EventTypeOK
  <2> QED BY <1>5, <2>1, <2>2 DEF ListExact
<1>8. NoSatisfiedWaiter'
  <2> SUFFICES ASSUME NEW u \in Threads, stat'[u] = "suspend"
               PROVE  ~Satisfied(event_set'[u], event_info'[u], set')
    BY DEF NoSatisfiedWaiter
  <2>1. CASE u = t
    <3>1. event_set'[u] = want /\ event_info'[u] = option
      BY <1>1, <2>1 DEF EventInv, EventTypeOK
    <3> QED BY <1>1, <3>1
  <2>2. CASE u # t
    <3>1. event_set'[u] = event_set[u] /\ event_info'[u] = event_info[u] /\ stat[u] = "suspend"
      BY <1>1, <2>2 DEF EventInv, EventTypeOK
    <3> QED BY <1>1, <3>1 DEF EventInv, NoSatisfiedWaiter
  <2> QED BY <2>1, <2>2
<1>9. EventKept'
  <2>1. given[t] = {}
    BY DEF EventInv, EventKept
  <2> QED BY <1>1, <2>1 DEF EventInv, EventTypeOK, EventKept
<1>10. Asleep'
  BY <1>1 DEF EventInv, EventTypeOK, Asleep, NotFailed
<1>11. Queue'
  <2> SUFFICES ASSUME Flag = "PRIO" PROVE Sorted(suspend_thread', Priority)
    BY RtEventAssumption DEF Queue
  <2>1. /\ \A j \in 1 .. i - 1 : Priority[suspend_thread[j]] <= Priority[t]
        /\ i <= Len(suspend_thread) => Priority[t] < Priority[suspend_thread[i]]
    BY <1>2 DEF Place
  <2>2. Priority \in [Threads -> Int] /\ suspend_thread \in Seq(Threads)
        /\ Sorted(suspend_thread, Priority)
    BY <1>3, RtEventAssumption DEF EventInv, Queue, IsList
  <2> QED BY <1>2, <2>1, <2>2, InsertSorted
<1> QED BY <1>6, <1>7, <1>8, <1>9, <1>10, <1>11 DEF EventInv

\* The end of a call: what only it held goes.
LEMMA ReturnKept ==
    ASSUME EventInv, NEW t \in Threads, stat[t] = "ready", Return(t), UNCHANGED <<set, stat>>
    PROVE  EventKept' /\ owed' \subseteq Flags /\ given' \in [Threads -> SUBSET Flags]
<1>1. /\ call' = [call EXCEPT ![t] = "none"] /\ error' = [error EXCEPT ![t] = "EOK"]
      /\ owed' = owed \ OnlyWith(t) /\ given' = [given EXCEPT ![t] = {}]
  BY DEF Return
<1>2. owed' \subseteq Flags /\ given' \in [Threads -> SUBSET Flags]
  BY <1>1 DEF EventInv, EventTypeOK
<1>3. given'[t] = {} /\ \A u \in Threads \ {t} : given'[u] = given[u]
  BY <1>1 DEF EventInv, EventTypeOK
<1>4. ASSUME NEW x \in owed' PROVE Somewhere(x)'
  <2>1. x \in owed /\ x \notin OnlyWith(t)
    BY <1>1, <1>4
  <2>2. Somewhere(x)
    BY <2>1, KeptIs DEF EventInv
  <2>3. CASE x \in set
    BY <2>3 DEF Somewhere
  <2>4. CASE x \notin set
    <3>1. PICK u \in Threads \ {t} : x \in given[u]
      BY <2>1, <2>2, <2>4 DEF Somewhere, OnlyWith
    <3> QED BY <1>3, <3>1 DEF Somewhere
  <2> QED BY <2>3, <2>4
<1>5. ASSUME NEW u \in Threads PROVE GivenOK(u)'
  <2>1. GivenOK(u)
    BY KeptIs DEF EventInv
  <2>2. CASE u = t
    BY <1>3, <2>2 DEF GivenOK
  <2>3. CASE u # t
    BY <1>1, <1>3, <2>1, <2>3 DEF GivenOK, NotFailed, EventInv, EventTypeOK
  <2> QED BY <2>2, <2>3
<1>6. EventKept'
  BY <1>4, <1>5, KeptIsNext
<1> QED BY <1>2, <1>6

LEMMA ReturnsKeeps ==
    ASSUME EventInv, NEW t \in Threads, recv_returns(t)
    PROVE  EventInv'
<1>1. /\ call[t] = "done" /\ Return(t)
      /\ UNCHANGED <<set, suspend_thread, stat, timer, event_set, event_info>>
      /\ call' = [call EXCEPT ![t] = "none"] /\ error' = [error EXCEPT ![t] = "EOK"]
  BY DEF recv_returns, Return
<1>2. stat[t] = "ready"
  BY <1>1 DEF EventInv, EventTypeOK, ListExact
<1>3. EventKept' /\ owed' \subseteq Flags /\ given' \in [Threads -> SUBSET Flags]
  BY <1>1, <1>2, ReturnKept
<1>4. EventTypeOK'
  BY <1>1, <1>3 DEF EventInv, EventTypeOK
<1>5. ListExact' /\ NoSatisfiedWaiter' /\ Queue'
  BY <1>1, <1>2 DEF EventInv, EventTypeOK, ListExact, NoSatisfiedWaiter, Queue
<1>6. Asleep'
  BY <1>1, <1>2 DEF EventInv, EventTypeOK, Asleep, NotFailed
<1> QED BY <1>3, <1>4, <1>5, <1>6 DEF EventInv

LEMMA ResumedKeeps ==
    ASSUME EventInv, NEW t \in Threads, recv_resumed(t)
    PROVE  EventInv'
<1>1. /\ call[t] = "wait" /\ stat[t] = "ready"
      /\ event_set' = [event_set EXCEPT ![t] = {}]
      /\ event_info' = [event_info EXCEPT ![t] = Default]
      /\ UNCHANGED <<set, suspend_thread, stat, timer>>
  BY DEF recv_resumed
<1>2. Default \in Options
  BY DEF Default, Options
<1>3. NoSatisfiedWaiter' /\ Queue'
  BY <1>1 DEF EventInv, EventTypeOK, NoSatisfiedWaiter, Queue
<1>4. CASE error[t] # "EOK" /\ Return(t)
  <2>1. call' = [call EXCEPT ![t] = "none"] /\ error' = [error EXCEPT ![t] = "EOK"]
    BY <1>4 DEF Return
  <2>2. EventKept' /\ owed' \subseteq Flags /\ given' \in [Threads -> SUBSET Flags]
    BY <1>1, <1>4, ReturnKept
  <2>3. EventTypeOK'
    BY <1>1, <1>2, <2>1, <2>2 DEF EventInv, EventTypeOK
  <2>4. ListExact'
    BY <1>1, <2>1 DEF EventInv, EventTypeOK, ListExact
  <2>5. Asleep'
    BY <1>1, <2>1 DEF EventInv, EventTypeOK, Asleep, NotFailed
  <2> QED BY <1>3, <2>2, <2>3, <2>4, <2>5 DEF EventInv
<1>5. CASE error[t] = "EOK" /\ call' = [call EXCEPT ![t] = "done"] /\ UNCHANGED <<error, history>>
  <2>1. error' = error /\ owed' = owed /\ given' = given
    BY <1>5 DEF history
  <2>2. EventTypeOK'
    BY <1>1, <1>2, <1>5, <2>1 DEF EventInv, EventTypeOK
  <2>3. ListExact'
    BY <1>1, <1>5 DEF EventInv, EventTypeOK, ListExact
  <2>4. Asleep'
    BY <1>1, <1>5, <2>1 DEF EventInv, EventTypeOK, Asleep, NotFailed
  <2>5. EventKept'
    BY <1>1, <1>5, <2>1 DEF EventInv, EventTypeOK, EventKept
  <2> QED BY <1>3, <2>2, <2>3, <2>4, <2>5 DEF EventInv
<1> QED BY <1>4, <1>5 DEF recv_resumed

LEMMA WakeKeeps ==
    ASSUME EventInv, NEW t \in Threads, NEW err \in {"ETIMEOUT", "EINTR"}, Wake(t, err),
           stat[t] = "suspend" \/ (err = "EINTR" /\ t \in Interruptible)
    PROVE  EventInv'
<1>1. /\ stat' = [stat EXCEPT ![t] = "ready"] /\ error' = [error EXCEPT ![t] = err]
      /\ suspend_thread' = RemoveFirst(suspend_thread, t) /\ timer' = timer \ {t}
      /\ set' = set /\ call' = call /\ event_set' = event_set /\ event_info' = event_info
      /\ owed' = owed /\ given' = given
  BY DEF Wake, history
<1>2. IsList(suspend_thread, Threads)
  BY QueueIs
<1>3. IsList(suspend_thread', Threads) /\ ToSet(suspend_thread') = ToSet(suspend_thread) \ {t}
  BY <1>1, <1>2, RemoveList
<1>4. suspend_thread' \in Seq(Threads) /\ IsInjective(suspend_thread')
  BY <1>3 DEF IsList
<1>5. EventTypeOK'
  BY <1>1, <1>4 DEF EventInv, EventTypeOK
<1>6. ListExact'
  <2>1. ToSet(suspend_thread') = {u \in Threads : stat'[u] = "suspend"}
    BY <1>1, <1>3 DEF EventInv, ListExact, EventTypeOK
  <2>2. \A u \in Threads : stat'[u] = "suspend" => call'[u] = "wait"
    BY <1>1 DEF EventInv, ListExact, EventTypeOK
  <2> QED BY <1>4, <2>1, <2>2 DEF ListExact
<1>7. NoSatisfiedWaiter'
  BY <1>1 DEF EventInv, EventTypeOK, NoSatisfiedWaiter
<1>8. EventKept'
  <2>1. stat[t] = "suspend" => given[t] = {}
    BY DEF EventInv, EventKept
  <2> QED BY <1>1, <2>1 DEF EventInv, EventTypeOK, EventKept
<1>9. Asleep'
  <2>1. stat[t] = "suspend" => call[t] = "wait"
    BY DEF EventInv, ListExact
  <2> QED BY <1>1, <2>1 DEF EventInv, EventTypeOK, Asleep, NotFailed
<1>10. Queue'
  BY <1>1, <1>2, RemoveSorted DEF EventInv, Queue
<1> QED BY <1>5, <1>6, <1>7, <1>8, <1>9, <1>10 DEF EventInv

LEMMA TimeoutKeeps ==
    ASSUME EventInv, NEW t \in Threads, rt_thread_timeout(t)
    PROVE  EventInv'
<1>1. t \in timer /\ Wake(t, "ETIMEOUT")
  BY DEF rt_thread_timeout
<1>2. stat[t] = "suspend"
  BY <1>1 DEF EventInv, EventTypeOK
<1> QED BY <1>1, <1>2, WakeKeeps

LEMMA SignalKeeps ==
    ASSUME EventInv, NEW t \in Threads, signal(t)
    PROVE  EventInv'
BY WakeKeeps DEF signal

LEMMA ControlKeeps ==
    ASSUME EventInv, rt_event_control
    PROVE  EventInv'
<1> DEFINE waiting == ToSet(suspend_thread)
<1>1. /\ stat' = [t \in Threads |-> "ready"]
      /\ error' = [t \in Threads |-> IF t \in waiting THEN "ERROR" ELSE error[t]]
      /\ suspend_thread' = <<>> /\ timer' = timer \ waiting
      /\ set' = {} /\ owed' = owed \cap UNION {given[t] : t \in Threads} /\ given' = given
      /\ call' = call /\ event_set' = event_set /\ event_info' = event_info
  BY DEF rt_event_control
<1>2. waiting = {t \in Threads : stat[t] = "suspend"}
  BY DEF EventInv, ListExact
<1>3. IsList(<<>>, Threads) /\ ToSet(<<>>) = {}
  BY EmptyList
<1>4. suspend_thread' \in Seq(Threads) /\ IsInjective(suspend_thread') /\ ToSet(suspend_thread') = {}
  BY <1>1, <1>3 DEF IsList
<1> HIDE DEF waiting
<1>5. timer' = {}
  BY <1>1, <1>2 DEF EventInv, EventTypeOK
<1>7. EventTypeOK'
  BY <1>1, <1>4, <1>5 DEF EventInv, EventTypeOK
<1>8. ListExact' /\ NoSatisfiedWaiter'
  BY <1>1, <1>4, <1>5 DEF ListExact, NoSatisfiedWaiter
<1>9. EventKept'
  BY <1>1, <1>2 DEF EventInv, EventTypeOK, EventKept
<1>11. Asleep'
  BY <1>1, <1>2 DEF EventInv, ListExact, Asleep, NotFailed
<1>10. Queue'
  BY <1>1 DEF Queue, Sorted
<1> QED BY <1>7, <1>8, <1>9, <1>10, <1>11 DEF EventInv

\* What a send has done when it returns, W being the threads it resumed.
Sent(F, W) ==
    /\ W \subseteq ToSet(suspend_thread) /\ OnePass(F, W)
    /\ set' = LeftOver(F, W) /\ timer' = timer \ W
    /\ call' = call /\ event_info' = event_info /\ error' = error
    /\ IsWithout(suspend_thread', suspend_thread, W, Threads)
    /\ stat' = [t \in Threads |-> IF t \in W THEN "ready" ELSE stat[t]]
    /\ event_set' = [t \in Threads |->
          IF t \in W THEN Received(event_set[t], event_info[t], LeftOver(F, W \cap Ahead(t)))
          ELSE event_set[t]]
    /\ given' = [t \in Threads |->
          IF t \in W /\ event_info[t].clear THEN event_set'[t] ELSE given[t]]

LEMMA SendIs ==
    ASSUME EventInv, NEW sent, rt_event_send(sent)
    PROVE  Sent(set \cup sent, served(set \cup sent)) /\ owed' = owed \cup sent
<1> DEFINE F == set \cup sent
           W == served(F)
<1>1. IsList(suspend_thread, Threads)
  BY QueueIs
<1>2. W \subseteq ToSet(suspend_thread) /\ OnePass(F, W)
  BY <1>1, ServedIs
<1>3. IsWithout(Unlinked(W), suspend_thread, W, Threads)
  BY <1>1, UnlinkedIs
<1> QED BY <1>2, <1>3 DEF Sent, rt_event_send, Resume

\* What a resumed thread gets are flags that were there when its turn came, and all it
\* waits for of those.
LEMMA GotIs ==
    ASSUME NEW F, NEW W, NEW t, OnePass(F, W), t \in W, t \in ToSet(suspend_thread)
    PROVE  LET there == LeftOver(F, W \cap Ahead(t))
           IN  Received(event_set[t], event_info[t], there) = event_set[t] \cap there
<1> DEFINE there == LeftOver(F, W \cap Ahead(t))
<1>1. Satisfied(event_set[t], event_info[t], there)
  BY DEF OnePass
<1> HIDE DEF there
<1>2. Received(event_set[t], event_info[t], there) = event_set[t] \cap there
  BY <1>1 DEF Satisfied, Received
<1> QED BY <1>2 DEF there

\* A flag that a send clears is given to a thread, the first one to clear it.
LEMMA SendKeepsFlags ==
    ASSUME EventInv, NEW F, NEW W, Sent(F, W), NEW x \in F, x \notin set'
    PROVE  \E u \in Threads : x \in given'[u]
<1> DEFINE l == suspend_thread
           n == Len(l)
           D == {i \in 1 .. n : l[i] \in W /\ event_info[l[i]].clear /\ x \in event_set[l[i]]}
<1>1. IsList(l, Threads)
  BY QueueIs
<1>2. l \in Seq(Threads) /\ n \in Nat /\ DOMAIN l = 1 .. n
  BY <1>1 DEF IsList
<1>3. \A u : u \in ToSet(l) <=> \E i \in 1 .. n : u = l[i]
  BY <1>2 DEF ToSet
<1>4. PICK w \in W : event_info[w].clear /\ x \in event_set[w]
  BY Zenon DEF Sent, LeftOver
<1>5. w \in ToSet(l)
  BY DEF Sent
<1>6. D # {}
  BY <1>3, <1>4, <1>5
<1>7. PICK i \in D : \A j \in D : i <= j
  <2>1. D \subseteq Nat
    OBVIOUS
  <2> HIDE DEF D
  <2> QED BY <1>6, <2>1, Least
<1> DEFINE u == l[i]
           there == LeftOver(F, W \cap Ahead(u))
<1>8. i \in 1 .. n /\ u \in W /\ event_info[u].clear /\ x \in event_set[u]
  BY <1>7
<1>9. \A v \in W \cap Ahead(u) : ~(event_info[v].clear /\ x \in event_set[v])
  <2> SUFFICES ASSUME NEW v \in W, v \in Ahead(u), event_info[v].clear, x \in event_set[v]
               PROVE  FALSE
    OBVIOUS
  <2>1. PICK j \in 1 .. i - 1 : v = l[j]
    BY <1>1, <1>8, AheadIs
  <2>2. j \in 1 .. n /\ ~(i <= j)
    BY <1>2, <1>8
  <2> QED BY <1>7, <2>1, <2>2
<1>10. x \in there
  BY <1>9 DEF LeftOver
<1>11. u \in ToSet(l) /\ u \in Threads
  BY <1>3, <1>8 DEF EventInv, ListExact
<1> HIDE DEF D, there
<1>12. event_set'[u] = Received(event_set[u], event_info[u], there)
  BY <1>8, <1>11 DEF Sent, there
<1>13. OnePass(F, W)
  BY DEF Sent
<1>14. x \in event_set'[u]
  BY <1>8, <1>10, <1>11, <1>12, <1>13, GotIs DEF there
<1> HIDE DEF u
<1>15. given'[u] = event_set'[u]
  BY <1>8, <1>11, Zenon DEF Sent
<1> QED BY <1>11, <1>14, <1>15

\* What a send gives it gives to threads that it resumes.
LEMMA SendGives ==
    ASSUME EventInv, NEW F, NEW W, Sent(F, W), NEW t \in Threads
    PROVE  given'[t] = given[t] \/ (t \in W /\ given'[t] = event_set'[t])
<1>1. given' = [u \in Threads |-> IF u \in W /\ event_info[u].clear THEN event_set'[u] ELSE given[u]]
  BY DEF Sent
<1>2. ASSUME t \in W, event_info[t].clear PROVE given'[t] = event_set'[t]
  BY <1>1, <1>2, Zenon
<1>3. ASSUME ~(t \in W /\ event_info[t].clear) PROVE given'[t] = given[t]
  BY <1>1, <1>3, Zenon
<1> QED BY <1>2, <1>3, Zenon

LEMMA SendKeeps ==
    ASSUME EventInv, NEW sent \in SUBSET Flags, rt_event_send(sent)
    PROVE  EventInv'
<1> DEFINE F == set \cup sent
           W == served(F)
           l == suspend_thread
<1>1. Sent(F, W) /\ owed' = owed \cup sent
  BY SendIs
<1>2. F \subseteq Flags
  BY DEF EventInv, EventTypeOK
<1>3. set \subseteq F /\ sent \subseteq F
  OBVIOUS
<1> HIDE DEF F, W
<1>4. /\ ToSet(l) = {t \in Threads : stat[t] = "suspend"}
      /\ \A t \in Threads : stat[t] = "suspend" => call[t] = "wait"
  BY DEF EventInv, ListExact
<1>5. /\ IsList(l', Threads) /\ ToSet(l') = ToSet(l) \ W
      /\ \A P : Sorted(l, P) => Sorted(l', P)
  BY <1>1 DEF Sent, IsWithout
<1>6. l' \in Seq(Threads) /\ IsInjective(l')
  BY <1>5 DEF IsList
<1>7. W \subseteq ToSet(l) /\ OnePass(F, W)
  BY <1>1 DEF Sent
<1>8. \A t \in Threads : stat'[t] = IF t \in W THEN "ready" ELSE stat[t]
  BY <1>1 DEF Sent
<1>9. \A t \in Threads : t \notin W => event_set'[t] = event_set[t]
  BY <1>1 DEF Sent
<1>10. /\ set' = LeftOver(F, W) /\ timer' = timer \ W
       /\ call' = call /\ event_info' = event_info /\ error' = error
  BY <1>1 DEF Sent
<1>11. EventTypeOK'
  <2>1. set' \subseteq Flags /\ owed' \subseteq Flags
    BY <1>1, <1>2, <1>3, <1>10 DEF EventInv, EventTypeOK, LeftOver
  <2>2. stat' \in [Threads -> {"ready", "suspend"}]
    BY <1>1 DEF EventInv, EventTypeOK, Sent
  <2>3. event_set' \in [Threads -> SUBSET Flags]
    <3>1. \A t \in Threads : event_set[t] \subseteq Flags
      BY DEF EventInv, EventTypeOK
    <3>2. \A want, option, f : Received(want, option, f) \subseteq want
      BY DEF Received
    <3> QED BY <1>1, <3>1, <3>2 DEF Sent
  <2>4. given' \in [Threads -> SUBSET Flags]
    <3>1. \A t \in Threads : given'[t] \subseteq Flags
      BY <1>1, <2>3, SendGives DEF EventInv, EventTypeOK
    <3>2. given' = [t \in Threads |-> given'[t]]
      BY <1>1, Zenon DEF Sent
    <3> QED BY <3>1, <3>2
  <2>5. timer' \subseteq {t \in Threads : stat'[t] = "suspend"}
    BY <1>8, <1>10 DEF EventInv, EventTypeOK
  <2> QED BY <1>6, <1>10, <2>1, <2>2, <2>3, <2>4, <2>5 DEF EventInv, EventTypeOK
<1>12. ListExact'
  <2>1. ToSet(l') = {t \in Threads : stat'[t] = "suspend"}
    BY <1>4, <1>5, <1>8
  <2>2. \A t \in Threads : stat'[t] = "suspend" => call'[t] = "wait"
    BY <1>4, <1>8, <1>10
  <2> QED BY <1>6, <2>1, <2>2 DEF ListExact
<1>13. NoSatisfiedWaiter'
  <2> SUFFICES ASSUME NEW t \in Threads, stat'[t] = "suspend"
               PROVE  ~Satisfied(event_set'[t], event_info'[t], set')
    BY DEF NoSatisfiedWaiter
  <2>1. t \notin W /\ stat[t] = "suspend" /\ t \in ToSet(l)
    BY <1>4, <1>8
  <2>2. ~Satisfied(event_set[t], event_info[t], LeftOver(F, W \cap Ahead(t)))
    BY <1>7, <2>1 DEF OnePass
  <2>3. LeftOver(F, W) \subseteq LeftOver(F, W \cap Ahead(t))
    BY Monotone
  <2>4. ~Satisfied(event_set[t], event_info[t], set')
    BY <1>10, <2>2, <2>3, Monotone
  <2> QED BY <1>9, <1>10, <2>1, <2>4
<1>14. EventKept'
  <2>1. ASSUME NEW x \in owed' PROVE Somewhere(x)'
    <3>1. CASE x \in set'
      BY <3>1 DEF Somewhere
    <3>2. CASE x \in F /\ x \notin set'
      BY <1>1, <3>2, SendKeepsFlags DEF Somewhere
    <3>3. CASE x \notin F
      <4>1. x \in owed /\ x \notin set
        BY <1>1, <1>3, <2>1, <3>3
      <4>2. PICK u \in Threads : x \in given[u]
        BY <4>1, KeptIs DEF EventInv, Somewhere
      <4>3. u \notin W
        <5>1. GivenOK(u)
          BY KeptIs DEF EventInv
        <5> QED BY <1>4, <1>7, <4>2, <5>1 DEF GivenOK
      <4>4. given'[u] = given[u]
        BY <1>1, <4>3, SendGives
      <4> QED BY <4>2, <4>4 DEF Somewhere
    <3> QED BY <3>1, <3>2, <3>3
  <2>2. ASSUME NEW t \in Threads PROVE GivenOK(t)'
    <3>1. GivenOK(t)
      BY KeptIs DEF EventInv
    <3>2. CASE t \in W
      BY <1>4, <1>7, <1>8, <1>10, <3>2 DEF GivenOK, NotFailed, EventInv, Asleep
    <3>3. CASE t \notin W
      <4>1. given'[t] = given[t] /\ stat'[t] = stat[t]
        BY <1>1, <1>8, <3>3, SendGives
      <4> QED BY <1>10, <3>1, <4>1 DEF GivenOK, NotFailed
    <3> QED BY <3>2, <3>3
  <2> QED BY <2>1, <2>2, KeptIsNext
<1>15. Asleep'
  BY <1>8, <1>10 DEF EventInv, Asleep, NotFailed
<1>16. Queue'
  BY <1>5 DEF EventInv, Queue
<1> QED BY <1>11, <1>12, <1>13, <1>14, <1>15, <1>16 DEF EventInv

LEMMA EventNextKeeps == EventInv /\ [EventNext]_EventVars => EventInv'
<1> SUFFICES ASSUME EventInv, [EventNext]_EventVars PROVE EventInv'
  OBVIOUS
<1>1. ASSUME NEW t \in Threads, NEW want \in SUBSET Flags \ {{}}, NEW option \in Options, NEW tmo,
             recv_section(t, want, option, tmo)
      PROVE  EventInv'
  <2>1. call[t] = "reset" /\ want \in SUBSET Flags
    BY <1>1 DEF recv_section
  <2>2. CASE recv_takes(t, want, option)
    BY <2>1, <2>2, TakesKeeps
  <2>3. CASE recv_empty(t, want, option, tmo)
    BY <2>1, <2>3, EmptyKeeps
  <2>4. CASE recv_waits(t, want, option, tmo)
    BY <2>1, <2>4, WaitsKeeps
  <2> QED BY <1>1, <2>2, <2>3, <2>4 DEF recv_section
<1>2. ASSUME NEW t \in Threads,
             \/ rt_event_recv(t) \/ recv_resumed(t) \/ recv_returns(t)
             \/ rt_thread_timeout(t) \/ signal(t)
      PROVE  EventInv'
  BY <1>2, ResetKeeps, ResumedKeeps, ReturnsKeeps, TimeoutKeeps, SignalKeeps
<1>3. CASE UNCHANGED EventVars
  BY <1>3 DEF EventVars, history, EventInv, EventTypeOK, ListExact, NoSatisfiedWaiter, EventKept,
              Asleep, NotFailed, Queue
<1>4. CASE EventNext
  BY <1>1, <1>2, <1>3, <1>4, SendKeeps, ControlKeeps DEF EventNext
<1> QED BY <1>3, <1>4

\* The inductive invariant of the event set.
THEOREM EventInvariant == EventSpec => []EventInv
BY EventInitInv, EventNextKeeps, PTL DEF EventSpec

\* Types: every value a receiver, the list and the flags can take is one of the
\* declared ones, and rt_thread_timeout finds a suspended thread, as it asserts.
THEOREM EventTypeCorrect == EventSpec => []EventTypeOK
<1>1. EventInv => EventTypeOK
  BY DEF EventInv
<1> QED BY <1>1, EventInvariant, PTL

\* The list of the event holds exactly the suspended receivers, each once, whatever
\* the order of sends, time-outs, signals and resets.
THEOREM EventListExactHolds == EventSpec => []ListExact
<1>1. EventInv => ListExact
  BY DEF EventInv
<1> QED BY <1>1, EventInvariant, PTL

\* No receiver sleeps on although the flags it waits for are set: one pass of
\* rt_event_send is enough although every receiver may clear flags for the next.
THEOREM NoSatisfiedWaiterHolds == EventSpec => []NoSatisfiedWaiter
<1>1. EventInv => NoSatisfiedWaiter
  BY DEF EventInv
<1> QED BY <1>1, EventInvariant, PTL

\* A flag that was sent is still set or in the hands of a receiver that has not
\* returned from rt_event_recv yet; only a signal during its call makes it fail with it.
THEOREM EventKeptHolds == EventSpec => []EventKept
<1>1. EventInv => EventKept
  BY DEF EventInv
<1> QED BY <1>1, EventInvariant, PTL

\* In every reachable state the loop of rt_event_send, whatever is sent, resumes one
\* set of threads and no other: the flags that each thread leaves for those behind it
\* determine it.
THEOREM SendHasOneOutcome ==
    EventSpec => [](\A sent \in SUBSET Flags, woken \in SUBSET ToSet(suspend_thread) :
                      OnePass(set \cup sent, woken) <=> woken = served(set \cup sent))
<1>1. EventInv =>
        \A sent \in SUBSET Flags, woken \in SUBSET ToSet(suspend_thread) :
           OnePass(set \cup sent, woken) <=> woken = served(set \cup sent)
  BY QueueIs, ServedIs, ServedOnly
<1> QED BY <1>1, EventInvariant, PTL

-----------------------------------------------------------------------------
(* The most urgent is served first *)

\* Among the waiting threads u and t, the more urgent u is the one in front.
LEMMA UrgentAhead ==
    ASSUME EventInv, Flag = "PRIO", NEW u \in Threads, NEW t \in Threads,
           stat[u] = "suspend", stat[t] = "suspend", Priority[u] < Priority[t]
    PROVE  Ahead(u) \subseteq Ahead(t)
<1> DEFINE l == suspend_thread
           n == Len(l)
<1>1. IsList(l, Threads)
  BY QueueIs
<1>2. l \in Seq(Threads) /\ n \in Nat /\ DOMAIN l = 1 .. n
  BY <1>1 DEF IsList
<1>3. u \in ToSet(l) /\ t \in ToSet(l)
  BY DEF EventInv, ListExact
<1>4. PICK i \in 1 .. n : l[i] = u
  BY <1>2, <1>3 DEF ToSet
<1>5. PICK j \in 1 .. n : l[j] = t
  BY <1>2, <1>3 DEF ToSet
<1>6. Priority[u] \in Nat /\ Priority[t] \in Nat
  BY RtEventAssumption
<1>7. i < j
  <2> SUFFICES ASSUME j <= i PROVE FALSE
    BY <1>2
  <2>1. j = i \/ j < i
    BY <1>2
  <2>2. Priority[t] <= Priority[u]
    BY <1>4, <1>5, <1>6, <2>1 DEF EventInv, Queue, Sorted
  <2> QED BY <1>6, <2>2
<1>8. \A k \in 1 .. i - 1 : k \in 1 .. j - 1
  BY <1>2, <1>7
<1>9. \A v : v \in Ahead(u) <=> \E k \in 1 .. i - 1 : v = l[k]
  BY <1>1, <1>4, AheadIs
<1>10. \A v : v \in Ahead(t) <=> \E k \in 1 .. j - 1 : v = l[k]
  BY <1>1, <1>5, AheadIs
<1> QED BY <1>8, <1>9, <1>10

\* A step wakes t with flags and leaves the more urgent u waiting.
Outranked(u, t) ==
    /\ stat[u] = "suspend" /\ stat'[u] = "suspend"
    /\ stat[t] = "suspend" /\ stat'[t] = "ready" /\ error'[t] = "EOK"
    /\ Priority[u] < Priority[t]

LEMMA SendServesUrgent ==
    ASSUME EventInv, Flag = "PRIO", NEW sent, rt_event_send(sent),
           NEW u \in Threads, NEW t \in Threads, Outranked(u, t)
    PROVE  ~Satisfied(event_set[u], event_info[u], set' \cup event_set'[t])
<1> DEFINE F == set \cup sent
           W == served(F)
           there == LeftOver(F, W \cap Ahead(u))
<1>1. Sent(F, W)
  BY SendIs
<1> HIDE DEF F, W
<1>2. /\ W \subseteq ToSet(suspend_thread) /\ OnePass(F, W) /\ set' = LeftOver(F, W)
      /\ stat' = [v \in Threads |-> IF v \in W THEN "ready" ELSE stat[v]]
  BY <1>1 DEF Sent
<1>3. u \notin W /\ t \in W /\ u \in ToSet(suspend_thread) /\ t \in ToSet(suspend_thread)
  BY <1>2 DEF Outranked, EventInv, ListExact
<1>4. ~Satisfied(event_set[u], event_info[u], there)
  BY <1>2, <1>3 DEF OnePass
<1>5. Ahead(u) \subseteq Ahead(t)
  BY UrgentAhead DEF Outranked
<1>6. LeftOver(F, W) \subseteq there /\ LeftOver(F, W \cap Ahead(t)) \subseteq there
  <2>1. W \cap Ahead(u) \subseteq W /\ W \cap Ahead(u) \subseteq W \cap Ahead(t)
    BY <1>5
  <2> QED BY <2>1, Monotone
<1>7. event_set'[t] = Received(event_set[t], event_info[t], LeftOver(F, W \cap Ahead(t)))
  BY <1>1, <1>3 DEF Sent
<1>8. event_set'[t] \subseteq LeftOver(F, W \cap Ahead(t))
  BY <1>2, <1>3, <1>7, GotIs
<1> HIDE DEF there
<1>9. set' \cup event_set'[t] \subseteq there
  BY <1>2, <1>6, <1>8
<1> QED BY <1>4, <1>9, Monotone

LEMMA OnlySendServes ==
    ASSUME EventInv, [EventNext]_EventVars, NEW u \in Threads, NEW t \in Threads, Outranked(u, t)
    PROVE  \E sent \in SUBSET Flags : rt_event_send(sent)
<1>1. t \in ToSet(suspend_thread) /\ stat[t] = "suspend" /\ stat'[t] = "ready"
      /\ error'[t] = "EOK" /\ stat \in [Threads -> {"ready", "suspend"}] /\ DOMAIN error = Threads
  BY DEF Outranked, EventInv, ListExact, EventTypeOK
<1>2. stat' # stat
  BY <1>1
<1>3. ASSUME NEW v \in Threads, NEW want, NEW option, NEW tmo, recv_section(v, want, option, tmo)
      PROVE  FALSE
  <2>1. stat' = stat \/ stat' = [stat EXCEPT ![v] = "suspend"]
    BY <1>3 DEF recv_section, recv_takes, recv_empty, recv_waits
  <2> QED BY <1>1, <1>2, <2>1
<1>4. ASSUME NEW v \in Threads, rt_event_recv(v) \/ recv_resumed(v) \/ recv_returns(v) PROVE FALSE
  BY <1>2, <1>4 DEF rt_event_recv, recv_resumed, recv_returns
<1>5. ASSUME NEW v \in Threads, NEW err \in {"ETIMEOUT", "EINTR"}, Wake(v, err) PROVE FALSE
  <2>1. stat' = [stat EXCEPT ![v] = "ready"] /\ error' = [error EXCEPT ![v] = err]
    BY <1>5 DEF Wake
  <2>2. v = t
    BY <1>1, <2>1
  <2> QED BY <1>1, <2>1, <2>2
<1>6. ASSUME NEW v \in Threads, rt_thread_timeout(v) \/ signal(v) PROVE FALSE
  BY <1>5, <1>6 DEF rt_thread_timeout, signal
<1>7. ASSUME rt_event_control PROVE FALSE
  <2>1. error'[t] = "ERROR"
    BY <1>1, <1>7 DEF rt_event_control
  <2> QED BY <1>1, <2>1
<1>8. CASE UNCHANGED EventVars
  BY <1>2, <1>8 DEF EventVars
<1>9. CASE EventNext
  BY <1>3, <1>4, <1>6, <1>7, <1>9 DEF EventNext
<1> QED BY <1>8, <1>9

\* With RT_IPC_FLAG_PRIO a sent flag goes to the most urgent receiver it can serve: the
\* list is in the order of the priorities and the loop goes along it.
THEOREM UrgentServedFirstHolds == Flag = "PRIO" => (EventSpec => UrgentServedFirst)
<1> SUFFICES ASSUME Flag = "PRIO" PROVE EventSpec => UrgentServedFirst
  OBVIOUS
<1>1. EventInv /\ [EventNext]_EventVars =>
      [\A u, t \in Threads : Outranked(u, t) =>
          ~Satisfied(event_set[u], event_info[u], set' \cup event_set'[t])]_EventVars
  BY OnlySendServes, SendServesUrgent
<1>2. (\A u, t \in Threads : Outranked(u, t) =>
          ~Satisfied(event_set[u], event_info[u], set' \cup event_set'[t]))
      <=> \A u, t \in Threads :
          /\ stat[u] = "suspend" /\ stat'[u] = "suspend"
          /\ stat[t] = "suspend" /\ stat'[t] = "ready" /\ error'[t] = "EOK"
          /\ Priority[u] < Priority[t]
          => ~Satisfied(event_set[u], event_info[u], set' \cup event_set'[t])
  BY DEF Outranked
<1> QED BY <1>1, <1>2, EventInvariant, PTL DEF UrgentServedFirst, EventSpec

=============================================================================
