---------------------------- MODULE WaitingLists ----------------------------
(***************************************************************************)
(* Lemmas about the lists that RtMailbox, RtMutex, RtEvent and RtTimer     *)
(* keep: sequences in which no element is twice, changed by InsertAt       *)
(* (_ipc_list_suspend), Tail (_ipc_list_resume) and RemoveFirst            *)
(* (rt_list_remove); and induction over the places of such a list.         *)
(***************************************************************************)
EXTENDS Integers, FiniteSets, SequencesExt, SequenceTheorems, FiniteSetTheorems, TLAPS

\* A waiting list: no thread is on it twice.
IsList(list, S) == list \in Seq(S) /\ IsInjective(list)

LEMMA EmptyList == \A S : IsList(<<>>, S) /\ ToSet(<<>>) = {}
BY DEF IsList, IsInjective, ToSet

\* new is list with t inserted at place i.
HasInserted(new, list, i, t, S) ==
    /\ new \in Seq(S) /\ Len(new) = Len(list) + 1
    /\ \A j \in 1 .. Len(list) + 1 :
         new[j] = IF j < i THEN list[j] ELSE IF j = i THEN t ELSE list[j - 1]

\* What InsertAt puts where.
LEMMA InsertElems ==
    ASSUME NEW S, NEW list \in Seq(S), NEW t \in S, NEW i \in 1 .. Len(list) + 1
    PROVE  HasInserted(InsertAt(list, i, t), list, i, t, S)
<1> DEFINE n == Len(list)
           new == InsertAt(list, i, t)
<1>0. list \in Seq(S) /\ n \in Nat /\ DOMAIN list = 1 .. n
  OBVIOUS
<1> DEFINE s1 == SubSeq(list, 1, i - 1)
           s2 == SubSeq(list, i, n)
<1>1. s1 \in Seq(S) /\ Len(s1) = i - 1 /\ \A j \in 1 .. i - 1 : s1[j] = list[j]
  BY <1>0
<1>2. s2 \in Seq(S) /\ Len(s2) = n - i + 1
      /\ \A j \in 1 .. n - i + 1 : s2[j] = list[i + j - 1]
  BY <1>0
<1>3. new = s1 \o <<t>> \o s2
  BY DEF InsertAt
<1> HIDE DEF s1, s2, new
<1> DEFINE s3 == s1 \o <<t>>
<1>4. /\ s3 \in Seq(S) /\ Len(s3) = i
      /\ \A j \in 1 .. i : s3[j] = IF j < i THEN list[j] ELSE t
  BY <1>1
<1> HIDE DEF s3
<1>5. new = s3 \o s2
  BY <1>3 DEF s3
<1>6. new \in Seq(S) /\ Len(new) = n + 1
  BY <1>0, <1>2, <1>4, <1>5
<1>7. \A j \in 1 .. Len(s3) + Len(s2) :
         new[j] = IF j <= Len(s3) THEN s3[j] ELSE s2[j - Len(s3)]
  BY <1>2, <1>4, <1>5, ConcatProperties
<1>8. ASSUME NEW j \in 1 .. n + 1
      PROVE  new[j] = IF j < i THEN list[j] ELSE IF j = i THEN t ELSE list[j - 1]
  <2>1. new[j] = IF j <= i THEN s3[j] ELSE s2[j - i]
    BY <1>0, <1>2, <1>4, <1>7
  <2>2. CASE j <= i
    BY <1>4, <2>1, <2>2
  <2>3. CASE j > i
    <3>1. j - i \in 1 .. n - i + 1 /\ i + (j - i) - 1 = j - 1
      BY <1>0, <2>3
    <3> QED BY <1>2, <2>1, <2>3, <3>1
  <2> QED BY <2>2, <2>3
<1>9. HasInserted(new, list, i, t, S)
  BY <1>6, <1>8 DEF HasInserted
<1> QED BY <1>9 DEF new

\* A thread that was not on the list is inserted.
LEMMA InsertList ==
    ASSUME NEW S, NEW list, IsList(list, S), NEW t \in S, t \notin ToSet(list),
           NEW i \in 1 .. Len(list) + 1
    PROVE  IsList(InsertAt(list, i, t), S) /\ ToSet(InsertAt(list, i, t)) = ToSet(list) \cup {t}
<1> DEFINE n == Len(list)
           new == InsertAt(list, i, t)
<1>1. list \in Seq(S) /\ n \in Nat /\ DOMAIN list = 1 .. n
  BY DEF IsList
<1>ins. HasInserted(new, list, i, t, S)
  BY <1>1, InsertElems
<1> HIDE DEF new
<1>2. /\ new \in Seq(S) /\ Len(new) = n + 1
      /\ \A j \in 1 .. n + 1 : new[j] = IF j < i THEN list[j] ELSE IF j = i THEN t ELSE list[j - 1]
  BY <1>ins DEF HasInserted
<1>3. \A j \in 1 .. n : list[j] # t
  BY <1>1 DEF ToSet
<1>4. IsInjective(new)
  <2> SUFFICES ASSUME NEW x \in 1 .. n + 1, NEW y \in 1 .. n + 1, new[x] = new[y] PROVE x = y
    BY <1>1, <1>2 DEF IsInjective
  <2>1. \A u, w \in 1 .. n : list[u] = list[w] => u = w
    BY <1>1 DEF IsInjective, IsList
  <2>2. ASSUME NEW u \in 1 .. n + 1, new[u] = t PROVE u = i
    BY <1>1, <1>2, <1>3, <2>2
  <2>3. CASE new[x] = t
    BY <2>2, <2>3
  <2>4. CASE new[x] # t
    <3> DEFINE Old(u) == IF u < i THEN u ELSE u - 1
    <3>1. ASSUME NEW u \in 1 .. n + 1, new[u] # t
          PROVE  u # i /\ Old(u) \in 1 .. n /\ new[u] = list[Old(u)]
      BY <1>1, <1>2, <3>1
    <3>2. Old(x) = Old(y)
      BY <2>1, <2>4, <3>1
    <3>3. x # i /\ y # i
      BY <2>4, <3>1
    <3> QED BY <1>1, <3>2, <3>3
  <2> QED BY <2>3, <2>4
<1>5. DOMAIN new = 1 .. n + 1
  BY <1>1, <1>2
<1>6. ToSet(new) = ToSet(list) \cup {t}
  <2>1. ASSUME NEW j \in 1 .. n + 1, new[j] # t PROVE \E m \in 1 .. n : new[j] = list[m]
    <3>1. CASE j < i
      BY <1>1, <1>2, <3>1
    <3>2. CASE j > i
      <4>1. j - 1 \in 1 .. n /\ new[j] = list[j - 1]
        BY <1>1, <1>2, <3>2
      <4> QED BY <4>1
    <3>3. j # i
      BY <1>1, <1>2, <2>1
    <3> QED BY <3>1, <3>2, <3>3
  <2>2. \A j \in 1 .. n : \E m \in 1 .. n + 1 : list[j] = new[m]
    <3> TAKE j \in 1 .. n
    <3>1. list[j] = new[IF j < i THEN j ELSE j + 1]
      BY <1>1, <1>2
    <3> QED BY <1>1, <3>1
  <2>3. new[i] = t /\ i \in 1 .. n + 1
    BY <1>1, <1>2
  <2>4. \A x : x \in ToSet(new) <=> \E j \in 1 .. n + 1 : x = new[j]
    BY <1>5 DEF ToSet
  <2>5. \A x : x \in ToSet(list) <=> \E j \in 1 .. n : x = list[j]
    BY <1>1 DEF ToSet
  <2> HIDE DEF n
  <2> QED BY ONLY <2>1, <2>2, <2>3, <2>4, <2>5
<1> QED BY <1>2, <1>4, <1>6 DEF IsList, new

LEMMA TailList ==
    ASSUME NEW S, NEW list, IsList(list, S), list # <<>>
    PROVE  /\ Head(list) \in ToSet(list) /\ Head(list) \in S
           /\ IsList(Tail(list), S) /\ ToSet(Tail(list)) = ToSet(list) \ {Head(list)}
<1> DEFINE n == Len(list)
<1>1. list \in Seq(S) /\ n \in Nat \ {0} /\ DOMAIN list = 1 .. n
  BY EmptySeq DEF IsList
<1>2. /\ Tail(list) \in Seq(S) /\ Len(Tail(list)) = n - 1
      /\ \A j \in 1 .. n - 1 : Tail(list)[j] = list[j + 1]
  BY <1>1, HeadTailProperties
<1>3. Head(list) = list[1]
  BY <1>1
<1>4. IsInjective(Tail(list))
  BY <1>1, <1>2 DEF IsInjective, IsList
<1>5. ToSet(Tail(list)) = ToSet(list) \ {Head(list)}
  <2>1. ToSet(Tail(list)) \subseteq ToSet(list) \ {Head(list)}
    BY <1>1, <1>2, <1>3 DEF ToSet, IsInjective, IsList
  <2>2. \A j \in 2 .. n : list[j] = Tail(list)[j - 1] /\ j - 1 \in DOMAIN Tail(list)
    BY <1>1, <1>2
  <2>3. \A j \in 1 .. n : j = 1 \/ j \in 2 .. n
    BY <1>1
  <2>4. ToSet(list) \ {Head(list)} \subseteq ToSet(Tail(list))
    <3>1. \A x : x \in ToSet(list) <=> \E j \in 1 .. n : x = list[j]
      BY <1>1 DEF ToSet
    <3>2. \A x : x \in ToSet(Tail(list)) <=> \E j \in DOMAIN Tail(list) : x = Tail(list)[j]
      BY DEF ToSet
    <3> HIDE DEF n
    <3> QED BY ONLY <1>3, <2>2, <2>3, <3>1, <3>2
  <2> QED BY <2>1, <2>4
<1>6. Head(list) \in ToSet(list) /\ Head(list) \in S
  <2>1. 1 \in DOMAIN list /\ list[1] \in S
    BY <1>1
  <2> QED BY <1>3, <2>1 DEF ToSet
<1> QED BY <1>2, <1>4, <1>5, <1>6 DEF IsList

\* What RemoveAt leaves where.
LEMMA RemoveElems ==
    ASSUME NEW S, NEW list \in Seq(S), NEW k \in 1 .. Len(list)
    PROVE  /\ RemoveAt(list, k) \in Seq(S) /\ Len(RemoveAt(list, k)) = Len(list) - 1
           /\ \A j \in 1 .. Len(list) - 1 :
                RemoveAt(list, k)[j] = IF j < k THEN list[j] ELSE list[j + 1]
<1> DEFINE n == Len(list)
           new == RemoveAt(list, k)
           s1 == SubSeq(list, 1, k - 1)
           s2 == SubSeq(list, k + 1, n)
<1>0. list \in Seq(S) /\ n \in Nat /\ DOMAIN list = 1 .. n
  OBVIOUS
<1>1. s1 \in Seq(S) /\ Len(s1) = k - 1 /\ \A j \in 1 .. k - 1 : s1[j] = list[j]
  BY <1>0
<1>2. s2 \in Seq(S) /\ Len(s2) = n - k /\ \A j \in 1 .. n - k : s2[j] = list[k + j]
  <2>1. \A j \in k + 1 .. n : list[j] \in S
    BY <1>0
  <2>2. k + 1 \in Int /\ n \in Int
    BY <1>0
  <2>3. /\ s2 \in Seq(S) /\ Len(s2) = IF k + 1 <= n THEN n - (k + 1) + 1 ELSE 0
        /\ \A j \in 1 .. n - (k + 1) + 1 : s2[j] = list[(k + 1) + j - 1]
    BY <2>1, <2>2, SubSeqProperties
  <2>4. \A j \in 1 .. n - k : j \in 1 .. n - (k + 1) + 1 /\ (k + 1) + j - 1 = k + j
    BY <1>0
  <2>5. Len(s2) = n - k
    BY <1>0, <2>3
  <2> QED BY <2>3, <2>4, <2>5
<1>3. new = s1 \o s2
  BY DEF RemoveAt
<1> HIDE DEF s1, s2, new
<1>4. new \in Seq(S) /\ Len(new) = n - 1
  <2>1. new \in Seq(S) /\ Len(new) = Len(s1) + Len(s2)
    BY <1>1, <1>2, <1>3, ConcatProperties
  <2>2. n \in Int /\ k \in Int
    BY <1>0
  <2> HIDE DEF n
  <2> QED BY ONLY <1>1, <1>2, <2>1, <2>2
<1>5. \A j \in 1 .. Len(s1) + Len(s2) :
         new[j] = IF j <= Len(s1) THEN s1[j] ELSE s2[j - Len(s1)]
  BY <1>1, <1>2, <1>3, ConcatProperties
<1>6. ASSUME NEW j \in 1 .. n - 1 PROVE new[j] = IF j < k THEN list[j] ELSE list[j + 1]
  <2>1. new[j] = IF j < k THEN s1[j] ELSE s2[j - (k - 1)]
    <3>1. n \in Int /\ k \in Int
      BY <1>0
    <3> HIDE DEF n
    <3>2. j \in 1 .. Len(s1) + Len(s2) /\ (j <= Len(s1) <=> j < k)
      BY <1>1, <1>2, <3>1
    <3> QED BY <1>1, <1>5, <3>2
  <2>2. CASE j < k
    BY <1>1, <2>1, <2>2
  <2>3. CASE j >= k
    <3>1. j - (k - 1) \in 1 .. n - k /\ k + (j - (k - 1)) = j + 1
      BY <1>0, <2>3
    <3> QED BY <1>2, <2>1, <2>3, <3>1
  <2> QED BY <2>2, <2>3
<1> QED BY <1>4, <1>6 DEF new

\* RemoveFirst changes nothing, or removes the one place where t is.
LEMMA RemoveFirstIs ==
    ASSUME NEW S, NEW list, IsList(list, S), NEW t
    PROVE  \/ t \notin ToSet(list) /\ RemoveFirst(list, t) = list
           \/ \E k \in 1 .. Len(list) : list[k] = t /\ RemoveFirst(list, t) = RemoveAt(list, k)
<1> DEFINE n == Len(list)
<1>1. list \in Seq(S) /\ n \in Nat /\ DOMAIN list = 1 .. n
  BY DEF IsList
<1>2. CASE t \notin ToSet(list)
  BY <1>1, <1>2 DEF RemoveFirst, ToSet
<1>3. CASE t \in ToSet(list)
  <2>1. PICK k \in 1 .. n : list[k] = t
    BY <1>1, <1>3 DEF ToSet
  <2>2. {i \in 1 .. n : list[i] = t} = {k}
    BY <1>1, <2>1 DEF IsInjective, IsList
  <2>3. RemoveFirst(list, t) = RemoveAt(list, k)
    BY <1>1, <2>1, <2>2 DEF RemoveFirst, SelectInSeq, Min
  <2> QED BY <2>1, <2>3
<1> QED BY <1>2, <1>3

\* A thread leaves the list; one that is not on it changes nothing.
LEMMA RemoveList ==
    ASSUME NEW S, NEW list, IsList(list, S), NEW t
    PROVE  IsList(RemoveFirst(list, t), S) /\ ToSet(RemoveFirst(list, t)) = ToSet(list) \ {t}
<1> DEFINE n == Len(list)
<1>1. list \in Seq(S) /\ n \in Nat /\ DOMAIN list = 1 .. n
  BY DEF IsList
<1>2. CASE t \notin ToSet(list) /\ RemoveFirst(list, t) = list
  BY <1>2
<1>3. ASSUME NEW k \in 1 .. n, list[k] = t, RemoveFirst(list, t) = RemoveAt(list, k)
      PROVE  IsList(RemoveFirst(list, t), S) /\ ToSet(RemoveFirst(list, t)) = ToSet(list) \ {t}
  <2> DEFINE new == RemoveAt(list, k)
  <2>4. /\ new \in Seq(S) /\ Len(new) = n - 1
        /\ \A j \in 1 .. n - 1 : new[j] = IF j < k THEN list[j] ELSE list[j + 1]
    BY <1>1, RemoveElems
  <2> HIDE DEF new
  <2>5. DOMAIN new = 1 .. n - 1
    BY <1>1, <2>4
  <2>6. \A u, w \in 1 .. n : list[u] = list[w] => u = w
    BY <1>1 DEF IsInjective, IsList
  <2>7. IsInjective(new)
    <3> SUFFICES ASSUME NEW x \in 1 .. n - 1, NEW y \in 1 .. n - 1, new[x] = new[y] PROVE x = y
      BY <2>5 DEF IsInjective
    <3> QED BY <1>1, <2>4, <2>6
  <2>8. \A j \in 1 .. n - 1 : new[j] # t /\ \E m \in 1 .. n : new[j] = list[m]
    BY <1>1, <1>3, <2>4, <2>6
  <2>9. \A j \in 1 .. n : list[j] # t => \E m \in 1 .. n - 1 : list[j] = new[m]
    <3> SUFFICES ASSUME NEW j \in 1 .. n, list[j] # t
                 PROVE  \E m \in 1 .. n - 1 : list[j] = new[m]
      OBVIOUS
    <3>1. j # k
      BY <1>3
    <3>2. CASE j < k
      BY <1>1, <2>4, <3>2
    <3>3. CASE j > k
      <4>1. j - 1 \in 1 .. n - 1 /\ new[j - 1] = list[j]
        BY <1>1, <2>4, <3>3
      <4> QED BY <4>1
    <3> QED BY <1>1, <3>1, <3>2, <3>3
  <2>10. ToSet(new) = ToSet(list) \ {t}
    <3>1. \A x : x \in ToSet(list) <=> \E j \in 1 .. n : x = list[j]
      BY <1>1 DEF ToSet
    <3>2. \A x : x \in ToSet(new) <=> \E j \in 1 .. n - 1 : x = new[j]
      BY <2>5 DEF ToSet
    <3> HIDE DEF n
    <3> QED BY ONLY <2>8, <2>9, <3>1, <3>2
  <2> QED BY <1>3, <2>4, <2>7, <2>10 DEF IsList, new
<1> QED BY <1>2, <1>3, RemoveFirstIs

-----------------------------------------------------------------------------
(* Lists in the order of a priority *)

Sorted(list, P) ==
    \A i, j \in 1 .. Len(list) : i < j => P[list[i]] <= P[list[j]]

\* _ipc_list_suspend puts a thread behind the more urgent and the equally urgent
\* and before the others.
LEMMA InsertSorted ==
    ASSUME NEW S, NEW list \in Seq(S), NEW P \in [S -> Int], Sorted(list, P), NEW t \in S,
           NEW i \in 1 .. Len(list) + 1,
           \A j \in 1 .. i - 1 : P[list[j]] <= P[t],
           i <= Len(list) => P[t] < P[list[i]]
    PROVE  Sorted(InsertAt(list, i, t), P)
<1> DEFINE n == Len(list)
           new == InsertAt(list, i, t)
<1>1. n \in Nat /\ \A j \in 1 .. n : list[j] \in S /\ P[list[j]] \in Int
  OBVIOUS
<1>ins. HasInserted(new, list, i, t, S)
  BY InsertElems
<1>2. /\ Len(new) = n + 1
      /\ \A j \in 1 .. n + 1 : new[j] = IF j < i THEN list[j] ELSE IF j = i THEN t ELSE list[j - 1]
  BY <1>ins DEF HasInserted
<1>3. \A j \in i .. n : P[t] <= P[list[j]]
  <2> SUFFICES ASSUME NEW j \in i .. n PROVE P[t] <= P[list[j]]
    OBVIOUS
  <2>1. P[t] \in Int /\ P[t] < P[list[i]] /\ i \in 1 .. n /\ j \in 1 .. n
    BY <1>1
  <2>2. P[list[i]] <= P[list[j]]
    BY <1>1, <2>1 DEF Sorted
  <2> QED BY <1>1, <2>1, <2>2
<1> HIDE DEF new, n
<1>4. ASSUME NEW x \in 1 .. n + 1, NEW y \in 1 .. n + 1, x < y PROVE P[new[x]] <= P[new[y]]
  <2>0. P[t] \in Int
    OBVIOUS
  <2>1. CASE y < i
    <3>1. x \in 1 .. n /\ y \in 1 .. n /\ new[x] = list[x] /\ new[y] = list[y]
      BY <1>1, <1>2, <1>4, <2>1 DEF n
    <3> QED BY <1>4, <3>1 DEF Sorted, n
  <2>2. CASE y = i
    <3>1. x \in 1 .. i - 1 /\ new[x] = list[x] /\ new[y] = t
      BY <1>1, <1>2, <1>4, <2>2
    <3> QED BY <3>1
  <2>3. CASE y > i
    <3>1. y - 1 \in i .. n /\ y - 1 \in 1 .. n /\ new[y] = list[y - 1]
      BY <1>1, <1>2, <1>4, <2>3
    <3>2. CASE x < i
      <4>1. x \in 1 .. n /\ new[x] = list[x] /\ x < y - 1
        BY <1>1, <1>2, <1>4, <2>3, <3>2, <3>1
      <4> QED BY <3>1, <4>1 DEF Sorted, n
    <3>3. CASE x = i
      BY <1>2, <1>3, <3>1, <3>3
    <3>4. CASE x > i
      <4>1. x - 1 \in 1 .. n /\ new[x] = list[x - 1] /\ x - 1 < y - 1
        BY <1>1, <1>2, <1>4, <3>4
      <4> QED BY <3>1, <4>1 DEF Sorted, n
    <3> QED BY <3>2, <3>3, <3>4
  <2> QED BY <2>1, <2>2, <2>3
<1> QED BY <1>2, <1>4 DEF Sorted, new

LEMMA TailSorted ==
    ASSUME NEW S, NEW list \in Seq(S), list # <<>>, NEW P, Sorted(list, P)
    PROVE  Sorted(Tail(list), P)
<1>1. Len(list) \in Nat \ {0} /\ Len(Tail(list)) = Len(list) - 1
      /\ \A j \in 1 .. Len(list) - 1 : Tail(list)[j] = list[j + 1]
  BY EmptySeq, HeadTailProperties
<1> QED BY <1>1 DEF Sorted

LEMMA RemoveSorted ==
    ASSUME NEW S, NEW list, IsList(list, S), NEW t, NEW P, Sorted(list, P)
    PROVE  Sorted(RemoveFirst(list, t), P)
<1>1. list \in Seq(S) /\ Len(list) \in Nat
  BY DEF IsList
<1>2. CASE RemoveFirst(list, t) = list
  BY <1>2
<1>3. ASSUME NEW k \in 1 .. Len(list), RemoveFirst(list, t) = RemoveAt(list, k)
      PROVE  Sorted(RemoveFirst(list, t), P)
  <2>1. Len(RemoveAt(list, k)) = Len(list) - 1
        /\ \A j \in 1 .. Len(list) - 1 : RemoveAt(list, k)[j] = IF j < k THEN list[j] ELSE list[j + 1]
    BY <1>1, RemoveElems
  <2> QED BY <1>1, <1>3, <2>1 DEF Sorted
<1> QED BY <1>2, <1>3, RemoveFirstIs

\* new is list without the elements of gone, the others in their order.
IsWithout(new, list, gone, S) ==
    /\ IsList(new, S) /\ ToSet(new) = ToSet(list) \ gone
    /\ \A P : Sorted(list, P) => Sorted(new, P)

-----------------------------------------------------------------------------
(* Induction: the library's theorems about it take the induction hypothesis as
   an operator; stated with a set they follow from the order of the numbers
   being well founded. *)

\* Every set of numbers that is not empty has a least one.
LEMMA Least ==
    ASSUME NEW T, T \subseteq Nat, T # {}
    PROVE  \E x \in T : \A y \in T : x <= y
<1> DEFINE R == {p \in Nat \X Nat : p[1] < p[2]}
<1>1. \A x, y \in Nat : <<x, y>> \in R <=> x < y
  OBVIOUS
<1>2. OpToRel(<, Nat) = R
  BY Zenon DEF OpToRel
<1>3. IsWellFoundedOn(R, Nat)
  BY <1>2, NatLessThanWellFounded
<1> HIDE DEF R
<1>4. PICK x \in T : \A y \in T : ~(<<y, x>> \in R)
  BY <1>3, WFMin
<1>5. \A y \in T : x <= y
  <2> TAKE y \in T
  <2>1. x \in Nat /\ y \in Nat /\ ~(y < x)
    BY <1>1, <1>4
  <2> QED BY <2>1
<1> QED BY <1>5

\* So what holds at 0, and at each number when at the one before, holds up to n.
LEMMA UpTo ==
    ASSUME NEW n \in Nat, NEW P, 0 \in P, \A m \in 1 .. n : m - 1 \in P => m \in P
    PROVE  n \in P
<1> DEFINE T == {m \in 0 .. n : m \notin P}
<1> SUFFICES ASSUME n \notin P PROVE FALSE
  OBVIOUS
<1>1. T \subseteq Nat /\ n \in T
  OBVIOUS
<1>2. PICK x \in T : \A y \in T : x <= y
  BY <1>1, Least
<1>3. x \in 1 .. n /\ x \notin P
  BY <1>2
<1>4. x - 1 \in P
  <2>1. x - 1 \in 0 .. n /\ ~(x <= x - 1)
    BY <1>3
  <2> QED BY <1>2, <2>1
<1> QED BY <1>3, <1>4

\* f counts the numbers of S in their order.
Counts(f, S) ==
    /\ f \in Bijection(1 .. Cardinality(S), S)
    /\ \A i, j \in DOMAIN f : i < j => f[i] < f[j]

LEMMA OrderStep ==
    ASSUME NEW S, IsFiniteSet(S), S \subseteq Int, NEW m \in Int, \A x \in S : x < m,
           NEW f, Counts(f, S)
    PROVE  IsFiniteSet(S \cup {m}) /\ \E g : Counts(g, S \cup {m})
<1> DEFINE n == Cardinality(S)
           g == [i \in 1 .. n + 1 |-> IF i = n + 1 THEN m ELSE f[i]]
           U == S \cup {m}
<1>1. n \in Nat
  BY FS_CardinalityType
<1>2. IsFiniteSet(U) /\ Cardinality(U) = n + 1
  BY FS_AddElement
<1> HIDE DEF n
<1>3. /\ f \in [1 .. n -> S]
      /\ \A i, j \in 1 .. n : i < j => f[i] < f[j]
      /\ \A s \in S : \E i \in 1 .. n : f[i] = s
  BY Zenon DEF Counts, Bijection, Surjection, Injection, n
<1>4. g \in [1 .. n + 1 -> U]
  BY <1>1, <1>3
<1>5. \A i \in 1 .. n : f[i] \in S /\ f[i] < m /\ f[i] \in Int
  BY <1>3
<1>6. \A i, j \in 1 .. n + 1 : i < j => g[i] < g[j]
  BY <1>1, <1>3, <1>5
<1>7. \A i \in 1 .. n + 1 : g[i] \in Int
  BY <1>4
<1>8. \A s \in U : \E i \in 1 .. n + 1 : g[i] = s
  <2> TAKE s \in U
  <2>1. CASE s = m
    BY <1>1, <2>1
  <2>2. CASE s \in S
    <3>1. PICK i \in 1 .. n : f[i] = s
      BY <1>3, <2>2
    <3>2. i \in 1 .. n + 1 /\ g[i] = s
      BY <1>1, <3>1
    <3> QED BY <3>2
  <2> QED BY <2>1, <2>2
<1> HIDE DEF g, U
<1>9. \A i, j \in 1 .. n + 1 : g[i] = g[j] => i = j
  BY <1>1, <1>6, <1>7
<1>10. g \in Bijection(1 .. n + 1, U)
  BY <1>4, <1>8, <1>9 DEF Bijection, Surjection, Injection, IsInjective
<1>11. Counts(g, U)
  BY <1>2, <1>4, <1>6, <1>10 DEF Counts
<1> QED BY <1>2, <1>11 DEF U

LEMMA OrderExists ==
    ASSUME NEW n \in Nat, NEW S, S \subseteq 1 .. n
    PROVE  \E f : Counts(f, S)
<1> DEFINE Part(m) == {x \in S : x <= m}
           Fine(m) == IsFiniteSet(Part(m)) /\ \E f : Counts(f, Part(m))
           P == {m \in 0 .. n : Fine(m)}
<1>0. \A x \in S : x \in Int /\ 1 <= x /\ x <= n
  OBVIOUS
<1>1. Fine(0)
  <2>0. \A x \in S : ~(x <= 0)
    BY <1>0
  <2>1. Part(0) = {}
    BY <2>0
  <2>2. IsFiniteSet({}) /\ Cardinality({}) = 0
    BY FS_EmptySet
  <2>3. Counts(<<>>, {})
    BY <2>2 DEF Counts, Bijection, Surjection, Injection, IsInjective
  <2> HIDE DEF Part
  <2> QED BY <2>1, <2>2, <2>3
<1>2. ASSUME NEW m \in 1 .. n, Fine(m - 1) PROVE Fine(m)
  <2>1. m \in Int /\ \A x \in S : x <= m <=> x <= m - 1 \/ x = m
    BY <1>0
  <2>2. CASE m \notin S
    <3>1. Part(m) = Part(m - 1)
      BY <2>1, <2>2
    <3> QED BY <1>2, <3>1
  <2>3. CASE m \in S
    <3>1. Part(m) = Part(m - 1) \cup {m}
      BY <2>1, <2>3
    <3>2. Part(m - 1) \subseteq Int /\ \A x \in Part(m - 1) : x < m
      <4>1. \A x \in S : x <= m - 1 => x < m /\ x \in Int
        BY <1>0, <2>1
      <4> QED BY <4>1
    <3> HIDE DEF Part
    <3>3. PICK f : Counts(f, Part(m - 1))
      BY <1>2
    <3> DEFINE T == Part(m - 1)
    <3> HIDE DEF T
    <3>4. IsFiniteSet(T) /\ T \subseteq Int /\ (\A x \in T : x < m) /\ Counts(f, T)
      BY <1>2, <3>2, <3>3 DEF T
    <3>5. IsFiniteSet(T \cup {m}) /\ \E g : Counts(g, T \cup {m})
      BY <2>1, <3>4, OrderStep
    <3> QED BY <3>1, <3>5 DEF T
  <2> QED BY <2>2, <2>3
<1>3. Part(n) = S
  BY <1>0
<1> HIDE DEF Fine
<1>4. 0 \in P /\ \A m \in 1 .. n : m - 1 \in P => m \in P
  BY <1>1, <1>2
<1>5. n \in P
  <2> HIDE DEF P
  <2> QED BY <1>4, UpTo
<1>6. Fine(n)
  BY <1>5
<1> QED BY <1>3, <1>6 DEF Fine

=============================================================================
