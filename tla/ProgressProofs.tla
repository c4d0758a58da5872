--------------------------- MODULE ProgressProofs ---------------------------
(***************************************************************************)
(* Three parts of the kernel that run against interrupts: the clock of the *)
(* sleepers, for every width of the counter, every latency that is less    *)
(* than a period, any number of sleepers and any requests; the end of the  *)
(* boot, for any number of priorities; and keyboard and mouse, for any     *)
(* keys, movements, depth of the FIFO and number of events on the way.     *)
(***************************************************************************)
EXTENDS QueueProofs, SleepClock, Boot, Input, FiniteSetTheorems, SequenceTheorems

(***************************************************************************)
(* The times at which the items of a delta queue wake.                     *)
(***************************************************************************)

\* The delays of a queue and the times at which its items wake.
LEMMA WakeTimes ==
  ASSUME NEW S, NEW items, IsQueue(items, S)
  PROVE  /\ Len(items) \in Nat
         /\ \A i \in 1 .. Len(items) : items[i].remaining_ticks \in Nat
         /\ \A i \in 0 .. Len(items) : elapsed_time(items)[i] \in Nat
         /\ elapsed_time(items)[0] = 0
         /\ \A i \in 1 .. Len(items) :
              elapsed_time(items)[i] = elapsed_time(items)[i - 1] + items[i].remaining_ticks
  BY QueueDelays, ElapsedTime DEF IsSum

\* A function that adds the delays up is the one DeltaQueue computes.
LEMMA TimesUnique ==
  ASSUME NEW S, NEW items, IsQueue(items, S), NEW f, f[0] = 0,
         \A i \in 1 .. Len(items) : f[i] = f[i - 1] + items[i].remaining_ticks
  PROVE  \A i \in 0 .. Len(items) : elapsed_time(items)[i] = f[i]
<1> DEFINE e == elapsed_time(items)
           T == {i \in 0 .. Len(items) : e[i] # f[i]}
<1>1. /\ Len(items) \in Nat /\ e[0] = 0
      /\ \A i \in 1 .. Len(items) : e[i] = e[i - 1] + items[i].remaining_ticks
  BY WakeTimes
<1> HIDE DEF e
<1>2. SUFFICES ASSUME T # {} PROVE FALSE
  BY DEF e
<1>3. PICK n \in T : \A m \in T : n <= m
  <2>1. T \subseteq Nat
    BY <1>1
  <2> QED
    BY <1>2, <2>1, LeastNatural
<1>4. n \in 0 .. Len(items) /\ e[n] # f[n] /\ n # 0
  BY <1>1
<1>5. n - 1 \in 0 .. Len(items) /\ ~(n <= n - 1) /\ n \in 1 .. Len(items)
  BY <1>1, <1>4
<1>6. e[n - 1] = f[n - 1]
  BY <1>3, <1>5
<1> QED
  BY <1>1, <1>4, <1>5, <1>6

\* No item wakes before the first one.
LEMMA FirstWakesFirst ==
  ASSUME NEW S, NEW items, IsQueue(items, S), NEW i \in 1 .. Len(items)
  PROVE  items[1].remaining_ticks <= elapsed_time(items)[i]
<1> DEFINE e == elapsed_time(items)
           T == {j \in 1 .. Len(items) : ~(e[1] <= e[j])}
<1>1. /\ Len(items) \in Nat /\ e[0] = 0 /\ \A j \in 0 .. Len(items) : e[j] \in Nat
      /\ \A j \in 1 .. Len(items) : e[j] = e[j - 1] + items[j].remaining_ticks
      /\ \A j \in 1 .. Len(items) : items[j].remaining_ticks \in Nat
  BY WakeTimes
<1> HIDE DEF e
<1>2. 1 \in 1 .. Len(items) /\ e[1] = items[1].remaining_ticks
  BY <1>1
<1>3. T = {}
  <2>1. SUFFICES ASSUME T # {} PROVE FALSE
    OBVIOUS
  <2>2. PICK n \in T : \A m \in T : n <= m
    <3>1. T \subseteq Nat
      BY <1>1
    <3> QED
      BY <2>1, <3>1, LeastNatural
  <2>3. n \in 1 .. Len(items) /\ ~(e[1] <= e[n]) /\ n # 1
    BY <1>1, <1>2
  <2>4. n - 1 \in 1 .. Len(items) /\ ~(n <= n - 1)
    BY <1>1, <2>3
  <2>5. e[1] <= e[n - 1]
    BY <2>2, <2>4
  <2>6. e[n] = e[n - 1] + items[n].remaining_ticks /\ e[n - 1] \in Nat /\ items[n].remaining_ticks \in Nat
        /\ e[1] \in Nat
    BY <1>1, <1>2, <2>3, <2>4
  <2> QED
    BY <2>3, <2>5, <2>6
<1> QED
  BY <1>2, <1>3 DEF e

\* The ticks until a task of the queue wakes.
TimeOf(items, t) == elapsed_time(items)[CHOOSE i \in 1 .. Len(items) : items[i].task = t]

\* An item's task wakes at the item's time: it has no other item.
LEMMA TimeAt ==
  ASSUME NEW items, OnceEach(items), NEW i \in 1 .. Len(items)
  PROVE  TimeOf(items, items[i].task) = elapsed_time(items)[i]
<1>1. (CHOOSE j \in 1 .. Len(items) : items[j].task = items[i].task) = i
  BY DEF OnceEach
<1> QED
  BY <1>1 DEF TimeOf

\* A task that does not wake now wakes after the first item's delay.
LEMMA TimeType ==
  ASSUME NEW S, NEW items, IsQueue(items, S), OnceEach(items), NEW t \in TasksOf(items)
  PROVE  TimeOf(items, t) \in Nat /\ (~Due(items) => TimeOf(items, t) # 0)
<1>1. PICK i \in 1 .. Len(items) : t = items[i].task
  BY DEF TasksOf
<1>2. TimeOf(items, t) = elapsed_time(items)[i]
  BY <1>1, TimeAt
<1>3. /\ Len(items) \in Nat /\ i \in 0 .. Len(items) /\ 1 \in 1 .. Len(items) /\ elapsed_time(items)[i] \in Nat
      /\ items[1].remaining_ticks \in Nat /\ items # <<>>
  BY WakeTimes
<1>4. items[1].remaining_ticks <= elapsed_time(items)[i]
  BY FirstWakesFirst
<1> QED
  BY <1>2, <1>3, <1>4 DEF Due

\* add_task: the new sleeper wakes after its ticks, the others when they would have.
LEMMA InsertTimes ==
  ASSUME NEW S, NEW items, IsQueue(items, S), NEW t \in S, NEW ticks \in Nat \ {0},
         OnceEach(items), t \notin TasksOf(items), ~Due(items)
  PROVE  LET new == insert(items, t, ticks)
         IN TimeOf(new, t) = ticks /\ \A s \in TasksOf(items) : TimeOf(new, s) = TimeOf(items, s)
<1> DEFINE new == insert(items, t, ticks)
           e == elapsed_time(items)
<1>0. /\ Len(items) \in Nat
      /\ \A i \in 1 .. Len(items) : items[i].remaining_ticks \in Nat
      /\ \A i \in 0 .. Len(items) : e[i] \in Nat
      /\ e[0] = 0
      /\ \A i \in 1 .. Len(items) : e[i] = e[i - 1] + items[i].remaining_ticks
  BY WakeTimes
<1>1. PICK k \in 1 .. Len(items) + 1 :
        /\ e[k - 1] <= ticks
        /\ k <= Len(items) => ticks < e[k]
        /\ InsertedAt(new, items, k, t, ticks - e[k - 1])
  BY InsertProperties
<1>2. IsQueue(new, S) /\ OnceEach(new)
  BY InsertProperties, InsertSleepers
<1> DEFINE n == ticks - e[k - 1]
           f == [i \in 0 .. Len(items) + 1 |-> IF i < k THEN e[i] ELSE IF i = k THEN ticks ELSE e[i - 1]]
<1> HIDE DEF new, e, n
<1>3. /\ Len(new) = Len(items) + 1
      /\ \A i \in 1 .. Len(items) + 1 :
           new[i] = IF i < k THEN items[i]
                      ELSE IF i = k THEN Item(t, n)
                      ELSE IF i = k + 1 THEN [items[k] EXCEPT !.remaining_ticks = @ - n]
                      ELSE items[i - 1]
  BY <1>1 DEF InsertedAt, n
<1>4. ASSUME NEW i \in 1 .. Len(items) + 1
      PROVE  /\ new[i].task = IF i < k THEN items[i].task ELSE IF i = k THEN t ELSE items[i - 1].task
             /\ new[i].remaining_ticks = IF i < k THEN items[i].remaining_ticks
                                         ELSE IF i = k THEN n
                                         ELSE IF i = k + 1 THEN items[k].remaining_ticks - n
                                         ELSE items[i - 1].remaining_ticks
  <2>0. \A j \in 1 .. Len(items) : items[j] \in [task : S, remaining_ticks : Nat]
    BY ElementOfSeq DEF IsQueue
  <2>1. CASE i < k
    <3>1. new[i] = items[i]
      BY <1>3, <2>1
    <3> QED
      BY <1>0, <2>1, <3>1
  <2>2. CASE i = k
    BY <1>3, <2>2 DEF Item
  <2>3. CASE i = k + 1
    <3>1. k \in 1 .. Len(items) /\ ~(i < k) /\ i # k
      BY <1>0, <2>3
    <3>3. new[i] = [items[k] EXCEPT !.remaining_ticks = @ - n]
      BY <1>3, <2>3, <3>1
    <3>2. new[i].task = items[k].task /\ new[i].remaining_ticks = items[k].remaining_ticks - n
      BY <2>0, <3>1, <3>3
    <3> QED
      BY <1>0, <2>3, <3>2
  <2>4. CASE i > k + 1
    <3>1. new[i] = items[i - 1]
      BY <1>0, <1>3, <2>4
    <3> QED
      BY <1>0, <2>4, <3>1
  <2> QED
    BY <1>0, <2>1, <2>2, <2>3, <2>4
<1>5. f[0] = 0 /\ \A i \in 1 .. Len(new) : f[i] = f[i - 1] + new[i].remaining_ticks
  <2>1. f[0] = 0
    BY <1>0
  <2>2. ASSUME NEW i \in 1 .. Len(items) + 1 PROVE f[i] = f[i - 1] + new[i].remaining_ticks
    <3>1. CASE i < k
      BY <1>0, <1>4, <3>1
    <3>2. CASE i = k
      <4>1. f[i] = ticks /\ f[i - 1] = e[k - 1] /\ new[i].remaining_ticks = n /\ e[k - 1] \in Nat
        BY <1>0, <1>4, <3>2
      <4> QED
        BY <4>1 DEF n
    <3>3. CASE i = k + 1
      <4>1. k \in 1 .. Len(items) /\ f[i] = e[k] /\ f[i - 1] = ticks
            /\ new[i].remaining_ticks = items[k].remaining_ticks - n
        BY <1>0, <1>4, <3>3
      <4>2. e[k] = e[k - 1] + items[k].remaining_ticks /\ e[k - 1] \in Nat /\ items[k].remaining_ticks \in Nat
        BY <1>0, <4>1
      <4> HIDE DEF f
      <4>3. n = ticks - e[k - 1]
        BY DEF n
      <4>4. \A x \in Nat, y \in Nat, z \in Nat : x + y = z + (y - (z - x))
        OBVIOUS
      <4>5. e[k - 1] + items[k].remaining_ticks = ticks + (items[k].remaining_ticks - (ticks - e[k - 1]))
        BY <4>2, <4>4
      <4> QED
        BY <4>1, <4>2, <4>3, <4>5
    <3>4. CASE i > k + 1
      <4>1. f[i] = e[i - 1] /\ f[i - 1] = e[i - 2] /\ new[i].remaining_ticks = items[i - 1].remaining_ticks
        BY <1>0, <1>4, <3>4
      <4>2. i - 1 \in 1 .. Len(items) /\ (i - 1) - 1 = i - 2
        BY <1>0, <3>4
      <4> QED
        BY <1>0, <4>1, <4>2
    <3> QED
      BY <1>0, <3>1, <3>2, <3>3, <3>4
  <2> QED
    BY <1>3, <2>1, <2>2
<1>6. \A i \in 0 .. Len(items) + 1 : elapsed_time(new)[i] = f[i]
  <2> HIDE DEF f
  <2> QED
    BY <1>2, <1>3, <1>5, TimesUnique
<1>7. TimeOf(new, t) = ticks
  <2>1. k \in 1 .. Len(new) /\ new[k].task = t
    BY <1>3, <1>4
  <2>2. TimeOf(new, t) = elapsed_time(new)[k]
    BY <1>2, <2>1, TimeAt
  <2>3. k \in 0 .. Len(items) + 1 /\ ~(k < k)
    BY <1>0
  <2>4. f[k] = ticks
    BY <2>3
  <2> HIDE DEF f
  <2> QED
    BY <1>6, <2>2, <2>3, <2>4
<1>8. ASSUME NEW s \in TasksOf(items) PROVE TimeOf(new, s) = TimeOf(items, s)
  <2>1. PICK i \in 1 .. Len(items) : s = items[i].task
    BY DEF TasksOf
  <2>2. TimeOf(items, s) = e[i]
    BY <2>1, TimeAt DEF e
  <2> DEFINE j == IF i < k THEN i ELSE i + 1
  <2>3. j \in 1 .. Len(new) /\ new[j].task = s /\ f[j] = e[i]
    <3>1. CASE i < k
      BY <1>0, <1>3, <1>4, <2>1, <3>1
    <3>2. CASE ~(i < k)
      <4>1. j = i + 1 /\ i + 1 \in 1 .. Len(items) + 1 /\ ~(i + 1 < k) /\ i + 1 # k /\ (i + 1) - 1 = i
        BY <1>0, <3>2
      <4>2. new[j].task = s
        BY <1>4, <2>1, <4>1
      <4> QED
        BY <1>0, <1>3, <4>1, <4>2
    <3> QED
      BY <3>1, <3>2
  <2> HIDE DEF j, f
  <2>4. TimeOf(new, s) = elapsed_time(new)[j]
    BY <1>2, <2>3, TimeAt
  <2>5. j \in 0 .. Len(items) + 1
    BY <1>0, <1>3, <2>3
  <2> QED
    BY <1>6, <2>2, <2>3, <2>4, <2>5
<1> QED
  BY <1>7, <1>8 DEF new

\* The first statements of tick(): everybody wakes a tick earlier.
LEMMA CountDownTimes ==
  ASSUME NEW S, NEW items, IsQueue(items, S), items # <<>>, OnceEach(items), ~Due(items)
  PROVE  LET new == [items EXCEPT ![1].remaining_ticks = @ - 1]
         IN \A s \in TasksOf(items) : TimeOf(new, s) = TimeOf(items, s) - 1
<1> DEFINE new == [items EXCEPT ![1].remaining_ticks = @ - 1]
           e == elapsed_time(items)
           f == [i \in 0 .. Len(items) |-> IF i = 0 THEN 0 ELSE e[i] - 1]
<1>0. /\ Len(items) \in Nat
      /\ \A i \in 1 .. Len(items) : items[i].remaining_ticks \in Nat
      /\ \A i \in 0 .. Len(items) : e[i] \in Nat
      /\ e[0] = 0
      /\ \A i \in 1 .. Len(items) : e[i] = e[i - 1] + items[i].remaining_ticks
  BY WakeTimes
<1>1. IsQueue(new, S) /\ OnceEach(new)
  BY CountDown
<1>2. /\ Len(new) = Len(items)
      /\ \A i \in 1 .. Len(items) :
           /\ new[i].task = items[i].task
           /\ new[i].remaining_ticks = IF i = 1 THEN items[1].remaining_ticks - 1 ELSE items[i].remaining_ticks
  <2>1. items \in Seq([task : S, remaining_ticks : Nat])
    BY DEF IsQueue
  <2>2. \A i \in 1 .. Len(items) : items[i] \in [task : S, remaining_ticks : Nat]
    BY <2>1, ElementOfSeq
  <2>3. DOMAIN new = DOMAIN items /\ DOMAIN items = 1 .. Len(items) /\ Len(new) = Len(items)
    BY <2>1
  <2>4. \A i \in 1 .. Len(items) : i # 1 => new[i] = items[i]
    BY <2>3
  <2>5. 1 \in 1 .. Len(items) => new[1] = [items[1] EXCEPT !.remaining_ticks = @ - 1]
    BY <2>3
  <2> HIDE DEF new
  <2>6. 1 \in 1 .. Len(items) =>
             /\ new[1].task = items[1].task
             /\ new[1].remaining_ticks = items[1].remaining_ticks - 1
    BY <2>2, <2>5
  <2> QED
    BY <2>3, <2>4, <2>6
<1> HIDE DEF new, e
<1>3. f[0] = 0 /\ \A i \in 1 .. Len(new) : f[i] = f[i - 1] + new[i].remaining_ticks
  <2>1. ASSUME NEW i \in 1 .. Len(items) PROVE f[i] = f[i - 1] + new[i].remaining_ticks
    <3>1. CASE i = 1
      BY <1>0, <1>2, <3>1
    <3>2. CASE i # 1
      <4>0. i \in 0 .. Len(items) /\ i # 0 /\ i - 1 \in 0 .. Len(items) /\ i - 1 # 0
        BY <1>0, <3>2
      <4>1. f[i] = e[i] - 1 /\ f[i - 1] = e[i - 1] - 1 /\ new[i].remaining_ticks = items[i].remaining_ticks
        BY <1>2, <3>2, <4>0
      <4>2. i \in 0 .. Len(items) /\ i - 1 \in 0 .. Len(items)
        BY <1>0
      <4>3. e[i] = e[i - 1] + items[i].remaining_ticks /\ e[i] \in Nat /\ e[i - 1] \in Nat
            /\ items[i].remaining_ticks \in Nat
        BY <1>0, <4>2
      <4> QED
        BY <4>1, <4>3
    <3> QED
      BY <3>1, <3>2
  <2>2. f[0] = 0
    BY <1>0
  <2> QED
    BY <1>2, <2>1, <2>2
<1>4. \A i \in 0 .. Len(items) : elapsed_time(new)[i] = f[i]
  <2> HIDE DEF f
  <2>1. \A i \in 0 .. Len(new) : elapsed_time(new)[i] = f[i]
    BY <1>1, <1>3, TimesUnique
  <2> QED
    BY <1>2, <2>1
<1>5. ASSUME NEW s \in TasksOf(items) PROVE TimeOf(new, s) = TimeOf(items, s) - 1
  <2>1. PICK i \in 1 .. Len(items) : s = items[i].task
    BY DEF TasksOf
  <2>2. TimeOf(items, s) = e[i] /\ TimeOf(new, s) = elapsed_time(new)[i]
    BY <1>1, <1>2, <2>1, TimeAt DEF e
  <2>3. i \in 0 .. Len(items) /\ i # 0
    BY <1>0
  <2> QED
    BY <1>4, <2>2, <2>3
<1> QED
  BY <1>5 DEF new

\* The wake-up loop: when the first item is due, taking it away changes nobody else's time.
LEMMA PopFrontTimes ==
  ASSUME NEW S, NEW items, IsQueue(items, S), OnceEach(items), Due(items)
  PROVE  /\ TimeOf(items, items[1].task) = 0
         /\ \A s \in TasksOf(Tail(items)) : TimeOf(Tail(items), s) = TimeOf(items, s)
<1> DEFINE new == Tail(items)
           e == elapsed_time(items)
           f == [i \in 0 .. Len(items) - 1 |-> e[i + 1]]
<1>0. /\ Len(items) \in Nat
      /\ \A i \in 1 .. Len(items) : items[i].remaining_ticks \in Nat
      /\ \A i \in 0 .. Len(items) : e[i] \in Nat
      /\ e[0] = 0
      /\ \A i \in 1 .. Len(items) : e[i] = e[i - 1] + items[i].remaining_ticks
  BY WakeTimes
<1>1. IsQueue(new, S) /\ OnceEach(new)
  BY PopFront DEF Due
<1>2. /\ Len(items) \in Nat \ {0} /\ Len(new) = Len(items) - 1
      /\ \A i \in 1 .. Len(items) - 1 : new[i] = items[i + 1]
  BY EmptySeq, HeadTailProperties DEF IsQueue, Due
<1> HIDE DEF new, e
<1>3. 1 \in 1 .. Len(items) /\ items[1].remaining_ticks = 0 /\ e[1] = 0
  BY <1>0, <1>2 DEF Due
<1>4. f[0] = 0 /\ \A i \in 1 .. Len(new) : f[i] = f[i - 1] + new[i].remaining_ticks
  <2>1. f[0] = 0
    BY <1>2, <1>3
  <2>2. ASSUME NEW i \in 1 .. Len(items) - 1 PROVE f[i] = f[i - 1] + new[i].remaining_ticks
    <3>1. i + 1 \in 1 .. Len(items) /\ (i + 1) - 1 = i /\ f[i] = e[i + 1] /\ f[i - 1] = e[i]
      BY <1>2
    <3> QED
      BY <1>0, <1>2, <3>1
  <2> QED
    BY <1>2, <2>1, <2>2
<1>5. \A i \in 0 .. Len(items) - 1 : elapsed_time(new)[i] = f[i]
  <2> HIDE DEF f
  <2> QED
    BY <1>1, <1>2, <1>4, TimesUnique
<1>6. TimeOf(items, items[1].task) = 0
  BY <1>3, TimeAt DEF e
<1>7. ASSUME NEW s \in TasksOf(new) PROVE TimeOf(new, s) = TimeOf(items, s)
  <2>1. PICK i \in 1 .. Len(new) : s = new[i].task
    BY DEF TasksOf
  <2>2. i + 1 \in 1 .. Len(items) /\ s = items[i + 1].task
    BY <1>2, <2>1
  <2>3. TimeOf(new, s) = elapsed_time(new)[i] /\ TimeOf(items, s) = e[i + 1]
    BY <1>1, <2>1, <2>2, TimeAt DEF e
  <2>4. i \in 0 .. Len(items) - 1
    BY <1>2
  <2> QED
    BY <1>5, <2>3, <2>4
<1> QED
  BY <1>6, <1>7 DEF new

-----------------------------------------------------------------------------
\* How far the counter has to run from b to reach a.
Distance(a, b) == (a + COUNTER - b) % COUNTER

Counter == 0 .. COUNTER - 1

\* Counting in one round more.
LEMMA Wraps ==
  ASSUME NEW x \in 0 .. 2 * COUNTER - 1
  PROVE  x % COUNTER = IF x < COUNTER THEN x ELSE x - COUNTER
<1>1. COUNTER \in Nat \ {0}
  BY PeriodAssumption
<1> QED
  BY <1>1

\* The distance, without the modulo.
LEMMA DistanceIs ==
  ASSUME NEW a \in Counter, NEW b \in Counter
  PROVE  Distance(a, b) = IF b <= a THEN a - b ELSE a + COUNTER - b
<1>1. COUNTER \in Nat \ {0}
  BY PeriodAssumption
<1>2. a + COUNTER - b \in 0 .. 2 * COUNTER - 1
  BY <1>1 DEF Counter
<1> DEFINE x == a + COUNTER - b
<1>3. Distance(a, b) = IF x < COUNTER THEN x ELSE x - COUNTER
  <2> HIDE DEF x
  <2>1. x % COUNTER = IF x < COUNTER THEN x ELSE x - COUNTER
    BY <1>2, Wraps DEF x
  <2> QED
    BY <2>1 DEF Distance, x
<1> QED
  BY <1>1, <1>3 DEF Counter

\* A sum of a counter value and a time that is shorter than a round.
LEMMA SumIs ==
  ASSUME NEW a \in Counter, NEW n \in 0 .. COUNTER
  PROVE  /\ (a + n) % COUNTER = IF a + n < COUNTER THEN a + n ELSE a + n - COUNTER
         /\ (a + n) % COUNTER \in Counter
<1>1. COUNTER \in Nat \ {0} /\ a + n \in 0 .. 2 * COUNTER - 1
  BY PeriodAssumption DEF Counter
<1> DEFINE x == a + n
<1> HIDE DEF x
<1>2. x % COUNTER = IF x < COUNTER THEN x ELSE x - COUNTER
  BY <1>1, Wraps DEF x
<1> QED
  BY <1>1, <1>2 DEF Counter, x

\* The counter counts: it comes nearer to what is ahead of it and goes away from what is behind it.
LEMMA Counts ==
  ASSUME NEW a \in Counter, NEW b \in Counter
  PROVE  /\ (b + 1) % COUNTER \in Counter
         /\ Distance(a, b) \in 0 .. COUNTER - 1
         /\ Distance(a, b) > 0 => /\ Distance(a, (b + 1) % COUNTER) = Distance(a, b) - 1
                                  /\ (b + 1) % COUNTER = a <=> Distance(a, b) = 1
         /\ Distance(b, a) < COUNTER - 1 => Distance((b + 1) % COUNTER, a) = Distance(b, a) + 1
         /\ Distance(a, a) = 0
<1>1. COUNTER \in Nat \ {0} /\ 1 \in 0 .. COUNTER
  BY PeriodAssumption
<1> DEFINE n == (b + 1) % COUNTER
<1>2. n = (IF b + 1 < COUNTER THEN b + 1 ELSE b + 1 - COUNTER) /\ n \in Counter
  BY <1>1, SumIs
<1> HIDE DEF n
<1>3. /\ Distance(a, b) = IF b <= a THEN a - b ELSE a + COUNTER - b
      /\ Distance(b, a) = IF a <= b THEN b - a ELSE b + COUNTER - a
      /\ Distance(a, a) = IF a <= a THEN a - a ELSE a + COUNTER - a
  BY DistanceIs
<1>4. /\ Distance(a, n) = IF n <= a THEN a - n ELSE a + COUNTER - n
      /\ Distance(n, a) = IF a <= n THEN n - a ELSE n + COUNTER - a
  BY <1>2, DistanceIs
<1>5. a \in Nat /\ b \in Nat /\ a < COUNTER /\ b < COUNTER
  BY <1>1 DEF Counter
<1>6. Distance(a, b) \in 0 .. COUNTER - 1
  BY <1>1, <1>3, <1>5
<1>7. Distance(a, b) > 0 => Distance(a, n) = Distance(a, b) - 1
  BY <1>1, <1>2, <1>3, <1>4, <1>5
<1>8. Distance(a, b) > 0 => (n = a <=> Distance(a, b) = 1)
  BY <1>1, <1>2, <1>3, <1>5
<1>9. Distance(b, a) < COUNTER - 1 => Distance(n, a) = Distance(b, a) + 1
  BY <1>1, <1>2, <1>3, <1>4, <1>5
<1>10. Distance(a, a) = 0
  BY <1>3, <1>5
<1> QED
  BY <1>2, <1>6, <1>7, <1>8, <1>9, <1>10 DEF n

\* The next match is a period behind the read of the counter, a little less behind the counter.
LEMMA NextMatch ==
  ASSUME NEW r \in Counter, NEW c \in Counter, Distance(c, r) < TICK_PERIOD
  PROVE  /\ (r + TICK_PERIOD) % COUNTER \in Counter
         /\ Distance((r + TICK_PERIOD) % COUNTER, c) = TICK_PERIOD - Distance(c, r)
<1>1. COUNTER \in Nat \ {0} /\ TICK_PERIOD \in 0 .. COUNTER /\ TICK_PERIOD \in Nat \ {0}
      /\ TICK_PERIOD < COUNTER
  BY PeriodAssumption
<1> DEFINE n == (r + TICK_PERIOD) % COUNTER
<1>2. n = (IF r + TICK_PERIOD < COUNTER THEN r + TICK_PERIOD ELSE r + TICK_PERIOD - COUNTER) /\ n \in Counter
  BY <1>1, SumIs
<1> HIDE DEF n
<1>3. /\ Distance(c, r) = IF r <= c THEN c - r ELSE c + COUNTER - r
      /\ Distance(n, c) = IF c <= n THEN n - c ELSE n + COUNTER - c
  BY <1>2, DistanceIs
<1>4. c \in Nat /\ r \in Nat /\ c < COUNTER /\ r < COUNTER
  BY <1>1 DEF Counter
<1>5. Distance(n, c) = TICK_PERIOD - Distance(c, r)
  BY <1>1, <1>2, <1>3, <1>4
<1> QED
  BY <1>2, <1>5 DEF n

\* div_round_up() of sleep_task().
LEMMA RoundUp ==
  ASSUME NEW time \in Nat \ {0}
  PROVE  ticks_count(time) \in Nat \ {0} /\ time <= ticks_count(time) * TICK_PERIOD
         /\ ticks_count(time) * TICK_PERIOD <= time + TICK_PERIOD - 1
<1>1. TICK_PERIOD \in Nat \ {0}
  BY PeriodAssumption
<1> DEFINE w == time + TICK_PERIOD - 1
           q == w \div TICK_PERIOD
<1>2. w \in Nat /\ w >= TICK_PERIOD
  BY <1>1
<1> HIDE DEF w
<1>3. q \in Nat /\ q * TICK_PERIOD <= w /\ w < q * TICK_PERIOD + TICK_PERIOD
  BY <1>1, <1>2
<1> HIDE DEF q
<1>4. q # 0
  BY <1>1, <1>2, <1>3
<1>5. ticks_count(time) = q
  BY DEF ticks_count, q, w
<1>6. q * TICK_PERIOD \in Nat
  BY <1>1, <1>3
<1>7. time <= q * TICK_PERIOD /\ q * TICK_PERIOD <= time + TICK_PERIOD - 1
  BY <1>1, <1>3, <1>6 DEF w
<1> QED
  BY <1>3, <1>4, <1>5, <1>7

\* Who asks for more gets no fewer ticks.
LEMMA RoundUpMonotone ==
  ASSUME NEW a \in Nat \ {0}, NEW b \in Nat, a <= b
  PROVE  ticks_count(a) <= ticks_count(b)
<1> DEFINE m == ticks_count(a)
           n == ticks_count(b)
<1>1. TICK_PERIOD \in Nat \ {0} /\ b \in Nat \ {0}
  BY PeriodAssumption
<1>2. /\ m \in Nat /\ n \in Nat
      /\ m * TICK_PERIOD <= a + TICK_PERIOD - 1 /\ b <= n * TICK_PERIOD
  BY <1>1, RoundUp
<1> HIDE DEF m, n
<1>3. SUFFICES ASSUME ~(m <= n) PROVE FALSE
  BY DEF m, n
<1>4. PICK d \in Nat : m = n + 1 + d
  <2>1. m - n - 1 \in Nat /\ m = n + 1 + (m - n - 1)
    BY <1>2, <1>3
  <2> QED
    BY <2>1
<1>5. m * TICK_PERIOD = n * TICK_PERIOD + TICK_PERIOD + d * TICK_PERIOD
  BY <1>1, <1>2, <1>4
<1>6. d * TICK_PERIOD \in Nat /\ n * TICK_PERIOD \in Nat /\ m * TICK_PERIOD \in Nat
  BY <1>1, <1>2
<1> QED
  BY <1>1, <1>2, <1>5, <1>6
-----------------------------------------------------------------------------
\* The invariant of the clock. Between two interrupts the next match is ahead; while the handler runs
\* the counter is at most the latency ahead of what the handler has read; sleepers have one item each
\* and none is overdue when a tick begins, so that the countdown does not wrap.
TimerInv ==
  /\ ~Busy => Distance(compare, clo) \in 1 .. TICK_PERIOD
  /\ handler = "arm" => match /\ Distance(clo, read_clo) <= late
  /\ handler = "tick" => /\ ~match /\ Distance(clo, read_clo) <= late
                         /\ compare = (read_clo + TICK_PERIOD) % COUNTER

SleepersInv ==
  /\ OnceEach(m_items)
  /\ handler # "tick" => ~Due(m_items)

ClockInv == ClockTypeOK /\ TimerInv /\ SleepersInv

\* The number of sleepers and the saturated counter of each.
LEMMA ClockTypes ==
  ASSUME ClockInv
  PROVE  /\ IsQueue(m_items, Sleeper) /\ sleepers = TasksOf(m_items)
         /\ clo \in Counter /\ compare \in Counter /\ read_clo \in Counter
         /\ TICK_PERIOD \in Nat \ {0} /\ COUNTER \in Nat /\ TICK_PERIOD < COUNTER
         /\ MaxLatency \in Nat /\ MaxLatency < TICK_PERIOD /\ late \in Nat /\ late <= MaxLatency
         /\ SleptCap \in Nat
<1>1. ticks_count(MaxRequest) \in Nat
  BY RoundUp, MaxRequestAssumption DEF ticks_count
<1>2. TICK_PERIOD + MaxLatency \in Nat
  BY PeriodAssumption, LatencyAssumption
<1>3. ticks_count(MaxRequest) * (TICK_PERIOD + MaxLatency) \in Nat
  <2> DEFINE m == ticks_count(MaxRequest)
             n == TICK_PERIOD + MaxLatency
  <2> HIDE DEF m, n
  <2>1. m \in Nat /\ n \in Nat => m * n \in Nat
    OBVIOUS
  <2> QED
    BY <1>1, <1>2, <2>1 DEF m, n
<1>4. SleptCap \in Nat
  BY <1>3 DEF SleptCap
<1> QED
  BY <1>4, PeriodAssumption, LatencyAssumption
  DEF ClockInv, ClockTypeOK, IsQueue, Counter, sleepers, TasksOf

\* The invariant holds at the beginning, whatever the counter is.
LEMMA ClockStart == ClockInit => ClockInv
<1> SUFFICES ASSUME ClockInit PROVE ClockInv
  OBVIOUS
<1>1. clo \in Counter /\ Distance(clo, clo) = 0 /\ TICK_PERIOD \in Nat \ {0}
  BY Counts, PeriodAssumption DEF ClockInit, Counter
<1>2. compare \in Counter /\ Distance(compare, clo) = TICK_PERIOD
  BY <1>1, NextMatch DEF ClockInit
<1>3. 0 \in 0 .. MaxRequest /\ 0 \in 0 .. MaxLatency
  BY MaxRequestAssumption, LatencyAssumption
<1>4. 0 \in 0 .. SleptCap
  <2>1. ticks_count(MaxRequest) \in Nat /\ TICK_PERIOD + MaxLatency \in Nat
    BY RoundUp, MaxRequestAssumption, PeriodAssumption, LatencyAssumption DEF ticks_count
  <2> DEFINE m == ticks_count(MaxRequest)
             n == TICK_PERIOD + MaxLatency
  <2> HIDE DEF m, n
  <2>2. m \in Nat /\ n \in Nat => 0 \in 0 .. m * n + 1
    OBVIOUS
  <2> QED
    BY <2>1, <2>2 DEF m, n, SleptCap
<1>5. ClockTypeOK
  <2>1. m_items \in Seq([task : Sleeper, remaining_ticks : Nat])
    BY DEF ClockInit
  <2>2. /\ clo \in 0 .. COUNTER - 1 /\ compare \in 0 .. COUNTER - 1 /\ read_clo \in 0 .. COUNTER - 1
        /\ match \in BOOLEAN /\ handler \in {"idle", "arm", "tick"} /\ late \in 0 .. MaxLatency
    BY <1>1, <1>2, <1>3 DEF ClockInit, Counter
  <2>3. asked \in [Sleeper -> 0 .. MaxRequest] /\ slept \in [Sleeper -> 0 .. SleptCap]
    BY <1>3, <1>4 DEF ClockInit
  <2> QED
    BY <2>1, <2>2, <2>3 DEF ClockTypeOK
<1>6. TimerInv
  BY <1>1, <1>2 DEF ClockInit, TimerInv, Busy
<1>7. SleepersInv
  BY DEF ClockInit, SleepersInv, OnceEach, Due
<1> QED
  BY <1>5, <1>6, <1>7 DEF ClockInv

\* A unit of time passes; the latency is shorter than the period, so that no match is missed.
LEMMA CountKeeps == ASSUME ClockInv, Count PROVE ClockInv'
<1>1. /\ IsQueue(m_items, Sleeper) /\ sleepers = TasksOf(m_items)
      /\ clo \in Counter /\ compare \in Counter /\ read_clo \in Counter
      /\ TICK_PERIOD \in Nat \ {0} /\ COUNTER \in Nat /\ TICK_PERIOD < COUNTER
      /\ MaxLatency \in Nat /\ MaxLatency < TICK_PERIOD /\ late \in Nat /\ late <= MaxLatency
      /\ SleptCap \in Nat
  BY ClockTypes
<1>2. /\ Busy => late < MaxLatency /\ late' = late + 1
      /\ ~Busy => late' = 0
      /\ clo' = (clo + 1) % COUNTER
      /\ match' = (match \/ clo' = compare)
      /\ m_items' = m_items /\ compare' = compare /\ handler' = handler /\ read_clo' = read_clo
      /\ asked' = asked
  BY DEF Count
<1>3. clo' \in Counter /\ late' \in 0 .. MaxLatency
  BY <1>1, <1>2, Counts
<1>4. match' \in BOOLEAN
  BY <1>2
<1>5. slept' \in [Sleeper -> 0 .. SleptCap]
  <2>1. slept' = [t \in Sleeper |-> IF t \in sleepers /\ slept[t] < SleptCap THEN slept[t] + 1 ELSE slept[t]]
    BY DEF Count
  <2>2. slept \in [Sleeper -> 0 .. SleptCap]
    BY DEF ClockInv, ClockTypeOK
  <2> QED
    BY <1>1, <2>1, <2>2
<1>6. ClockTypeOK'
  BY <1>2, <1>3, <1>4, <1>5 DEF ClockInv, ClockTypeOK, Counter
<1>7. ASSUME ~Busy' PROVE Distance(compare', clo') \in 1 .. TICK_PERIOD
  <2>1. ~Busy /\ clo' # compare
    BY <1>2, <1>7 DEF Busy
  <2>2. Distance(compare, clo) \in 1 .. TICK_PERIOD
    BY <2>1 DEF ClockInv, TimerInv
  <2>3. Distance(compare, clo') = Distance(compare, clo) - 1 /\ Distance(compare, clo) # 1
    BY <1>1, <1>2, <2>1, <2>2, Counts
  <2> QED
    BY <1>1, <1>2, <2>2, <2>3
<1>8. ASSUME handler \in {"arm", "tick"} PROVE Distance(clo', read_clo) <= late'
  <2>1. Distance(clo, read_clo) <= late /\ Busy
    BY <1>8 DEF ClockInv, TimerInv, Busy
  <2>2. Distance(clo, read_clo) \in 0 .. COUNTER - 1
    BY <1>1, Counts
  <2>3. Distance(clo, read_clo) < COUNTER - 1
    BY <1>1, <1>2, <2>1, <2>2
  <2>4. Distance(clo', read_clo) = Distance(clo, read_clo) + 1
    BY <1>1, <1>2, <2>3, Counts
  <2> QED
    BY <1>1, <1>2, <2>1, <2>2, <2>4
<1>9. ASSUME handler = "tick" PROVE ~match'
  <2>1. ~match /\ Distance(clo, read_clo) <= late /\ compare = (read_clo + TICK_PERIOD) % COUNTER /\ Busy
    BY <1>9 DEF ClockInv, TimerInv, Busy
  <2>2. Distance(clo, read_clo) \in 0 .. COUNTER - 1
    BY <1>1, Counts
  <2>3. Distance(clo, read_clo) + 1 < TICK_PERIOD
    BY <1>1, <1>2, <2>1, <2>2
  <2>4. Distance(compare, clo) = TICK_PERIOD - Distance(clo, read_clo)
    BY <1>1, <2>1, <2>2, <2>3, NextMatch
  <2>5. Distance(compare, clo) > 1
    BY <1>1, <2>2, <2>3, <2>4
  <2>6. clo' # compare
    BY <1>1, <1>2, <2>5, Counts
  <2> QED
    BY <1>2, <2>1, <2>6
<1>10. TimerInv'
  BY <1>2, <1>7, <1>8, <1>9 DEF ClockInv, TimerInv
<1> QED
  BY <1>2, <1>6, <1>10 DEF ClockInv, SleepersInv

\* SYS_SLEEP inserts a sleeper that is not due.
LEMMA SleepKeeps ==
  ASSUME ClockInv, NEW t \in Sleeper, NEW time \in 0 .. MaxRequest, Sleep(t, time)
  PROVE  /\ ClockInv' /\ TasksOf(m_items') = TasksOf(m_items) \cup {t} /\ t \notin TasksOf(m_items)
         /\ TimeOf(m_items', t) = ticks_count(time)
         /\ \A s \in TasksOf(m_items) : TimeOf(m_items', s) = TimeOf(m_items, s)
<1>1. IsQueue(m_items, Sleeper) /\ OnceEach(m_items) /\ ~Due(m_items) /\ t \notin TasksOf(m_items)
  BY ClockTypes DEF Sleep, ClockInv, SleepersInv
<1>2. ticks_count(time) \in Nat \ {0}
  BY RoundUp, MaxRequestAssumption DEF Sleep
<1>3. m_items' = insert(m_items, t, ticks_count(time))
  BY DEF Sleep, delta_add_task
<1>4. IsQueue(m_items', Sleeper) /\ OnceEach(m_items') /\ ~Due(m_items')
      /\ TasksOf(m_items') = TasksOf(m_items) \cup {t}
  BY <1>1, <1>2, <1>3, InsertProperties, InsertSleepers
<1>5. TimeOf(m_items', t) = ticks_count(time)
      /\ \A s \in TasksOf(m_items) : TimeOf(m_items', s) = TimeOf(m_items, s)
  BY <1>1, <1>2, <1>3, InsertTimes
<1>6. asked' \in [Sleeper -> 0 .. MaxRequest]
  BY DEF Sleep, ClockInv, ClockTypeOK
<1>7. ClockTypeOK'
  BY <1>4, <1>6 DEF Sleep, ClockInv, ClockTypeOK, IsQueue, timerVars
<1>8. TimerInv'
  BY DEF Sleep, ClockInv, TimerInv, Busy, Distance, timerVars
<1> QED
  BY <1>1, <1>4, <1>5, <1>7, <1>8 DEF ClockInv, SleepersInv

\* The handler reads the counter.
LEMMA ReadKeepsClock == ASSUME ClockInv, ReadCounter PROVE ClockInv'
<1>1. clo \in Counter /\ late \in Nat /\ Distance(clo, clo) = 0
  BY ClockTypes, Counts
<1>2. ClockTypeOK'
  BY DEF ReadCounter, ClockInv, ClockTypeOK
<1>3. TimerInv'
  BY <1>1 DEF ReadCounter, TimerInv, Busy, Distance
<1> QED
  BY <1>2, <1>3 DEF ReadCounter, ClockInv, SleepersInv

\* The handler arms the timer and counts the sleepers down; none of them was due before.
LEMMA ArmKeeps ==
  ASSUME ClockInv, ArmAndTick
  PROVE  /\ ClockInv' /\ TasksOf(m_items') = TasksOf(m_items)
         /\ \A s \in TasksOf(m_items) :
              /\ TimeOf(m_items, s) \in Nat \ {0}
              /\ TimeOf(m_items', s) = TimeOf(m_items, s) - 1
<1>1. /\ IsQueue(m_items, Sleeper) /\ OnceEach(m_items) /\ ~Due(m_items)
      /\ clo \in Counter /\ read_clo \in Counter /\ Distance(clo, read_clo) <= late
      /\ TICK_PERIOD \in Nat \ {0} /\ COUNTER \in Nat /\ TICK_PERIOD < COUNTER
      /\ MaxLatency \in Nat /\ MaxLatency < TICK_PERIOD /\ late \in Nat /\ late <= MaxLatency
  BY ClockTypes DEF ArmAndTick, ClockInv, SleepersInv, TimerInv
<1>2. Distance(clo, read_clo) < TICK_PERIOD
  <2>1. Distance(clo, read_clo) \in 0 .. COUNTER - 1
    BY <1>1, Counts
  <2> QED
    BY <1>1, <2>1
<1>3. compare' \in Counter /\ compare' = (read_clo + TICK_PERIOD) % COUNTER
  BY <1>1, <1>2, NextMatch DEF ArmAndTick, setup_next_period
<1>4. IsQueue(m_items', Sleeper) /\ OnceEach(m_items') /\ TasksOf(m_items') = TasksOf(m_items)
      /\ \A s \in TasksOf(m_items) : TimeOf(m_items', s) = TimeOf(m_items, s) - 1
  <2>1. CASE m_items = <<>>
    <3>1. m_items' = m_items /\ TasksOf(m_items) = {}
      BY <2>1 DEF ArmAndTick, delta_count_down, TasksOf
    <3> QED
      BY <1>1, <3>1
  <2>2. CASE m_items # <<>>
    <3>1. m_items' = [m_items EXCEPT ![1].remaining_ticks = @ - 1]
      BY <2>2 DEF ArmAndTick, delta_count_down
    <3> QED
      BY <1>1, <2>2, <3>1, CountDown, CountDownTimes
  <2> QED
    BY <2>1, <2>2
<1>5. \A s \in TasksOf(m_items) : TimeOf(m_items, s) \in Nat \ {0}
  BY <1>1, TimeType
<1>6. ClockTypeOK'
  BY <1>3, <1>4 DEF ArmAndTick, ClockInv, ClockTypeOK, IsQueue, Counter
<1>7. TimerInv'
  BY <1>1, <1>3 DEF ArmAndTick, TimerInv, Busy, Distance
<1> QED
  BY <1>4, <1>5, <1>6, <1>7 DEF ArmAndTick, ClockInv, SleepersInv

\* The wake-up loop takes the first sleeper, which is due.
LEMMA WakeKeeps ==
  ASSUME ClockInv, NEW t \in Sleeper, Wake(t)
  PROVE  /\ ClockInv' /\ t \in TasksOf(m_items) /\ TimeOf(m_items, t) = 0
         /\ TasksOf(m_items') = TasksOf(m_items) \ {t}
         /\ \A s \in TasksOf(m_items') : TimeOf(m_items', s) = TimeOf(m_items, s)
<1>1. IsQueue(m_items, Sleeper) /\ OnceEach(m_items) /\ Due(m_items) /\ m_items # <<>> /\ SleptCap \in Nat
  BY ClockTypes DEF Wake, ClockInv, SleepersInv, delta_due, Due
<1>2. m_items' = Tail(m_items) /\ t = m_items[1].task /\ handler = "tick"
  BY DEF Wake, delta_pop_front
<1>3. /\ IsQueue(m_items', Sleeper) /\ OnceEach(m_items') /\ t \in TasksOf(m_items)
      /\ TasksOf(m_items') = TasksOf(m_items) \ {t}
  BY <1>1, <1>2, PopFront
<1>4. TimeOf(m_items, t) = 0 /\ \A s \in TasksOf(m_items') : TimeOf(m_items', s) = TimeOf(m_items, s)
  BY <1>1, <1>2, PopFrontTimes
<1>5. asked' \in [Sleeper -> 0 .. MaxRequest] /\ slept' \in [Sleeper -> 0 .. SleptCap]
  <2>1. 0 \in 0 .. MaxRequest /\ 0 \in 0 .. SleptCap
    BY <1>1, MaxRequestAssumption
  <2>2. asked \in [Sleeper -> 0 .. MaxRequest] /\ slept \in [Sleeper -> 0 .. SleptCap]
    BY DEF ClockInv, ClockTypeOK
  <2>3. asked' = [asked EXCEPT ![t] = 0] /\ slept' = [slept EXCEPT ![t] = 0]
    BY DEF Wake
  <2> QED
    BY <2>1, <2>2, <2>3
<1>6. ClockTypeOK'
  BY <1>3, <1>5 DEF Wake, ClockInv, ClockTypeOK, IsQueue, timerVars
<1>7. TimerInv'
  BY DEF Wake, ClockInv, TimerInv, Busy, Distance, timerVars
<1>8. handler' = "tick"
  BY <1>2 DEF Wake, timerVars
<1> QED
  BY <1>3, <1>4, <1>6, <1>7, <1>8 DEF ClockInv, SleepersInv

\* The handler returns, and the next match is still ahead.
LEMMA DoneKeeps ==
  ASSUME ClockInv, TickDone
  PROVE  ClockInv' /\ Distance(compare, clo) = TICK_PERIOD - Distance(clo, read_clo)
<1>1. /\ clo \in Counter /\ read_clo \in Counter /\ Distance(clo, read_clo) <= late /\ ~match
      /\ compare = (read_clo + TICK_PERIOD) % COUNTER
      /\ TICK_PERIOD \in Nat \ {0} /\ COUNTER \in Nat /\ TICK_PERIOD < COUNTER
      /\ MaxLatency \in Nat /\ MaxLatency < TICK_PERIOD /\ late \in Nat /\ late <= MaxLatency
  BY ClockTypes DEF TickDone, ClockInv, TimerInv
<1>2. Distance(clo, read_clo) \in 0 .. TICK_PERIOD - 1
  <2>1. Distance(clo, read_clo) \in 0 .. COUNTER - 1
    BY <1>1, Counts
  <2> QED
    BY <1>1, <2>1
<1>3. Distance(compare, clo) = TICK_PERIOD - Distance(clo, read_clo)
  BY <1>1, <1>2, NextMatch
<1>4. Distance(compare, clo) \in 1 .. TICK_PERIOD
  BY <1>1, <1>2, <1>3
<1>5. ClockTypeOK'
  <2>1. 0 \in 0 .. MaxLatency
    BY <1>1
  <2> QED
    BY <2>1 DEF TickDone, ClockInv, ClockTypeOK
<1>6. TimerInv'
  BY <1>4 DEF TickDone, TimerInv, Distance
<1>7. SleepersInv'
  BY DEF TickDone, ClockInv, SleepersInv, delta_due, Due
<1> QED
  BY <1>3, <1>5, <1>6, <1>7 DEF ClockInv

\* Every step of the clock keeps the invariant.
LEMMA ClockStep == ASSUME ClockInv, [ClockNext]_clockVars PROVE ClockInv'
<1>1. CASE SleepSome
  BY <1>1, SleepKeeps DEF SleepSome
<1>2. CASE WakeSome
  BY <1>2, WakeKeeps DEF WakeSome
<1>3. CASE UNCHANGED clockVars
  <2>1. ClockTypeOK'
    BY <1>3 DEF clockVars, timerVars, ClockInv, ClockTypeOK
  <2>2. TimerInv' /\ SleepersInv'
    BY <1>3 DEF clockVars, timerVars, ClockInv, TimerInv, SleepersInv, Busy
  <2> QED
    BY <2>1, <2>2 DEF ClockInv
<1> QED
  BY <1>1, <1>2, <1>3, CountKeeps, ReadKeepsClock, ArmKeeps, DoneKeeps DEF ClockNext

\* The invariant holds always.
LEMMA ClockAlways == ClockSpec => []ClockInv
<1>1. ClockInv /\ [ClockNext]_clockVars => ClockInv'
  BY ClockStep
<1> QED
  BY <1>1, ClockStart, PTL DEF ClockSpec

\* Between two interrupts the compare register of the scheduler's timer is ahead of the counter by at
\* most a period, whatever the width of the counter and the latency of the handler: no tick is skipped.
THEOREM ClockCorrect == ClockSpec => []TimerArmed
<1>1. ClockInv => TimerArmed
  BY DEF ClockInv, TimerInv, TimerArmed, Distance
<1> QED
  BY <1>1, ClockAlways, PTL
-----------------------------------------------------------------------------
\* The delta queue implements one independent countdown per sleeper, however many there are and
\* wherever in the queue they are put.
THEOREM ImplementsTimers == ClockSpec => TimersSpec
<1> DEFINE timer == [t \in sleepers |-> ticks_left(t)]
<1>1. ClockInit => Timers!Init
  BY DEF ClockInit, Timers!Init, sleepers
<1>2. ASSUME ClockInv, [ClockNext]_clockVars PROVE [Timers!Next]_timer
  <2>0. /\ sleepers = TasksOf(m_items) /\ sleepers' = TasksOf(m_items')
        /\ \A t : ticks_left(t) = TimeOf(m_items, t) /\ ticks_left(t)' = TimeOf(m_items', t)
    BY DEF sleepers, TasksOf, ticks_left, TimeOf
  <2>1. ASSUME NEW t \in Sleeper, NEW time \in 0 .. MaxRequest, Sleep(t, time) PROVE Timers!Sleep(t)
    <3>1. /\ t \notin sleepers /\ sleepers' = sleepers \cup {t} /\ ticks_left(t)' = ticks_count(time)
          /\ \A s \in sleepers : ticks_left(s)' = ticks_left(s)
      BY <1>2, <2>0, <2>1, SleepKeeps
    <3>2. ticks_count(time) > 0
      BY <2>1, RoundUp, MaxRequestAssumption DEF Sleep
    <3> QED
      BY <3>1, <3>2 DEF Timers!Sleep, Timers!Sleeping
  <2>2. CASE ArmAndTick
    <3>1. sleepers' = sleepers
          /\ \A s \in sleepers : ticks_left(s) \in Nat \ {0} /\ ticks_left(s)' = ticks_left(s) - 1
      BY <1>2, <2>0, <2>2, ArmKeeps
    <3> QED
      BY <3>1 DEF Timers!Next, Timers!Tick, Timers!Sleeping
  <2>3. ASSUME NEW t \in Sleeper, Wake(t) PROVE Timers!Wake(t)
    <3>1. /\ t \in sleepers /\ ticks_left(t) = 0 /\ sleepers' = sleepers \ {t}
          /\ \A s \in sleepers' : ticks_left(s)' = ticks_left(s)
      BY <1>2, <2>0, <2>3, WakeKeeps
    <3> QED
      BY <3>1 DEF Timers!Wake, Timers!Sleeping
  <2>4. CASE m_items' = m_items
    BY <2>4 DEF sleepers, ticks_left
  <2> QED
    BY <1>2, <2>1, <2>2, <2>3, <2>4
    DEF ClockNext, Count, SleepSome, WakeSome, ReadCounter, TickDone, clockVars, Timers!Next
<1> QED
  BY <1>1, <1>2, ClockAlways, PTL DEF ClockSpec, TimersSpec, Timers!Spec
-----------------------------------------------------------------------------
(***************************************************************************)
(* How long a task sleeps. After k ticks it has slept for k - 1 periods at *)
(* least, the first tick may have come at once, and for k periods with a   *)
(* latency each at most; to both comes the time since the last tick.       *)
(***************************************************************************)
Least(k) == k * TICK_PERIOD
Most(k) == k * (TICK_PERIOD + MaxLatency)

\* Both bounds grow with every tick.
LEMMA Rounds ==
  ASSUME NEW k \in Nat
  PROVE  /\ Least(k) \in Nat /\ Most(k) \in Nat /\ Least(0) = 0 /\ Most(0) = 0
         /\ Least(k + 1) = Least(k) + TICK_PERIOD
         /\ Most(k + 1) = Most(k) + TICK_PERIOD + MaxLatency
<1> DEFINE P == TICK_PERIOD
           M == TICK_PERIOD + MaxLatency
<1>1. P \in Nat /\ M \in Nat
  BY PeriodAssumption, LatencyAssumption
<1> HIDE DEF P, M
<1>2. k * P \in Nat /\ k * M \in Nat /\ 0 * P = 0 /\ 0 * M = 0 /\ (k + 1) * P = k * P + P
      /\ (k + 1) * M = k * M + M
  BY <1>1
<1>3. \A a \in Nat : a + M = a + TICK_PERIOD + MaxLatency
  BY PeriodAssumption, LatencyAssumption DEF M
<1> QED
  BY <1>2, <1>3 DEF Least, Most, P, M

\* More ticks, more time.
LEMMA MostGrows ==
  ASSUME NEW j \in Nat, NEW k \in Nat, j <= k
  PROVE  Most(j) <= Most(k)
<1> DEFINE M == TICK_PERIOD + MaxLatency
<1>1. M \in Nat
  BY PeriodAssumption, LatencyAssumption
<1> HIDE DEF M
<1>2. PICK d \in Nat : k = j + d
  <2>1. k - j \in Nat /\ k = j + (k - j)
    OBVIOUS
  <2> QED
    BY <2>1
<1>3. k * M = j * M + d * M /\ j * M \in Nat /\ d * M \in Nat
  BY <1>1, <1>2
<1> QED
  BY <1>3 DEF Most, M

\* The ticks a sleeper has lived to see.
TicksOf(t) == ticks_count(asked[t]) - TimeOf(m_items, t)

\* What is known of a sleeper's time s after k ticks.
SleptFor(s, k) ==
  /\ handler = "idle" /\ ~match =>
       /\ s + Distance(compare, clo) >= Least(k)
       /\ s + Distance(compare, clo) <= Most(k) + TICK_PERIOD
  /\ handler = "idle" /\ match => s >= Least(k) /\ s <= Most(k) + TICK_PERIOD + late
  /\ handler = "arm" => s >= Least(k) + Distance(clo, read_clo) /\ s <= Most(k) + TICK_PERIOD + late
  /\ handler = "tick" =>
       /\ s + TICK_PERIOD >= Least(k) + Distance(clo, read_clo)
       /\ s + MaxLatency <= Most(k) + late

SleptInv ==
  \A t \in Sleeper :
    IF t \in TasksOf(m_items)
    THEN asked[t] # 0 /\ TicksOf(t) \in Nat /\ SleptFor(slept[t], TicksOf(t))
    ELSE slept[t] = 0

\* What a sleeper's types are, and that its time stays below the bound of the model.
LEMMA SleeperFacts ==
  ASSUME ClockInv, SleptInv, NEW t \in Sleeper, t \in TasksOf(m_items)
  PROVE  /\ asked[t] \in 1 .. MaxRequest /\ slept[t] \in Nat
         /\ TimeOf(m_items, t) \in Nat /\ ticks_count(asked[t]) \in Nat
         /\ TicksOf(t) \in Nat /\ TicksOf(t) <= ticks_count(asked[t])
         /\ SleptFor(slept[t], TicksOf(t))
         /\ slept[t] < SleptCap
<1>1. asked[t] \in 1 .. MaxRequest /\ slept[t] \in 0 .. SleptCap /\ asked[t] \in Nat \ {0} /\ MaxRequest \in Nat
  BY MaxRequestAssumption DEF ClockInv, ClockTypeOK, SleptInv
<1>2. /\ IsQueue(m_items, Sleeper) /\ clo \in Counter /\ compare \in Counter
      /\ TICK_PERIOD \in Nat \ {0} /\ COUNTER \in Nat /\ TICK_PERIOD < COUNTER
      /\ MaxLatency \in Nat /\ MaxLatency < TICK_PERIOD /\ late \in Nat /\ late <= MaxLatency
      /\ SleptCap \in Nat
  BY ClockTypes
<1> DEFINE n == ticks_count(asked[t])
           m == ticks_count(MaxRequest)
           r == TimeOf(m_items, t)
           k == TicksOf(t)
<1>3. n \in Nat /\ m \in Nat /\ n <= m
  BY <1>1, RoundUp, RoundUpMonotone
<1>4. r \in Nat /\ (handler # "tick" => r # 0)
  BY <1>2, TimeType DEF ClockInv, SleepersInv
<1>5. k = n - r /\ k \in Nat /\ SleptFor(slept[t], k)
  BY DEF SleptInv, TicksOf
<1>6. SleptCap = Most(m) + 1 /\ Most(n) <= Most(m) /\ Most(k) \in Nat /\ Most(m) \in Nat /\ Most(n) \in Nat
  BY <1>3, <1>5, MostGrows, Rounds DEF SleptCap, Most
<1>7. handler \in {"idle", "arm", "tick"} /\ match \in BOOLEAN
  BY DEF ClockInv, ClockTypeOK
<1> HIDE DEF n, m, r, k
<1>8. ASSUME handler = "tick" PROVE slept[t] < SleptCap
  <2>1. slept[t] + MaxLatency <= Most(k) + late
    BY <1>5, <1>8 DEF SleptFor
  <2>2. Most(k) <= Most(n)
    BY <1>3, <1>4, <1>5, MostGrows
  <2> QED
    BY <1>1, <1>2, <1>6, <2>1, <2>2
<1>9. ASSUME handler # "tick" PROVE slept[t] < SleptCap
  <2>1. slept[t] <= Most(k) + TICK_PERIOD + MaxLatency
    <3>1. CASE handler = "idle" /\ ~match
      <4>1. slept[t] + Distance(compare, clo) <= Most(k) + TICK_PERIOD
            /\ Distance(compare, clo) \in 0 .. COUNTER - 1
        BY <1>2, <1>5, <3>1, Counts DEF SleptFor
      <4> QED
        BY <1>1, <1>2, <1>6, <4>1
    <3>2. CASE ~(handler = "idle" /\ ~match)
      <4>1. slept[t] <= Most(k) + TICK_PERIOD + late
        BY <1>5, <1>7, <1>9, <3>2 DEF SleptFor
      <4> QED
        BY <1>1, <1>2, <1>6, <4>1
    <3> QED
      BY <3>1, <3>2
  <2>2. k + 1 <= n /\ k + 1 \in Nat
    BY <1>3, <1>4, <1>5, <1>9
  <2>3. Most(k + 1) <= Most(n) /\ Most(k + 1) = Most(k) + TICK_PERIOD + MaxLatency
    BY <1>3, <1>5, <2>2, MostGrows, Rounds
  <2> QED
    BY <1>1, <1>2, <1>6, <2>1, <2>3
<1> QED
  BY <1>1, <1>3, <1>4, <1>5, <1>8, <1>9 DEF n, r, k

\* A unit of time passes for every sleeper and for the time since the last tick.
LEMMA SleptCount == ASSUME ClockInv, SleptInv, Count PROVE SleptInv'
<1>1. /\ sleepers = TasksOf(m_items)
      /\ clo \in Counter /\ compare \in Counter /\ read_clo \in Counter
      /\ TICK_PERIOD \in Nat \ {0} /\ COUNTER \in Nat /\ TICK_PERIOD < COUNTER
      /\ MaxLatency \in Nat /\ MaxLatency < TICK_PERIOD /\ late \in Nat /\ late <= MaxLatency
  BY ClockTypes
<1>2. /\ Busy => late < MaxLatency /\ late' = late + 1
      /\ ~Busy => late' = 0
      /\ clo' = (clo + 1) % COUNTER
      /\ match' = (match \/ clo' = compare)
      /\ m_items' = m_items /\ compare' = compare /\ handler' = handler /\ read_clo' = read_clo
      /\ asked' = asked
      /\ slept' = [t \in Sleeper |-> IF t \in sleepers /\ slept[t] < SleptCap THEN slept[t] + 1 ELSE slept[t]]
  BY DEF Count
<1> SUFFICES ASSUME NEW t \in Sleeper
             PROVE  IF t \in TasksOf(m_items)
                    THEN asked[t] # 0 /\ TicksOf(t) \in Nat /\ SleptFor(slept[t], TicksOf(t))'
                    ELSE slept'[t] = 0
  BY <1>2 DEF SleptInv, TicksOf
<1>3. CASE t \notin TasksOf(m_items)
  BY <1>1, <1>2, <1>3 DEF SleptInv
<1>4. CASE t \in TasksOf(m_items)
  <2> DEFINE k == TicksOf(t)
             s == slept[t]
             c == Distance(compare, clo)
             d == Distance(clo, read_clo)
  <2>1. /\ s \in Nat /\ k \in Nat /\ SleptFor(s, k) /\ asked[t] # 0
        /\ slept'[t] = s + 1
    BY <1>1, <1>2, <1>4, SleeperFacts
  <2>2. TicksOf(t)' = k
    BY <1>2 DEF TicksOf
  <2>3. Least(k) \in Nat /\ Most(k) \in Nat
    BY <2>1, Rounds
  <2>4. c \in 0 .. COUNTER - 1 /\ d \in 0 .. COUNTER - 1
    BY <1>1, Counts
  <2> HIDE DEF s, k
  <2>5. CASE handler = "idle" /\ ~match
    <3>1. s + c >= Least(k) /\ s + c <= Most(k) + TICK_PERIOD
      BY <2>1, <2>5 DEF SleptFor
    <3>2. c \in 1 .. TICK_PERIOD /\ late' = 0
      BY <1>2, <2>5 DEF ClockInv, TimerInv, Busy
    <3>3. Distance(compare', clo') = c - 1 /\ (clo' = compare <=> c = 1)
      BY <1>1, <1>2, <3>2, Counts
    <3> HIDE DEF c
    <3>4. (s + 1) + (c - 1) = s + c
      BY <2>1, <3>2
    <3>5. CASE c = 1
      <4>1. match' /\ handler' = "idle"
        BY <1>2, <2>5, <3>3, <3>5
      <4>2. s + 1 >= Least(k) /\ s + 1 <= Most(k) + TICK_PERIOD + late'
        BY <1>1, <2>1, <2>3, <3>1, <3>2, <3>5
      <4> QED
        BY <1>4, <2>1, <2>2, <4>1, <4>2 DEF SleptFor, k
    <3>6. CASE c # 1
      <4>1. ~match' /\ handler' = "idle"
        BY <1>2, <2>5, <3>3, <3>6
      <4>2. (s + 1) + Distance(compare', clo') >= Least(k)
            /\ (s + 1) + Distance(compare', clo') <= Most(k) + TICK_PERIOD
        BY <3>1, <3>3, <3>4
      <4> QED
        BY <1>4, <2>1, <2>2, <4>1, <4>2 DEF SleptFor, k
    <3> QED
      BY <3>5, <3>6
  <2>6. CASE handler = "idle" /\ match
    <3>1. s >= Least(k) /\ s <= Most(k) + TICK_PERIOD + late
      BY <2>1, <2>6 DEF SleptFor
    <3>2. late' = late + 1 /\ match' /\ handler' = "idle"
      BY <1>2, <2>6 DEF Busy
    <3>3. s + 1 >= Least(k) /\ s + 1 <= Most(k) + TICK_PERIOD + late'
      BY <1>1, <2>1, <2>3, <3>1, <3>2
    <3> QED
      BY <1>4, <2>1, <2>2, <3>2, <3>3 DEF SleptFor, k
  <2>7. CASE handler \in {"arm", "tick"}
    <3>1. late' = late + 1 /\ handler' = handler /\ d <= late /\ late < MaxLatency
      BY <1>2, <2>7 DEF ClockInv, TimerInv, Busy
    <3>2. d < COUNTER - 1
      BY <1>1, <2>4, <3>1
    <3>3. Distance(clo', read_clo') = d + 1
      BY <1>1, <1>2, <3>2, Counts
    <3> HIDE DEF d
    <3>4. CASE handler = "arm"
      <4>1. s >= Least(k) + d /\ s <= Most(k) + TICK_PERIOD + late
        BY <2>1, <3>4 DEF SleptFor, d
      <4>2. s + 1 >= Least(k) + (d + 1) /\ s + 1 <= Most(k) + TICK_PERIOD + late'
        BY <1>1, <2>1, <2>3, <2>4, <3>1, <4>1
      <4> QED
        BY <1>4, <2>1, <2>2, <3>1, <3>3, <3>4, <4>2 DEF SleptFor, k
    <3>5. CASE handler = "tick"
      <4>1. s + TICK_PERIOD >= Least(k) + d /\ s + MaxLatency <= Most(k) + late
        BY <2>1, <3>5 DEF SleptFor, d
      <4>2. (s + 1) + TICK_PERIOD >= Least(k) + (d + 1) /\ (s + 1) + MaxLatency <= Most(k) + late'
        BY <1>1, <2>1, <2>3, <2>4, <3>1, <4>1
      <4> QED
        BY <1>4, <2>1, <2>2, <3>1, <3>3, <3>5, <4>2 DEF SleptFor, k
    <3> QED
      BY <2>7, <3>4, <3>5
  <2>8. handler \in {"idle", "arm", "tick"} /\ match \in BOOLEAN
    BY DEF ClockInv, ClockTypeOK
  <2> QED
    BY <2>5, <2>6, <2>7, <2>8
<1> QED
  BY <1>3, <1>4

\* SYS_SLEEP begins to count; the other sleepers are left alone.
LEMMA SleptSleep ==
  ASSUME ClockInv, SleptInv, NEW t \in Sleeper, NEW time \in 0 .. MaxRequest, Sleep(t, time)
  PROVE  SleptInv'
<1>1. /\ TasksOf(m_items') = TasksOf(m_items) \cup {t} /\ t \notin TasksOf(m_items)
      /\ TimeOf(m_items', t) = ticks_count(time)
      /\ \A s \in TasksOf(m_items) : TimeOf(m_items', s) = TimeOf(m_items, s)
  BY SleepKeeps
<1>2. /\ handler = "idle" /\ time > 0 /\ slept' = slept /\ compare' = compare /\ clo' = clo /\ match' = match
      /\ handler' = handler /\ late' = late /\ read_clo' = read_clo
      /\ asked' = [asked EXCEPT ![t] = time]
  BY DEF Sleep, timerVars
<1>3. asked \in [Sleeper -> 0 .. MaxRequest]
  BY DEF ClockInv, ClockTypeOK
<1> SUFFICES ASSUME NEW u \in Sleeper
             PROVE  IF u \in TasksOf(m_items')
                    THEN asked'[u] # 0 /\ TicksOf(u)' \in Nat /\ SleptFor(slept[u], TicksOf(u))'
                    ELSE slept'[u] = 0
  BY <1>2 DEF SleptInv
<1>4. CASE u = t
  <2>1. asked'[u] = time /\ time # 0 /\ slept'[u] = 0
    BY <1>1, <1>2, <1>3, <1>4, MaxRequestAssumption DEF SleptInv
  <2>2. TicksOf(u)' = 0
    <3>1. TicksOf(u)' = ticks_count(time) - ticks_count(time)
      BY <1>1, <1>4, <2>1 DEF TicksOf
    <3>2. ticks_count(time) \in Nat
      BY <2>1, RoundUp, MaxRequestAssumption
    <3> QED
      BY <3>1, <3>2
  <2>3. /\ clo \in Counter /\ compare \in Counter /\ TICK_PERIOD \in Nat /\ late \in Nat
        /\ ~match => Distance(compare, clo) \in 1 .. TICK_PERIOD
        /\ Least(0) = 0 /\ Most(0) = 0
    BY <1>2, ClockTypes, Rounds DEF ClockInv, TimerInv, Busy
  <2>4. SleptFor(0, 0)
    <3>1. ~match => 0 + Distance(compare, clo) >= 0 /\ 0 + Distance(compare, clo) <= 0 + TICK_PERIOD
      BY <2>3
    <3>2. 0 >= 0 /\ 0 <= 0 + TICK_PERIOD + late
      BY <2>3
    <3> QED
      BY <1>2, <2>3, <3>1, <3>2 DEF SleptFor
  <2>5. SleptFor(slept[u], TicksOf(u))'
    BY <1>2, <2>1, <2>2, <2>4 DEF SleptFor
  <2> QED
    BY <2>1, <2>2, <2>5
<1>5. CASE u # t
  <2>1. asked'[u] = asked[u]
    BY <1>2, <1>3, <1>5
  <2>2. CASE u \in TasksOf(m_items)
    <3>1. TicksOf(u)' = TicksOf(u)
      BY <1>1, <2>1, <2>2 DEF TicksOf
    <3>2. asked[u] # 0 /\ TicksOf(u) \in Nat /\ SleptFor(slept[u], TicksOf(u))
      BY <2>2 DEF SleptInv
    <3>3. SleptFor(slept[u], TicksOf(u))'
      BY <1>2, <3>1, <3>2 DEF SleptFor
    <3> QED
      BY <1>1, <2>1, <2>2, <3>1, <3>2, <3>3
  <2>3. CASE u \notin TasksOf(m_items)
    BY <1>1, <1>2, <1>5, <2>3 DEF SleptInv
  <2> QED
    BY <2>2, <2>3
<1> QED
  BY <1>4, <1>5

\* The counter is read a period after the last tick at least, and MaxLatency later than that at most.
LEMMA SleptRead == ASSUME ClockInv, SleptInv, ReadCounter PROVE SleptInv'
<1>1. /\ handler = "idle" /\ match /\ slept' = slept /\ compare' = compare /\ clo' = clo /\ match' = match
      /\ handler' = "arm" /\ late' = late /\ read_clo' = clo /\ asked' = asked /\ m_items' = m_items
  BY DEF ReadCounter
<1>2. Distance(clo, clo) = 0
  BY ClockTypes, Counts
<1> SUFFICES ASSUME NEW t \in Sleeper, t \in TasksOf(m_items)
             PROVE  SleptFor(slept[t], TicksOf(t))'
  BY <1>1 DEF SleptInv, TicksOf
<1>3. SleptFor(slept[t], TicksOf(t)) /\ TicksOf(t)' = TicksOf(t) /\ TicksOf(t) \in Nat
  BY <1>1 DEF SleptInv, TicksOf
<1>4. Least(TicksOf(t)) \in Nat
  BY <1>3, Rounds
<1>5. slept[t] >= Least(TicksOf(t)) + Distance(clo, clo) /\ slept[t] <= Most(TicksOf(t)) + TICK_PERIOD + late
  BY <1>1, <1>2, <1>3, <1>4 DEF SleptFor
<1> QED
  BY <1>1, <1>3, <1>5 DEF SleptFor

\* A tick: every sleeper has seen one more.
LEMMA SleptArm == ASSUME ClockInv, SleptInv, ArmAndTick PROVE SleptInv'
<1>1. /\ handler = "arm" /\ slept' = slept /\ clo' = clo /\ handler' = "tick" /\ late' = late
      /\ read_clo' = read_clo /\ asked' = asked
  BY DEF ArmAndTick
<1>2. /\ TasksOf(m_items') = TasksOf(m_items)
      /\ \A s \in TasksOf(m_items) :
           /\ TimeOf(m_items, s) \in Nat \ {0}
           /\ TimeOf(m_items', s) = TimeOf(m_items, s) - 1
  BY ArmKeeps
<1> SUFFICES ASSUME NEW t \in Sleeper, t \in TasksOf(m_items)
             PROVE  TicksOf(t)' \in Nat /\ SleptFor(slept[t], TicksOf(t))'
  BY <1>1, <1>2 DEF SleptInv
<1> DEFINE k == TicksOf(t)
           s == slept[t]
           d == Distance(clo, read_clo)
<1>3. /\ clo \in Counter /\ read_clo \in Counter /\ TICK_PERIOD \in Nat \ {0} /\ COUNTER \in Nat
      /\ MaxLatency \in Nat /\ late \in Nat
  BY ClockTypes
<1>4. s \in Nat /\ k \in Nat /\ SleptFor(s, k) /\ ticks_count(asked[t]) \in Nat
  BY SleeperFacts
<1>5. TicksOf(t)' = k + 1
  BY <1>1, <1>2, <1>4 DEF TicksOf
<1>6. /\ Least(k) \in Nat /\ Most(k) \in Nat /\ Least(k + 1) = Least(k) + TICK_PERIOD
      /\ Most(k + 1) = Most(k) + TICK_PERIOD + MaxLatency /\ d \in 0 .. COUNTER - 1
  BY <1>3, <1>4, Rounds, Counts
<1> HIDE DEF s, k, d
<1>7. s >= Least(k) + d /\ s <= Most(k) + TICK_PERIOD + late
  BY <1>1, <1>4 DEF SleptFor, d
<1>8. s + TICK_PERIOD >= Least(k + 1) + d /\ s + MaxLatency <= Most(k + 1) + late
  BY <1>3, <1>4, <1>6, <1>7
<1>9. s = slept[t]
  BY DEF s
<1> QED
  BY <1>1, <1>4, <1>5, <1>8, <1>9 DEF SleptFor, d

\* The handler is done; the time since the tick is the way the counter has gone since.
LEMMA SleptDone == ASSUME ClockInv, SleptInv, TickDone PROVE SleptInv'
<1>1. /\ handler = "tick" /\ slept' = slept /\ clo' = clo /\ handler' = "idle" /\ ~match'
      /\ read_clo' = read_clo /\ compare' = compare /\ asked' = asked /\ m_items' = m_items
  BY DEF TickDone, ClockInv, TimerInv
<1> SUFFICES ASSUME NEW t \in Sleeper, t \in TasksOf(m_items)
             PROVE  SleptFor(slept[t], TicksOf(t))'
  BY <1>1 DEF SleptInv, TicksOf
<1> DEFINE k == TicksOf(t)
           s == slept[t]
           c == Distance(compare, clo)
           d == Distance(clo, read_clo)
<1>2. /\ clo \in Counter /\ read_clo \in Counter /\ TICK_PERIOD \in Nat \ {0} /\ COUNTER \in Nat
      /\ MaxLatency \in Nat /\ late \in Nat /\ late <= MaxLatency
  BY ClockTypes
<1>3. s \in Nat /\ k \in Nat /\ SleptFor(s, k) /\ TicksOf(t)' = k
  BY <1>1, SleeperFacts DEF TicksOf
<1>4. Least(k) \in Nat /\ Most(k) \in Nat /\ d \in 0 .. COUNTER - 1 /\ c = TICK_PERIOD - d
  BY <1>2, <1>3, Rounds, Counts, DoneKeeps
<1>5. s + TICK_PERIOD >= Least(k) + d /\ s + MaxLatency <= Most(k) + late
  BY <1>1, <1>3 DEF SleptFor
<1> HIDE DEF s, k, c, d
<1>6. s + c >= Least(k) /\ s + c <= Most(k) + TICK_PERIOD
  BY <1>2, <1>3, <1>4, <1>5
<1>7. Distance(compare', clo') = c /\ s = slept'[t]
  BY <1>1 DEF c, s
<1> QED
  BY <1>1, <1>3, <1>6, <1>7 DEF SleptFor

\* A task that is woken has slept for as long as its ticks say; the others sleep on.
LEMMA SleptWake ==
  ASSUME ClockInv, SleptInv, NEW t \in Sleeper, Wake(t)
  PROVE  /\ SleptInv'
         /\ slept[t] + TICK_PERIOD >= asked[t]
         /\ slept[t] <= ticks_count(asked[t]) * (TICK_PERIOD + MaxLatency)
<1>1. /\ t \in TasksOf(m_items) /\ TimeOf(m_items, t) = 0 /\ TasksOf(m_items') = TasksOf(m_items) \ {t}
      /\ \A s \in TasksOf(m_items') : TimeOf(m_items', s) = TimeOf(m_items, s)
  BY WakeKeeps
<1>2. /\ handler = "tick" /\ clo' = clo /\ handler' = handler /\ late' = late /\ read_clo' = read_clo
      /\ asked' = [asked EXCEPT ![t] = 0] /\ slept' = [slept EXCEPT ![t] = 0]
  BY DEF Wake, timerVars
<1>3. asked \in [Sleeper -> 0 .. MaxRequest] /\ slept \in [Sleeper -> 0 .. SleptCap]
  BY DEF ClockInv, ClockTypeOK
<1>4. SleptInv'
  <2> SUFFICES ASSUME NEW u \in Sleeper
               PROVE  IF u \in TasksOf(m_items')
                      THEN asked'[u] # 0 /\ TicksOf(u)' \in Nat /\ SleptFor(slept[u], TicksOf(u))'
                      ELSE slept'[u] = 0
    BY DEF SleptInv
  <2>1. CASE u = t
    BY <1>1, <1>2, <1>3, <2>1
  <2>2. CASE u # t
    <3>1. asked'[u] = asked[u] /\ slept'[u] = slept[u]
      BY <1>2, <1>3, <2>2
    <3>2. CASE u \in TasksOf(m_items)
      <4>1. TicksOf(u)' = TicksOf(u) /\ u \in TasksOf(m_items')
        BY <1>1, <2>2, <3>1, <3>2 DEF TicksOf
      <4>2. asked[u] # 0 /\ TicksOf(u) \in Nat /\ SleptFor(slept[u], TicksOf(u))
        BY <3>2 DEF SleptInv
      <4>3. SleptFor(slept[u], TicksOf(u))'
        BY <1>2, <3>1, <4>1, <4>2 DEF SleptFor
      <4> QED
        BY <3>1, <4>1, <4>2, <4>3
    <3>3. CASE u \notin TasksOf(m_items)
      BY <1>1, <3>1, <3>3 DEF SleptInv
    <3> QED
      BY <3>2, <3>3
  <2> QED
    BY <2>1, <2>2
<1> DEFINE k == ticks_count(asked[t])
           s == slept[t]
           a == asked[t]
           d == Distance(clo, read_clo)
<1>5. /\ clo \in Counter /\ read_clo \in Counter /\ TICK_PERIOD \in Nat \ {0} /\ COUNTER \in Nat
      /\ MaxLatency \in Nat /\ late \in Nat /\ late <= MaxLatency
  BY ClockTypes
<1>6. s \in Nat /\ k \in Nat /\ a \in Nat \ {0} /\ SleptFor(s, k)
  <2>1. /\ asked[t] \in 1 .. MaxRequest /\ s \in Nat /\ k \in Nat /\ SleptFor(s, TicksOf(t))
    BY <1>1, SleeperFacts
  <2>2. TicksOf(t) = k
    BY <1>1, <2>1 DEF TicksOf
  <2> QED
    BY <2>1, <2>2, MaxRequestAssumption
<1>7. Least(k) \in Nat /\ Most(k) \in Nat /\ d \in 0 .. COUNTER - 1 /\ a <= Least(k)
  BY <1>5, <1>6, Rounds, Counts, RoundUp DEF Least
<1>8. s + TICK_PERIOD >= Least(k) + d /\ s + MaxLatency <= Most(k) + late
  BY <1>2, <1>6 DEF SleptFor
<1> HIDE DEF s, k, a, d
<1>9. s + TICK_PERIOD >= a /\ s <= Most(k)
  BY <1>5, <1>6, <1>7, <1>8
<1>10. slept[t] + TICK_PERIOD >= asked[t] /\ slept[t] <= ticks_count(asked[t]) * (TICK_PERIOD + MaxLatency)
  BY <1>9 DEF s, k, a, Most
<1> QED
  BY <1>4, <1>10

\* SYS_SLEEP wakes a task at most one tick too early, and at most a period and a latency for each tick
\* late, for every width of the counter, however many others sleep.
THEOREM SleepIsBounded == ClockSpec => SleepDuration
<1>1. ClockInit => SleptInv
  BY DEF ClockInit, SleptInv, TasksOf
<1>2. ClockInv /\ SleptInv /\ [ClockNext]_clockVars => SleptInv'
  <2> SUFFICES ASSUME ClockInv, SleptInv, [ClockNext]_clockVars PROVE SleptInv'
    OBVIOUS
  <2>1. CASE SleepSome
    BY <2>1, SleptSleep DEF SleepSome
  <2>2. CASE WakeSome
    BY <2>2, SleptWake DEF WakeSome
  <2>3. CASE UNCHANGED clockVars
    BY <2>3 DEF clockVars, timerVars, SleptInv, SleptFor, TicksOf
  <2> QED
    BY <2>1, <2>2, <2>3, SleptCount, SleptRead, SleptArm, SleptDone DEF ClockNext
<1>3. ClockInv /\ SleptInv =>
        [\A t \in Sleeper : Wake(t) =>
           /\ slept[t] + TICK_PERIOD >= asked[t]
           /\ slept[t] <= ticks_count(asked[t]) * (TICK_PERIOD + MaxLatency)]_clockVars
  BY SleptWake
<1> QED
  BY <1>1, <1>2, <1>3, ClockAlways, PTL DEF ClockSpec, SleepDuration
-----------------------------------------------------------------------------
(***************************************************************************)
(* The boot.                                                               *)
(***************************************************************************)

\* No task is queued, and only init is, in the queue of its priority.
Unqueued == [p \in Priority |-> <<>>]
InitQueued == [p \in Priority |-> IF p = DEFAULT_PRIORITY THEN <<init_task>> ELSE <<>>]

BeforeWake == {"keyboard", "instance", "scheduler", "timer", "create", "wake"}
Entering == {"activate", "ready", "jump", "el0"}

BootInv ==
  /\ BootGaps
  /\ boot_pc \in BeforeWake \cup {"running", "while", "find", "pop", "switch"} \cup Entering
  /\ boot_pc = "el0" => halted_at = "no"
  /\ halted_at = "no" =>
       /\ m_priority = [t \in Task |-> DEFAULT_PRIORITY]
       /\ m_state = [t \in Task |-> IF t = init_task /\ boot_pc \notin BeforeWake \cup {"running"} THEN RUNNING
                                    ELSE INTERRUPTIBLE]
       /\ g_instance <=> (boot_pc \notin {"keyboard", "instance"})
       /\ m_scheduler <=> (boot_pc \notin {"keyboard", "instance", "scheduler"})
       /\ timer_runs <=> (boot_pc \notin {"keyboard", "instance", "scheduler", "timer"})
       /\ keyboard_on <=> (boot_pc # "keyboard")
       /\ activated <=> (boot_pc \in {"ready", "jump", "el0"})
       /\ m_is_ready <=> (boot_pc \in {"jump", "el0"})
       /\ boot_pc \in BeforeWake => m_run_queue = Unqueued /\ m_current_task = NoTask
       /\ boot_pc = "running" => m_run_queue = InitQueued /\ m_current_task = NoTask
       /\ boot_pc \in {"while", "find", "pop"} =>
            \/ m_run_queue = InitQueued /\ m_current_task = NoTask
            \/ m_run_queue = Unqueued /\ m_current_task = init_task
       /\ boot_pc = "switch" => m_run_queue = Unqueued /\ m_current_task = NoTask /\ new_task = init_task
       /\ boot_pc \in Entering => m_run_queue = Unqueued /\ m_current_task = init_task

\* The queues of the boot: what schedule() and tick() find in them.
LEMMA BootQueues ==
  /\ DEFAULT_PRIORITY \in Priority /\ init_task \in Task /\ NoTask \notin Task /\ RUNNING # INTERRUPTIBLE
  /\ m_run_queue = Unqueued => \A P \in SUBSET Priority : NonEmpty(P) = {}
  /\ m_run_queue = InitQueued =>
       /\ \A P \in SUBSET Priority : NonEmpty(P) = P \cap {DEFAULT_PRIORITY}
       /\ Head(m_run_queue[DEFAULT_PRIORITY]) = init_task
       /\ [m_run_queue EXCEPT ![DEFAULT_PRIORITY] = Tail(@)] = Unqueued
<1>1. DEFAULT_PRIORITY \in Priority
  <2>1. MAX_PRIORITY \in Nat
    BY MaxPriorityAssumption
  <2>2. MAX_PRIORITY \div 2 \in 0 .. MAX_PRIORITY
    BY <2>1
  <2> QED
    BY <2>2 DEF DEFAULT_PRIORITY, Priority
<1>2. init_task \in Task /\ NoTask \notin Task /\ RUNNING # INTERRUPTIBLE
  BY NoTaskIsNone DEF init_task, RUNNING, INTERRUPTIBLE
<1>3. ASSUME m_run_queue = Unqueued, NEW P \in SUBSET Priority PROVE NonEmpty(P) = {}
  BY <1>3 DEF NonEmpty, Unqueued
<1>4. ASSUME m_run_queue = InitQueued
      PROVE  /\ \A P \in SUBSET Priority : NonEmpty(P) = P \cap {DEFAULT_PRIORITY}
             /\ Head(m_run_queue[DEFAULT_PRIORITY]) = init_task
             /\ [m_run_queue EXCEPT ![DEFAULT_PRIORITY] = Tail(@)] = Unqueued
  <2> DEFINE s == <<init_task>>
  <2>1. s # <<>> /\ Head(s) = init_task /\ Tail(s) = <<>>
    OBVIOUS
  <2> HIDE DEF s
  <2>2. m_run_queue = [p \in Priority |-> IF p = DEFAULT_PRIORITY THEN s ELSE <<>>]
    BY <1>4 DEF InitQueued, s
  <2>3. m_run_queue[DEFAULT_PRIORITY] = s
    BY <1>1, <2>2
  <2>4. \A P \in SUBSET Priority : NonEmpty(P) = P \cap {DEFAULT_PRIORITY}
    BY <2>1, <2>2 DEF NonEmpty
  <2>5. [m_run_queue EXCEPT ![DEFAULT_PRIORITY] = Tail(s)] = Unqueued
    BY <1>1, <2>1, <2>2 DEF Unqueued
  <2> QED
    BY <2>1, <2>3, <2>4, <2>5
<1> QED
  BY <1>1, <1>2, <1>3, <1>4

\* tick() during the boot: it finds init, if it is queued and not of the lowest priority, or nothing.
LEMMA TickInBoot ==
  ASSUME tick, m_priority = [t \in Task |-> DEFAULT_PRIORITY],
         \/ m_run_queue = InitQueued /\ m_current_task = NoTask
         \/ m_run_queue = Unqueued /\ m_current_task \in {NoTask, init_task}
  PROVE  \/ m_run_queue' = m_run_queue /\ m_current_task' = m_current_task
         \/ m_run_queue = InitQueued /\ m_run_queue' = Unqueued /\ m_current_task' = init_task
<1> DEFINE higher == NonEmpty(higher_priorities)
           peers == NonEmpty(round_robin_priorities)
           elapsed == charge(m_current_task)
           expired == /\ m_current_task # NoTask
                      /\ elapsed[m_current_task] >= get_time_slice_for_priority(m_priority[m_current_task])
<1>1. higher_priorities \in SUBSET Priority
  BY DEF higher_priorities
<1>2. CASE m_run_queue = Unqueued
  <2>1. higher = {}
    BY <1>1, <1>2, BootQueues
  <2>2. peers = {}
    <3>1. get_current_priority \in Priority
      BY NoTaskIsNone, BootQueues DEF get_current_priority
    <3>2. round_robin_priorities \in SUBSET Priority
      BY <3>1 DEF round_robin_priorities
    <3> QED
      BY <1>2, <3>2, BootQueues
  <2>3. no_switch(m_current_task, elapsed)
    BY <2>1, <2>2 DEF tick
  <2> QED
    BY <2>3 DEF no_switch
<1>3. CASE m_run_queue = InitQueued /\ m_current_task = NoTask
  <2>1. ~expired
    BY <1>3
  <2>2. CASE higher = {}
    <3>1. no_switch(m_current_task, elapsed)
      BY <2>1, <2>2 DEF tick
    <3> QED
      BY <3>1 DEF no_switch
  <2>3. CASE higher # {}
    <3>1. higher = {DEFAULT_PRIORITY}
      BY <1>1, <1>3, <2>3, BootQueues
    <3>2. Highest(higher) = DEFAULT_PRIORITY
      <4>1. higher \subseteq Priority
        BY <3>1, BootQueues
      <4> QED
        BY <2>3, <3>1, <4>1, HighestIsHighest
    <3>3. switch_to(DEFAULT_PRIORITY, NoTask, elapsed)
      BY <1>3, <2>3, <3>2 DEF tick
    <3> QED
      BY <1>3, <3>3, BootQueues DEF switch_to
  <2> QED
    BY <2>2, <2>3
<1> QED
  BY <1>2, <1>3

\* What the steps of the boot, and the two interrupts, make of it.
LEMMA BootStepKeeps == ASSUME BootInv, BootStep PROVE BootInv'
<1>0. halted_at = "no"
  BY DEF BootStep, InitKeyboard, SetInstance, MakeScheduler, StartTimer, CreateInit, WakeInit, InitIsRunning,
         While, Find, Pop, Switch, ActivateMemory, MarkAsReady, JumpToEl0, goes
<1> USE DEF BootInv, BootGaps, BeforeWake, Entering, goes, objects, schedVars
<1>1. CASE InitKeyboard
  BY <1>0, <1>1 DEF InitKeyboard
<1>2. CASE SetInstance
  BY <1>0, <1>2 DEF SetInstance
<1>3. CASE MakeScheduler
  BY <1>0, <1>3 DEF MakeScheduler
<1>4. CASE StartTimer
  BY <1>0, <1>4 DEF StartTimer
<1>5. CASE CreateInit
  BY <1>0, <1>5 DEF CreateInit
<1>6. CASE WakeInit
  <2>1. m_run_queue' = InitQueued
    <3>1. /\ m_run_queue = Unqueued /\ m_priority[init_task] = DEFAULT_PRIORITY
          /\ m_run_queue' = [m_run_queue EXCEPT ![m_priority[init_task]] = Append(@, init_task)]
      BY <1>0, <1>6, BootQueues DEF WakeInit, add_task
    <3>2. Append(<<>>, init_task) = <<init_task>>
      OBVIOUS
    <3> QED
      BY <3>1, <3>2, BootQueues DEF Unqueued, InitQueued
  <2> QED
    BY <1>0, <1>6, <2>1 DEF WakeInit, add_task
<1>7. CASE InitIsRunning
  BY <1>0, <1>7 DEF InitIsRunning
<1>8. CASE While
  BY <1>0, <1>8, BootQueues DEF While
<1>9. CASE Find
  BY <1>0, <1>9 DEF Find
<1>10. CASE Pop
  <2>1. CASE m_run_queue = Unqueued
    <3>1. NonEmpty(Priority) = {}
      BY <2>1, BootQueues
    <3> QED
      BY <1>0, <1>10, <3>1 DEF Pop
  <2>2. CASE m_run_queue = InitQueued /\ m_current_task = NoTask
    <3>1. NonEmpty(Priority) = {DEFAULT_PRIORITY}
      BY <2>2, BootQueues
    <3>2. Highest(NonEmpty(Priority)) = DEFAULT_PRIORITY
      BY <3>1, BootQueues, HighestIsHighest
    <3>3. m_run_queue' = Unqueued /\ new_task' = init_task /\ halted_at' = halted_at
      BY <1>10, <2>2, <3>1, <3>2, BootQueues DEF Pop
    <3> QED
      BY <1>0, <1>10, <2>2, <3>3 DEF Pop
  <2> QED
    BY <1>0, <1>10, <2>1, <2>2 DEF Pop
<1>11. CASE Switch
  <2>1. m_state[init_task] = RUNNING
    BY <1>0, <1>11, BootQueues DEF Switch
  <2> QED
    BY <1>0, <1>11, <2>1 DEF Switch, is_running
<1>12. CASE ActivateMemory
  BY <1>0, <1>12 DEF ActivateMemory
<1>13. CASE MarkAsReady
  BY <1>0, <1>13 DEF MarkAsReady
<1>14. CASE JumpToEl0
  BY <1>0, <1>14 DEF JumpToEl0
<1> QED
  BY <1>1, <1>2, <1>3, <1>4, <1>5, <1>6, <1>7, <1>8, <1>9, <1>10, <1>11, <1>12, <1>13, <1>14 DEF BootStep

\* A byte on the input line, at any point of the boot.
LEMMA BootInputKeeps == ASSUME BootInv, BootInput PROVE BootInv'
  BY DEF BootInv, BootGaps, BeforeWake, Entering, BootInput, objects, schedVars, may_ask_current_task

\* A tick, at any point of the boot.
LEMMA BootTickKeeps == ASSUME BootInv, BootTick PROVE BootInv'
<1>1. /\ halted_at = "no" /\ may_ask_current_task /\ tick
      /\ m_state' = m_state /\ m_priority' = m_priority
      /\ UNCHANGED <<objects, new_task, activated, m_is_ready>>
      /\ halted_at' = IF m_current_task' = NoTask \/ is_running(m_current_task') THEN "no" ELSE boot_pc
      /\ boot_pc' = IF m_is_ready /\ m_current_task' # m_current_task THEN "el0" ELSE boot_pc
  BY DEF BootTick, BootInv, may_ask_current_task, BeforeWake
<1>2. m_priority = [t \in Task |-> DEFAULT_PRIORITY]
  BY <1>1 DEF BootInv
<1>3. \/ m_run_queue = InitQueued /\ m_current_task = NoTask
      \/ m_run_queue = Unqueued /\ m_current_task \in {NoTask, init_task}
  BY <1>1 DEF BootInv
<1>4. CASE m_run_queue' = m_run_queue /\ m_current_task' = m_current_task
  <2>1. m_current_task = init_task => m_state[init_task] = RUNNING
    BY <1>1, BootQueues DEF BootInv, BeforeWake, Entering
  <2>2. halted_at' = "no" /\ boot_pc' = boot_pc
    BY <1>1, <1>3, <1>4, <2>1 DEF is_running
  <2> QED
    BY <1>1, <1>4, <2>2 DEF BootInv, BootGaps, objects
<1>5. CASE m_run_queue = InitQueued /\ m_run_queue' = Unqueued /\ m_current_task' = init_task
  <2>1. Unqueued # InitQueued
    <3>1. <<init_task>> # <<>>
      OBVIOUS
    <3> QED
      BY <3>1, BootQueues DEF Unqueued, InitQueued
  <2>2. boot_pc \in {"running", "while", "find", "pop"} /\ ~m_is_ready
    BY <1>1, <1>5, <2>1 DEF BootInv, BeforeWake, Entering
  <2>3. boot_pc' = boot_pc
    BY <1>1, <2>2
  <2>4. CASE boot_pc = "running"
    <3>1. m_state[init_task] = INTERRUPTIBLE
      BY <1>1, <2>4, BootQueues DEF BootInv
    <3>2. halted_at' = "running"
      BY <1>1, <1>5, <2>4, <3>1, BootQueues DEF is_running
    <3> QED
      BY <2>3, <2>4, <3>2 DEF BootInv, BootGaps
  <2>5. CASE boot_pc \in {"while", "find", "pop"}
    <3>1. m_state[init_task] = RUNNING
      BY <1>1, <2>5, BootQueues DEF BootInv, BeforeWake
    <3>2. halted_at' = "no"
      BY <1>1, <1>5, <3>1 DEF is_running
    <3> QED
      BY <1>1, <1>5, <2>3, <2>5, <3>2 DEF BootInv, BootGaps, BeforeWake, Entering, objects
  <2> QED
    BY <2>2, <2>4, <2>5
<1> QED
  BY <1>2, <1>3, <1>1, <1>4, <1>5, TickInBoot

\* Wherever ticks and input hit the boot, it ends with init entered in a sound state, or the kernel
\* stops in one of the six known places, for any number of priorities.
THEOREM BootCorrect == BootSpec => []BootIsSafe
<1>1. BootInit => BootInv
  BY DEF BootInit, BootInv, BootGaps, BeforeWake, Entering, Unqueued
<1>2. BootInv /\ [BootNext]_bootVars => BootInv'
  <2>1. ASSUME BootInv, UNCHANGED bootVars PROVE BootInv'
    BY <2>1 DEF bootVars, schedVars, objects, BootInv, BootGaps
  <2> QED
    BY <2>1, BootStepKeeps, BootInputKeeps, BootTickKeeps DEF BootNext
<1>3. BootInv => BootIsSafe
  <2> SUFFICES ASSUME BootInv PROVE BootIsSafe
    OBVIOUS
  <2>1. ASSUME boot_pc = "el0" PROVE InitIsEntered
    <3>1. /\ m_run_queue = Unqueued /\ m_current_task = init_task /\ activated /\ m_is_ready
          /\ m_state = [t \in Task |-> IF t = init_task THEN RUNNING ELSE INTERRUPTIBLE]
      BY <2>1 DEF BootInv, Entering, BeforeWake
    <3> QED
      BY <3>1, BootQueues DEF InitIsEntered, is_running
  <2> QED
    BY <2>1 DEF BootInv, BootIsSafe, InitIsEntered
<1> QED
  BY <1>1, <1>2, <1>3, PTL DEF BootSpec

(***************************************************************************)
(* The events on the way from the keys to the window manager.              *)
(***************************************************************************)

Group == {"CTRL", "SHIFT", "ALT", "ALT_GR", "GUI"}
Lock == {"CAPS", "NUM"}
Keys == [down : [Group -> Nat], locks : SUBSET Lock]

InputEvent == {KeyEvent(code, p, mods) : code \in Nat, p \in BOOLEAN, mods \in SUBSET (Group \cup Lock)}
              \cup {MoveEvent(x, y) : x \in Int, y \in Int} \cup {ClickEvent(x, p) : x \in Nat, p \in BOOLEAN}

\* What KeyboardSystem knows, and what it would know if nothing were on the way: how many of the
\* keys that are held belong to a group.
KeysNow == [down |-> is_pressed, locks |-> is_lock]
KeysIn(H, g) == Cardinality({k \in H : group(kernel_code[k]) = g})
KeysHeld == [down |-> [g \in Group |-> KeysIn(held_keys, g)], locks |-> lock_on]

\* A packet is a header h and up to two bytes x and y: whether it makes an event, what it does to
\* the keys, and which event it is.
HasEvent(h) == h % 16 \in {1, 2, 4}

KeysAfter(h, x, y, s) ==
  IF h % 16 # 4 THEN s
  ELSE LET g == group(x + 256 * y) IN
       [down |-> IF g = "none" THEN s.down
                 ELSE IF bit(h, 4) THEN [s.down EXCEPT ![g] = @ + 1]
                 ELSE [s.down EXCEPT ![g] = IF @ = 0 THEN 0 ELSE @ - 1],
        locks |-> IF bit(h, 4) THEN toggle(s.locks, lock(x + 256 * y)) ELSE s.locks]

EventOf(h, x, y, s) ==
  IF h % 16 = 1 THEN MoveEvent(signed(x, bit(h, 4)), signed(y, bit(h, 5)))
  ELSE IF h % 16 = 2 THEN ClickEvent(x, bit(h, 4))
  ELSE KeyEvent(x + 256 * y, bit(h, 4),
                get_current_key_modifiers(KeysAfter(h, x, y, s).down, KeysAfter(h, x, y, s).locks))

\* The packet at position b of the bytes S: the next one begins where it ends.
PacketAt(b, S, P, Ends, sent, keys) ==
  LET e == b + packet_length(S[b]) IN
  /\ e \in Ends /\ \A c \in Ends : c <= b \/ e <= c
  /\ keys[e] = KeysAfter(S[b], S[b + 1], S[b + 2], keys[b])
  /\ IF HasEvent(S[b])
     THEN sent[e] = sent[b] + 1 /\ P[sent[b] + 1] = EventOf(S[b], S[b + 1], S[b + 2], keys[b])
     ELSE sent[e] = sent[b]

\* The packets of the l bytes S begin at the positions in B; sent counts the events before a
\* position, of the q events P, and keys says which keys are down there.
IsReading(S, l, P, q, from, to, B, sent, keys) ==
  LET Ends == B \cup {l + 1} IN
  /\ B \subseteq 1 .. l /\ 1 \in Ends
  /\ \A b \in Ends : sent[b] \in 0 .. q /\ keys[b] \in Keys
  /\ \A b, c \in Ends : b <= c => sent[b] <= sent[c]
  /\ sent[1] = 0 /\ sent[l + 1] = q /\ keys[1] = from /\ keys[l + 1] = to
  /\ \A b \in B : PacketAt(b, S, P, Ends, sent, keys)

\* The bytes S are whole packets, make the events P, and take the keys from one state to another.
Reads(S, l, P, q, from, to) == \E B, sent, keys : IsReading(S, l, P, q, from, to, B, sent, keys)

\* How long a packet is.
LEMMA PacketLength ==
  ASSUME NEW h \in Nat
  PROVE  /\ packet_length(h) \in 1 .. 3
         /\ h % 16 \in {1, 3, 4} => packet_length(h) = 3
         /\ h % 16 = 2 => packet_length(h) = 2
         /\ packet_length(h) = 3 => h % 16 \in {1, 3, 4}
         /\ packet_length(h) = 1 => h % 16 \notin {1, 2, 3, 4}
BY DEF packet_length

\* What a packet does depends on its own bytes only.
LEMMA SamePacket ==
  ASSUME NEW h \in Nat, NEW x, NEW y, NEW u, NEW v, NEW s,
         packet_length(h) >= 2 => x = u, packet_length(h) = 3 => y = v
  PROVE  /\ KeysAfter(h, x, y, s) = KeysAfter(h, u, v, s)
         /\ HasEvent(h) => EventOf(h, x, y, s) = EventOf(h, u, v, s)
<1>1. CASE packet_length(h) = 3
  BY <1>1
<1>2. CASE packet_length(h) = 2
  <2>1. h % 16 # 4 /\ h % 16 # 1 /\ x = u
    BY <1>2, PacketLength
  <2> QED
    BY <2>1 DEF KeysAfter, HasEvent, EventOf
<1>3. CASE packet_length(h) = 1
  BY <1>3, PacketLength DEF KeysAfter, HasEvent, EventOf
<1> QED
  BY <1>1, <1>2, <1>3, PacketLength

\* The counter a key code belongs to.
LEMMA Groups == \A code : group(code) \in Group \cup {"none"} /\ lock(code) \subseteq Lock
  BY DEF group, lock, Group, Lock

\* A packet leads from keys to keys.
LEMMA KeysAfterType ==
  ASSUME NEW h, NEW x, NEW y, NEW s \in Keys
  PROVE  KeysAfter(h, x, y, s) \in Keys
<1> DEFINE code == x + 256 * y
           g == group(code)
<1>1. g \in Group \/ g = "none"
  BY Groups
<1>2. toggle(s.locks, lock(code)) \subseteq Lock /\ s.locks \subseteq Lock /\ s.down \in [Group -> Nat]
  BY Groups DEF toggle, Keys
<1> HIDE DEF g, code
<1>3. g \in Group => /\ [s.down EXCEPT ![g] = @ + 1] \in [Group -> Nat]
                     /\ [s.down EXCEPT ![g] = IF @ = 0 THEN 0 ELSE @ - 1] \in [Group -> Nat]
  BY <1>2
<1>4. CASE h % 16 # 4
  BY <1>4 DEF KeysAfter
<1>5. CASE h % 16 = 4
  BY <1>1, <1>2, <1>3, <1>5 DEF KeysAfter, Keys, g, code
<1> QED
  BY <1>4, <1>5

\* Nothing is on the way.
LEMMA ReadsNothing ==
  ASSUME NEW S, NEW P, NEW s \in Keys
  PROVE  Reads(S, 0, P, 0, s, s)
<1>1. IsReading(S, 0, P, 0, s, s, {}, [i \in {1} |-> 0], [i \in {1} |-> s])
  BY DEF IsReading
<1> QED
  BY <1>1 DEF Reads

\* The packet h, x, y was appended to the bytes S, and its event to the events P.
IsSent(S, l, P, q, s, h, x, y, T, m, Q, r) ==
  /\ l \in Nat /\ \A k \in 1 .. l : S[k] \in Nat
  /\ q \in Nat /\ r \in Nat /\ h \in Nat /\ m = l + packet_length(h)
  /\ \A k \in 1 .. l : T[k] = S[k]
  /\ T[l + 1] = h /\ (packet_length(h) >= 2 => T[l + 2] = x) /\ (packet_length(h) = 3 => T[l + 3] = y)
  /\ \A i \in 1 .. q : Q[i] = P[i]
  /\ IF HasEvent(h) THEN r = q + 1 /\ Q[q + 1] = EventOf(h, x, y, s) ELSE r = q

\* A packet that is sent makes its event, if it makes one, behind the others.
LEMMA ReadsMore ==
  ASSUME NEW S, NEW l, NEW P, NEW q, NEW from, NEW to, Reads(S, l, P, q, from, to),
         NEW h, NEW x, NEW y, NEW T, NEW m, NEW Q, NEW r, IsSent(S, l, P, q, to, h, x, y, T, m, Q, r)
  PROVE  Reads(T, m, Q, r, from, KeysAfter(h, x, y, to))
<1>0. /\ l \in Nat /\ \A k \in 1 .. l : S[k] \in Nat
      /\ q \in Nat /\ r \in Nat /\ h \in Nat /\ m = l + packet_length(h)
      /\ \A k \in 1 .. l : T[k] = S[k]
      /\ T[l + 1] = h /\ (packet_length(h) >= 2 => T[l + 2] = x) /\ (packet_length(h) = 3 => T[l + 3] = y)
      /\ \A i \in 1 .. q : Q[i] = P[i]
      /\ IF HasEvent(h) THEN r = q + 1 /\ Q[q + 1] = EventOf(h, x, y, to) ELSE r = q
  BY DEF IsSent
<1> USE <1>0
<1>1. PICK B, sent, keys : IsReading(S, l, P, q, from, to, B, sent, keys)
  BY DEF Reads
<1> DEFINE next == KeysAfter(h, x, y, to)
           sent2 == [i \in 1 .. m + 1 |-> IF i = m + 1 THEN r ELSE sent[i]]
           keys2 == [i \in 1 .. m + 1 |-> IF i = m + 1 THEN next ELSE keys[i]]
           Ends == B \cup {l + 1}
           Ends2 == Ends \cup {m + 1}
<1>2. packet_length(h) \in 1 .. 3 /\ m \in Nat /\ l < m /\ q <= r
  BY PacketLength
<1>3. /\ B \subseteq 1 .. l /\ 1 \in Ends
      /\ \A b \in Ends : sent[b] \in 0 .. q /\ keys[b] \in Keys
      /\ \A b, c \in Ends : b <= c => sent[b] <= sent[c]
      /\ sent[1] = 0 /\ sent[l + 1] = q /\ keys[1] = from /\ keys[l + 1] = to
      /\ \A b \in B : PacketAt(b, S, P, Ends, sent, keys)
  BY <1>1 DEF IsReading
<1>4. next \in Keys
  BY <1>3, KeysAfterType
<1>6. /\ \A b \in Ends : b \in 1 .. l + 1 /\ sent2[b] = sent[b] /\ keys2[b] = keys[b]
      /\ sent2[m + 1] = r /\ keys2[m + 1] = next
  BY <1>2, <1>3
<1> HIDE DEF next, sent2, keys2
<1>7. ASSUME NEW b \in B
      PROVE  PacketAt(b, T, Q, Ends2, sent2, keys2)
  <2> DEFINE e == b + packet_length(S[b])
             k == keys[b]
  <2>1. b \in 1 .. l /\ b \in Ends /\ S[b] \in Nat /\ packet_length(S[b]) \in 1 .. 3 /\ T[b] = S[b]
    BY <1>3, PacketLength
  <2>2. /\ e \in Ends /\ \A c \in Ends : c <= b \/ e <= c
        /\ keys[e] = KeysAfter(S[b], S[b + 1], S[b + 2], k)
        /\ IF HasEvent(S[b])
           THEN sent[e] = sent[b] + 1 /\ P[sent[b] + 1] = EventOf(S[b], S[b + 1], S[b + 2], k)
           ELSE sent[e] = sent[b]
    BY <1>3 DEF PacketAt
  <2>3. e \in 1 .. l + 1 /\ e <= m + 1
    BY <1>2, <1>3, <2>1, <2>2
  <2>4. /\ packet_length(S[b]) >= 2 => S[b + 1] = T[b + 1]
        /\ packet_length(S[b]) = 3 => S[b + 2] = T[b + 2]
    BY <2>1, <2>3
  <2>5. e = b + packet_length(T[b])
    BY <2>1
  <2> HIDE DEF k, e
  <2>6. /\ KeysAfter(S[b], S[b + 1], S[b + 2], k) = KeysAfter(T[b], T[b + 1], T[b + 2], k)
        /\ HasEvent(S[b]) => EventOf(S[b], S[b + 1], S[b + 2], k) = EventOf(T[b], T[b + 1], T[b + 2], k)
    BY <2>1, <2>4, SamePacket
  <2>7. HasEvent(S[b]) => Q[sent[b] + 1] = P[sent[b] + 1]
    <3>1. HasEvent(S[b]) => sent[b] + 1 \in 1 .. q
      BY <1>3, <2>1, <2>2
    <3> QED
      BY <3>1
  <2>8. e \in Ends2 /\ \A c \in Ends2 : c <= b \/ e <= c
    BY <2>2, <2>3
  <2>9. sent2[e] = sent[e] /\ sent2[b] = sent[b] /\ keys2[e] = keys[e] /\ keys2[b] = k
    BY <1>6, <2>1, <2>2 DEF k
  <2> QED
    BY <2>1, <2>2, <2>5, <2>6, <2>7, <2>8, <2>9 DEF PacketAt
<1>8. PacketAt(l + 1, T, Q, Ends2, sent2, keys2)
  <2>1. (l + 1) + packet_length(T[l + 1]) = m + 1 /\ (l + 1) + 1 = l + 2 /\ (l + 1) + 2 = l + 3
    BY <1>2
  <2>2. /\ next = KeysAfter(T[l + 1], T[l + 2], T[l + 3], to)
        /\ HasEvent(h) => EventOf(h, x, y, to) = EventOf(T[l + 1], T[l + 2], T[l + 3], to)
    BY SamePacket DEF next
  <2>3. m + 1 \in Ends2 /\ \A c \in Ends2 : c <= l + 1 \/ m + 1 <= c
    BY <1>2, <1>6
  <2>4. sent2[m + 1] = r /\ sent2[l + 1] = q /\ keys2[m + 1] = next /\ keys2[l + 1] = to
    BY <1>3, <1>6
  <2> QED
    BY <2>1, <2>2, <2>3, <2>4 DEF PacketAt
<1>9. IsReading(T, m, Q, r, from, next, Ends, sent2, keys2)
  <2>1. Ends \subseteq 1 .. m /\ 1 \in Ends2
    BY <1>2, <1>3, <1>6
  <2>2. \A b \in Ends2 : sent2[b] \in 0 .. r /\ keys2[b] \in Keys
    BY <1>2, <1>3, <1>4, <1>6
  <2>3. \A b, c \in Ends2 : b <= c => sent2[b] <= sent2[c]
    <3>1. \A b, c \in Ends : b <= c => sent2[b] <= sent2[c]
      BY <1>3, <1>6
    <3>2. \A b \in Ends : ~(m + 1 <= b)
      BY <1>2, <1>6
    <3> QED
      BY <1>6, <2>2, <3>1, <3>2
  <2>4. sent2[1] = 0 /\ sent2[m + 1] = r /\ keys2[1] = from /\ keys2[m + 1] = next
    BY <1>3, <1>6
  <2>5. \A b \in Ends : PacketAt(b, T, Q, Ends2, sent2, keys2)
    BY <1>7, <1>8
  <2> QED
    BY <2>1, <2>2, <2>3, <2>4, <2>5 DEF IsReading
<1> QED
  BY <1>9 DEF Reads, next

\* The first n bytes were taken from the bytes S, and d events from the events P.
IsRead(S, l, P, q, n, d, T, Q) ==
  /\ l \in Nat \ {0} /\ q \in Nat /\ \A k \in 1 .. l : S[k] \in Nat
  /\ n = packet_length(S[1]) /\ d = IF HasEvent(S[1]) THEN 1 ELSE 0
  /\ \A k \in 1 .. l - n : T[k] = S[k + n]
  /\ \A i \in 1 .. q - d : Q[i] = P[i + d]

\* The first packet, when it is read: its event is the first one, and the others are left.
LEMMA ReadsRest ==
  ASSUME NEW S, NEW l, NEW P, NEW q, NEW from, NEW to, Reads(S, l, P, q, from, to),
         NEW n, NEW d, NEW T, NEW Q, IsRead(S, l, P, q, n, d, T, Q)
  PROVE  /\ n <= l /\ d <= q
         /\ HasEvent(S[1]) => P[1] = EventOf(S[1], S[2], S[3], from)
         /\ Reads(T, l - n, Q, q - d, KeysAfter(S[1], S[2], S[3], from), to)
<1>0. /\ l \in Nat \ {0} /\ q \in Nat /\ \A k \in 1 .. l : S[k] \in Nat
      /\ n = packet_length(S[1]) /\ d = IF HasEvent(S[1]) THEN 1 ELSE 0
      /\ \A k \in 1 .. l - n : T[k] = S[k + n]
      /\ \A i \in 1 .. q - d : Q[i] = P[i + d]
  BY DEF IsRead
<1> USE <1>0
<1>1. PICK B, sent, keys : IsReading(S, l, P, q, from, to, B, sent, keys)
  BY DEF Reads
<1> DEFINE next == KeysAfter(S[1], S[2], S[3], from)
           sent2 == [i \in 1 .. l - n + 1 |-> sent[i + n] - d]
           keys2 == [i \in 1 .. l - n + 1 |-> keys[i + n]]
           Ends == B \cup {l + 1}
           B2 == {b \in 1 .. l - n : b + n \in B}
           Ends2 == B2 \cup {l - n + 1}
<1>2. S[1] \in Nat /\ n \in 1 .. 3 /\ d \in 0 .. 1
  BY PacketLength
<1>3. /\ B \subseteq 1 .. l /\ 1 \in Ends
      /\ \A b \in Ends : sent[b] \in 0 .. q /\ keys[b] \in Keys
      /\ \A b, c \in Ends : b <= c => sent[b] <= sent[c]
      /\ sent[1] = 0 /\ sent[l + 1] = q /\ keys[1] = from /\ keys[l + 1] = to
      /\ \A b \in B : PacketAt(b, S, P, Ends, sent, keys)
  BY <1>1 DEF IsReading
<1>4. /\ 1 \in B
      /\ 1 + n \in Ends /\ \A c \in Ends : c <= 1 \/ 1 + n <= c
      /\ keys[1 + n] = next
      /\ sent[1 + n] = d
      /\ HasEvent(S[1]) => P[1] = EventOf(S[1], S[2], S[3], from)
  <2>1. 1 \in B
    BY <1>3
  <2>2. PacketAt(1, S, P, Ends, sent, keys)
    BY <1>3, <2>1
  <2> QED
    BY <1>3, <2>1, <2>2 DEF PacketAt
<1>5. 1 + n \in 1 .. l + 1 /\ n <= l /\ d <= q
  BY <1>2, <1>3, <1>4
<1>9. /\ \A b \in Ends2 : b \in 1 .. l - n + 1 /\ b + n \in Ends /\ 1 + n <= b + n
                          /\ sent2[b] = sent[b + n] - d /\ keys2[b] = keys[b + n]
      /\ \A c \in Ends : c <= 1 \/ c - n \in Ends2
  <2>1. \A b \in Ends2 : b \in 1 .. l - n + 1 /\ b + n \in Ends /\ 1 + n <= b + n
    BY <1>2, <1>5
  <2>2. ASSUME NEW c \in Ends, ~(c <= 1)
        PROVE  c - n \in Ends2
    <3>1. 1 + n <= c /\ c \in 1 .. l + 1
      BY <1>2, <1>3, <1>4, <2>2
    <3>2. CASE c = l + 1
      BY <1>2, <3>2
    <3>3. CASE c \in B
      <4>1. c - n \in 1 .. l - n /\ (c - n) + n = c
        BY <1>2, <1>3, <3>1, <3>3
      <4> QED
        BY <3>3, <4>1
    <3> QED
      BY <3>2, <3>3
  <2> QED
    BY <2>1, <2>2
<1> HIDE DEF next, sent2, keys2
<1>10. ASSUME NEW b \in B2
       PROVE  PacketAt(b, T, Q, Ends2, sent2, keys2)
  <2> DEFINE a == b + n
             e == a + packet_length(S[a])
             k == keys[a]
  <2>1. a \in B /\ a \in Ends /\ b \in 1 .. l - n /\ b \in Ends2 /\ a \in 1 .. l /\ S[a] \in Nat
        /\ packet_length(S[a]) \in 1 .. 3
    BY <1>2, <1>3, PacketLength
  <2>2. /\ e \in Ends /\ \A c \in Ends : c <= a \/ e <= c
        /\ keys[e] = KeysAfter(S[a], S[a + 1], S[a + 2], k)
        /\ IF HasEvent(S[a])
           THEN sent[e] = sent[a] + 1 /\ P[sent[a] + 1] = EventOf(S[a], S[a + 1], S[a + 2], k)
           ELSE sent[e] = sent[a]
    BY <1>3, <2>1 DEF PacketAt
  <2>3. T[b] = S[a] /\ e \in 1 .. l + 1 /\ ~(e <= 1)
    BY <1>2, <1>3, <2>1, <2>2
  <2>4. /\ packet_length(S[a]) >= 2 => S[a + 1] = T[b + 1]
        /\ packet_length(S[a]) = 3 => S[a + 2] = T[b + 2]
    <3>1. packet_length(S[a]) >= 2 => b + 1 \in 1 .. l - n /\ (b + 1) + n = a + 1
      BY <1>2, <2>1, <2>3
    <3>2. packet_length(S[a]) = 3 => b + 2 \in 1 .. l - n /\ (b + 2) + n = a + 2
      BY <1>2, <2>1, <2>3
    <3> QED
      BY <3>1, <3>2
  <2>5. b + packet_length(T[b]) = e - n /\ e - n \in Ends2 /\ (e - n) + n = e
    <3>1. b + packet_length(T[b]) = e - n /\ (e - n) + n = e
      BY <1>2, <2>1, <2>3
    <3> QED
      BY <1>9, <2>2, <2>3, <3>1
  <2>6. sent2[e - n] = sent[e] - d /\ sent2[b] = sent[a] - d /\ keys2[e - n] = keys[e] /\ keys2[b] = k
    BY <1>9, <2>1, <2>5
  <2>7. \A c \in Ends2 : c <= b \/ e - n <= c
    <3>1. \A c \in Ends2 : c \in Nat /\ (c + n <= a \/ e <= c + n)
      BY <1>9, <2>2
    <3> QED
      BY <1>2, <2>1, <2>3, <3>1
  <2>8. sent[a] \in Nat /\ sent[e] \in 0 .. q /\ d <= sent[a]
    <3>1. 1 + n <= a /\ 1 + n \in Ends
      BY <1>4, <1>9, <2>1
    <3>2. sent[1 + n] <= sent[a]
      BY <1>3, <2>1, <3>1
    <3>3. sent[a] \in 0 .. q /\ sent[e] \in 0 .. q
      BY <1>3, <2>1, <2>2
    <3> QED
      BY <1>4, <3>2, <3>3
  <2> HIDE DEF k, e, a
  <2>9. /\ KeysAfter(S[a], S[a + 1], S[a + 2], k) = KeysAfter(T[b], T[b + 1], T[b + 2], k)
        /\ HasEvent(S[a]) => EventOf(S[a], S[a + 1], S[a + 2], k) = EventOf(T[b], T[b + 1], T[b + 2], k)
    BY <2>1, <2>3, <2>4, SamePacket
  <2>10. HasEvent(S[a]) => Q[sent2[b] + 1] = P[sent[a] + 1]
    <3>1. ASSUME HasEvent(S[a])
          PROVE  sent2[b] + 1 \in 1 .. q - d /\ (sent2[b] + 1) + d = sent[a] + 1
      BY <1>2, <2>2, <2>6, <2>8, <3>1
    <3> QED
      BY <3>1
  <2>11. sent[e] = sent[a] + 1 => sent2[e - n] = sent2[b] + 1
    BY <1>2, <2>6, <2>8
  <2> QED
    BY <2>2, <2>3, <2>5, <2>6, <2>7, <2>9, <2>10, <2>11 DEF PacketAt
<1>11. IsReading(T, l - n, Q, q - d, next, to, B2, sent2, keys2)
  <2>1. B2 \subseteq 1 .. l - n /\ 1 \in Ends2
    <3>1. ~(1 + n <= 1) /\ (1 + n) - n = 1
      BY <1>2
    <3> QED
      BY <1>2, <1>4, <1>9, <3>1
  <2>2. \A b \in Ends2 : sent2[b] \in 0 .. q - d /\ keys2[b] \in Keys
    <3>1. \A b \in Ends2 : sent[b + n] \in 0 .. q /\ sent[1 + n] <= sent[b + n] /\ keys[b + n] \in Keys
      BY <1>3, <1>4, <1>9
    <3> QED
      BY <1>2, <1>4, <1>9, <3>1
  <2>3. \A b, c \in Ends2 : b <= c => sent2[b] <= sent2[c]
    <3> SUFFICES ASSUME NEW b \in Ends2, NEW c \in Ends2, b <= c
                 PROVE  sent2[b] <= sent2[c]
      OBVIOUS
    <3>1. b + n \in Ends /\ c + n \in Ends /\ b + n <= c + n
      BY <1>2, <1>9
    <3>2. sent[b + n] <= sent[c + n]
      BY <1>3, <3>1
    <3>3. sent[b + n] \in 0 .. q /\ sent[c + n] \in 0 .. q
      BY <1>3, <3>1
    <3> QED
      BY <1>2, <1>9, <3>2, <3>3
  <2>4. sent2[1] = 0 /\ keys2[1] = next
    BY <1>2, <1>4, <1>9, <2>1
  <2>5. sent2[l - n + 1] = q - d /\ keys2[l - n + 1] = to
    <3>1. l - n + 1 \in Ends2 /\ (l - n + 1) + n = l + 1
      BY <1>2
    <3> QED
      BY <1>3, <1>9, <3>1
  <2> HIDE DEF B2
  <2> QED
    BY <1>10, <2>1, <2>2, <2>3, <2>4, <2>5 DEF IsReading
<1> QED
  BY <1>4, <1>5, <1>11 DEF Reads, next

\* The bytes that were written and not decoded yet.
Stream == header_read \o (fifo \o (wire \o half_written))

InputTypes ==
  /\ held_keys \subseteq InputKey /\ IsFiniteSet(held_keys) /\ lock_on \subseteq Lock
  /\ acc \in Int \X Int
  /\ half_written \in Seq(Nat) /\ wire \in Seq(Nat) /\ fifo \in Seq(Nat) /\ header_read \in Seq(Nat)
  /\ header_read # <<>> => Len(header_read) < packet_length(header_read[1])
  /\ is_pressed \in [Group -> Nat] /\ is_lock \subseteq Lock
  /\ pending \in Seq(InputEvent)

\* The bytes on the way are whole packets, they make the events that were not dispatched yet, and
\* once they are read KeyboardSystem knows which keys are held.
OnTheWay == Reads(Stream, Len(Stream), pending, Len(pending), KeysNow, KeysHeld)

Undisturbed == ~wrong /\ InputTypes /\ OnTheWay

InputInv == disturbed \/ Undisturbed

\* How many of the keys H belong to a group.
LEMMA KeysInType ==
  ASSUME NEW H, IsFiniteSet(H), NEW g
  PROVE  KeysIn(H, g) \in Nat /\ (KeysIn(H, g) > 0 <=> \E j \in H : group(kernel_code[j]) = g)
<1> DEFINE F == {j \in H : group(kernel_code[j]) = g}
<1>1. Cardinality(F) \in Nat /\ (Cardinality(F) = 0 <=> F = {})
  BY FS_Subset, FS_CardinalityType, FS_EmptySet
<1>2. F # {} <=> \E j \in H : group(kernel_code[j]) = g
  OBVIOUS
<1>3. KeysIn(H, g) = Cardinality(F)
  BY DEF KeysIn
<1> HIDE DEF F
<1> QED
  BY <1>1, <1>2, <1>3

\* One more.
LEMMA KeysInMore ==
  ASSUME NEW H, IsFiniteSet(H), NEW k, k \notin H, NEW g, NEW K, K = H \cup {k}
  PROVE  KeysIn(K, g) = IF group(kernel_code[k]) = g THEN KeysIn(H, g) + 1 ELSE KeysIn(H, g)
<1> DEFINE F(I) == {j \in I : group(kernel_code[j]) = g}
<1>1. IsFiniteSet(F(H))
  BY FS_Subset
<1>2. Cardinality(F(H) \cup {k}) = Cardinality(F(H)) + 1
  BY <1>1, FS_AddElement
<1>3. F(K) = IF group(kernel_code[k]) = g THEN F(H) \cup {k} ELSE F(H)
  OBVIOUS
<1>4. KeysIn(K, g) = Cardinality(F(K)) /\ KeysIn(H, g) = Cardinality(F(H))
  BY DEF KeysIn
<1> HIDE DEF F
<1> QED
  BY <1>2, <1>3, <1>4

\* One less.
LEMMA KeysInLess ==
  ASSUME NEW H, IsFiniteSet(H), NEW k \in H, NEW g, NEW K, K = H \ {k}
  PROVE  KeysIn(K, g) = IF group(kernel_code[k]) = g THEN KeysIn(H, g) - 1 ELSE KeysIn(H, g)
<1> DEFINE F(I) == {j \in I : group(kernel_code[j]) = g}
<1>1. IsFiniteSet(F(H))
  BY FS_Subset
<1>2. k \in F(H) => Cardinality(F(H) \ {k}) = Cardinality(F(H)) - 1
  BY <1>1, FS_RemoveElement
<1>3. F(K) = IF group(kernel_code[k]) = g THEN F(H) \ {k} ELSE F(H)
  OBVIOUS
<1>4. KeysIn(K, g) = Cardinality(F(K)) /\ KeysIn(H, g) = Cardinality(F(H))
  BY DEF KeysIn
<1>5. group(kernel_code[k]) = g => k \in F(H)
  OBVIOUS
<1> HIDE DEF F
<1> QED
  BY <1>2, <1>3, <1>4, <1>5

\* The keys of the user, as KeyboardSystem would know them.
LEMMA KeysHeldType ==
  ASSUME InputTypes
  PROVE  KeysHeld \in Keys /\ KeysNow \in Keys
  BY KeysInType DEF InputTypes, KeysHeld, KeysNow, Keys

\* A key that is pressed or released changes what the user holds as its packet changes what
\* KeyboardSystem knows.
LEMMA HeldAfterKey ==
  ASSUME InputTypes, NEW k \in InputKey, NEW h \in {20, 4}, NEW x, NEW y, x + 256 * y = kernel_code[k],
         h = 20 <=> k \notin held_keys,
         held_keys' = IF h = 20 THEN held_keys \cup {k} ELSE held_keys \ {k},
         lock_on' = IF h = 20 THEN toggle(lock_on, lock(kernel_code[k])) ELSE lock_on
  PROVE  /\ KeysHeld' = KeysAfter(h, x, y, KeysHeld)
         /\ user_modifiers = get_current_key_modifiers(KeysHeld'.down, KeysHeld'.locks)
         /\ IsFiniteSet(held_keys') /\ lock_on' \subseteq Lock
<1> DEFINE g == group(kernel_code[k])
           of(K) == [q \in Group |-> KeysIn(K, q)]
<1>1. h % 16 = 4 /\ (bit(h, 4) <=> h = 20)
  BY DEF bit
<1>2. g \in Group \/ g = "none"
  BY Groups
<1>3. IsFiniteSet(held_keys) /\ lock_on \subseteq Lock
  BY DEF InputTypes
<1>4. IsFiniteSet(held_keys')
  BY <1>3, FS_AddElement, FS_RemoveElement
<1>5. of(held_keys) \in [Group -> Nat]
  BY <1>3, KeysInType
<1>6. "none" \notin Group
  BY DEF Group
<1>7. of(held_keys') = IF g = "none" THEN of(held_keys)
                       ELSE IF h = 20 THEN [of(held_keys) EXCEPT ![g] = @ + 1]
                       ELSE [of(held_keys) EXCEPT ![g] = IF @ = 0 THEN 0 ELSE @ - 1]
  <2>1. \A q \in Group :
          /\ KeysIn(held_keys, q) \in Nat
          /\ h = 20 => KeysIn(held_keys', q) = IF g = q THEN KeysIn(held_keys, q) + 1 ELSE KeysIn(held_keys, q)
          /\ h = 4 => KeysIn(held_keys', q) = IF g = q THEN KeysIn(held_keys, q) - 1 ELSE KeysIn(held_keys, q)
          /\ h = 4 /\ g = q => KeysIn(held_keys, q) > 0
    <3> SUFFICES ASSUME NEW q \in Group
                 PROVE  /\ KeysIn(held_keys, q) \in Nat
                        /\ h = 20 => KeysIn(held_keys', q) = IF g = q THEN KeysIn(held_keys, q) + 1
                             ELSE KeysIn(held_keys, q)
                        /\ h = 4 => KeysIn(held_keys', q) = IF g = q THEN KeysIn(held_keys, q) - 1
                             ELSE KeysIn(held_keys, q)
                        /\ h = 4 /\ g = q => KeysIn(held_keys, q) > 0
      OBVIOUS
    <3>1. /\ h = 20 => k \notin held_keys /\ held_keys' = held_keys \cup {k}
          /\ h = 4 => k \in held_keys /\ held_keys' = held_keys \ {k}
      OBVIOUS
    <3>2. KeysIn(held_keys, q) \in Nat
            /\ (KeysIn(held_keys, q) > 0 <=> \E j \in held_keys : group(kernel_code[j]) = q)
      BY <1>3, KeysInType
    <3>3. h = 20 => KeysIn(held_keys', q) = IF g = q THEN KeysIn(held_keys, q) + 1 ELSE KeysIn(held_keys, q)
      BY <1>3, <3>1, KeysInMore
    <3>4. h = 4 => KeysIn(held_keys', q) = IF g = q THEN KeysIn(held_keys, q) - 1 ELSE KeysIn(held_keys, q)
      BY <1>3, <3>1, KeysInLess
    <3> QED
      BY <3>1, <3>2, <3>3, <3>4
  <2> HIDE DEF g
  <2>2. CASE h = 20
    <3>1. \A q \in Group : of(held_keys')[q] = IF g = q THEN of(held_keys)[q] + 1 ELSE of(held_keys)[q]
      BY <2>1, <2>2
    <3> QED
      BY <1>2, <1>5, <1>6, <2>2, <3>1
  <2>3. CASE h = 4
    <3>1. of(held_keys') = [q \in Group |-> IF g = q THEN of(held_keys)[q] - 1 ELSE of(held_keys)[q]]
      BY <2>1, <2>3
    <3>2. g \in Group => of(held_keys)[g] # 0
      BY <2>1, <2>3
    <3> HIDE DEF of
    <3>3. g \in Group => [of(held_keys) EXCEPT ![g] = IF @ = 0 THEN 0 ELSE @ - 1]
                           = [q \in Group |-> IF g = q THEN of(held_keys)[q] - 1 ELSE of(held_keys)[q]]
      BY <1>5, <3>2
    <3>4. g = "none" => of(held_keys)
            = [q \in Group |-> IF g = q THEN of(held_keys)[q] - 1 ELSE of(held_keys)[q]]
      BY <1>5, <1>6
    <3> QED
      BY <1>2, <1>6, <2>3, <3>1, <3>3, <3>4
  <2> QED
    BY <2>2, <2>3
<1>8. KeysHeld' = KeysAfter(h, x, y, KeysHeld)
  <2>1. KeysHeld' = [down |-> of(held_keys'), locks |-> lock_on']
    BY DEF KeysHeld
  <2>2. KeysHeld = [down |-> of(held_keys), locks |-> lock_on]
    BY DEF KeysHeld
  <2> HIDE DEF of
  <2> QED
    BY <1>1, <1>7, <2>1, <2>2 DEF KeysAfter
<1>9. \A q \in Group : KeysHeld'.down[q] > 0 <=> \E j \in held_keys' : group(kernel_code[j]) = q
  BY <1>4, KeysInType DEF KeysHeld
<1>10. user_modifiers = get_current_key_modifiers(KeysHeld'.down, KeysHeld'.locks)
  <2>1. KeysHeld'.locks = lock_on'
    BY DEF KeysHeld
  <2>2. {"CTRL", "SHIFT", "ALT"} \subseteq Group
    BY DEF Group
  <2> QED
    BY <1>9, <2>1, <2>2 DEF user_modifiers, get_current_key_modifiers
<1>11. lock_on' \subseteq Lock
  BY <1>3, Groups DEF toggle
<1> QED
  BY <1>4, <1>8, <1>10, <1>11

\* A key's code is two bytes, and the events are of their type.
LEMMA KeyCode ==
  ASSUME NEW k \in InputKey
  PROVE  /\ kernel_code[k] \in Nat /\ kernel_code[k] % 256 \in Nat /\ kernel_code[k] \div 256 \in Nat
         /\ (kernel_code[k] % 256) + 256 * (kernel_code[k] \div 256) = kernel_code[k]
<1>1. kernel_code[k] \in Nat
  <2>1. \A j \in DOMAIN kernel_code : kernel_code[j] \in Nat
    BY DEF kernel_code
  <2> QED
    BY <2>1, ServerAssumption
<1>2. \A n \in Nat : n % 256 \in Nat /\ n \div 256 \in Nat /\ (n % 256) + 256 * (n \div 256) = n
  OBVIOUS
<1> QED
  BY <1>1, <1>2

\* Sending and receiving change how the bytes on the way are parted, not their order.
LEMMA BytesAssociative ==
  ASSUME NEW u \in Seq(Nat), NEW v \in Seq(Nat), NEW w \in Seq(Nat)
  PROVE  (u \o v) \o w = u \o (v \o w)
  BY ConcatAssociative, SMTT(60)

\* The stream, when bytes are sent: they are behind the others.
LEMMA StreamSent ==
  ASSUME InputTypes, half_written = <<>>, NEW p \in Seq(Nat), header_read' = header_read, fifo' = fifo,
         wire' \o half_written' = wire \o p
  PROVE  Stream' = Stream \o p
<1>1. /\ half_written \in Seq(Nat) /\ wire \in Seq(Nat) /\ fifo \in Seq(Nat) /\ header_read \in Seq(Nat)
      /\ fifo \o wire \in Seq(Nat)
  BY ConcatProperties DEF InputTypes
<1>2. wire \o half_written = wire
  BY <1>1, ConcatEmptySeq
<1>3. Stream = header_read \o (fifo \o wire)
  BY <1>2 DEF Stream
<1>4. Stream' = header_read \o (fifo \o (wire \o p))
  <2>1. Stream' = header_read' \o (fifo' \o (wire' \o half_written'))
    BY DEF Stream
  <2> QED
    BY <2>1, Zenon
<1> DEFINE a == fifo \o wire
<1>5. fifo \o (wire \o p) = a \o p
  <2>1. (fifo \o wire) \o p = fifo \o (wire \o p)
    BY <1>1, BytesAssociative, ZenonT(30)
  <2> QED
    BY <2>1
<1> HIDE DEF a
<1>6. header_read \o (a \o p) = (header_read \o a) \o p
  <2>1. a \in Seq(Nat) /\ header_read \in Seq(Nat)
    BY <1>1 DEF a
  <2>2. (header_read \o a) \o p = header_read \o (a \o p)
    BY <2>1, BytesAssociative, ZenonT(30)
  <2> QED
    BY <2>2
<1> QED
  BY <1>3, <1>4, <1>5, <1>6, Zenon DEF a

\* The stream is a sequence of bytes.
LEMMA StreamType ==
  ASSUME InputTypes
  PROVE  /\ Stream \in Seq(Nat) /\ Len(Stream) = Len(header_read) + Len(fifo) + Len(wire) + Len(half_written)
         /\ Len(header_read) \in Nat /\ Len(fifo) \in Nat /\ Len(wire) \in Nat /\ Len(half_written) \in Nat
         /\ \A k \in 1 .. Len(header_read) : Stream[k] = header_read[k]
         /\ fifo # <<>> => Stream[Len(header_read) + 1] = Head(fifo)
<1> DEFINE a == wire \o half_written
           b == fifo \o a
<1>1. /\ half_written \in Seq(Nat) /\ wire \in Seq(Nat) /\ fifo \in Seq(Nat) /\ header_read \in Seq(Nat)
  BY DEF InputTypes
<1>2. a \in Seq(Nat) /\ Len(a) = Len(wire) + Len(half_written) /\ Len(wire) \in Nat /\ Len(half_written) \in Nat
  BY <1>1, ConcatFacts
<1> HIDE DEF a
<1>3. /\ b \in Seq(Nat) /\ Len(b) = Len(fifo) + Len(a) /\ Len(fifo) \in Nat
      /\ fifo # <<>> => Len(fifo) # 0 /\ b[1] = fifo[1]
  <2>1. /\ b \in Seq(Nat) /\ Len(b) = Len(fifo) + Len(a) /\ Len(fifo) \in Nat
        /\ \A k \in 1 .. Len(fifo) : b[k] = fifo[k]
    BY <1>1, <1>2, ConcatFacts
  <2>2. fifo # <<>> => Len(fifo) # 0
    BY <1>1
  <2> QED
    BY <2>1, <2>2
<1> HIDE DEF b
<1>4. /\ Stream \in Seq(Nat) /\ Len(Stream) = Len(header_read) + Len(b) /\ Len(header_read) \in Nat
      /\ \A k \in 1 .. Len(header_read) : Stream[k] = header_read[k]
      /\ \A k \in Len(header_read) + 1 .. Len(header_read) + Len(b) : Stream[k] = b[k - Len(header_read)]
  <2>1. Stream = header_read \o b
    BY DEF Stream, a, b
  <2>2. /\ header_read \o b \in Seq(Nat) /\ Len(header_read \o b) = Len(header_read) + Len(b)
        /\ Len(header_read) \in Nat
        /\ \A k \in 1 .. Len(header_read) : (header_read \o b)[k] = header_read[k]
        /\ \A k \in Len(header_read) + 1 .. Len(header_read) + Len(b)
             : (header_read \o b)[k] = b[k - Len(header_read)]
    <3>1. header_read \in Seq(Nat) /\ b \in Seq(Nat)
      BY <1>1, <1>3
    <3> QED
      BY <3>1, ConcatFacts
  <2> QED
    BY <2>1, <2>2
<1>5. fifo # <<>> => Stream[Len(header_read) + 1] = b[1]
  <2>1. fifo # <<>> => Len(header_read) + 1 \in Len(header_read) + 1 .. Len(header_read) + Len(b)
    BY <1>2, <1>3, <1>4
  <2>2. (Len(header_read) + 1) - Len(header_read) = 1
    BY <1>4
  <2> QED
    BY <1>4, <2>1, <2>2
<1>6. fifo # <<>> => Head(fifo) = fifo[1]
  BY <1>1
<1>7. Len(Stream) = Len(header_read) + Len(fifo) + Len(wire) + Len(half_written)
  BY <1>2, <1>3, <1>4
<1> QED
  BY <1>2, <1>3, <1>4, <1>5, <1>6, <1>7

\* The items of a sequence of numbers are numbers.
LEMMA NumberFacts ==
  ASSUME NEW s \in Seq(Nat)
  PROVE  \A k \in 1 .. Len(s) : s[k] \in Nat
OBVIOUS

\* A packet that is sent.
LEMMA PacketSent ==
  ASSUME InputTypes, OnTheWay, half_written = <<>>, header_read' = header_read, fifo' = fifo,
         NEW p \in Seq(Nat), p # <<>>, Len(p) = packet_length(p[1]), wire' \o half_written' = wire \o p,
         IF HasEvent(p[1]) THEN pending' = Append(pending, EventOf(p[1], p[2], p[3], KeysHeld))
         ELSE pending' = pending,
         KeysNow' = KeysNow, KeysHeld' = KeysAfter(p[1], p[2], p[3], KeysHeld)
  PROVE  OnTheWay'
<1> DEFINE S == Stream
           T == Stream'
           event == EventOf(p[1], p[2], p[3], KeysHeld)
           h == p[1]
           x == p[2]
           y == p[3]
<1>1. T = S \o p /\ S \in Seq(Nat)
  BY StreamSent, StreamType
<1>2. p[1] \in Nat /\ packet_length(p[1]) \in 1 .. 3 /\ Len(S) \in Nat
  <2>1. p[1] \in Nat
    OBVIOUS
  <2> QED
    BY <1>1, <2>1, PacketLength
<1> HIDE DEF S, T, event
<1>3. /\ Len(T) = Len(S) + Len(p)
      /\ \A k \in 1 .. Len(S) : T[k] = S[k] /\ S[k] \in Nat
      /\ \A k \in Len(S) + 1 .. Len(S) + Len(p) : T[k] = p[k - Len(S)]
  <2>1. S \in Seq(Nat)
    BY <1>1
  <2>2. \A k \in 1 .. Len(S) : S[k] \in Nat
    BY <2>1, NumberFacts
  <2> QED
    BY <1>1, <2>2, ConcatFacts
<1>4. T[Len(S) + 1] = h /\ (packet_length(h) >= 2 => T[Len(S) + 2] = x)
        /\ (packet_length(h) = 3 => T[Len(S) + 3] = y)
  <2>1. \A l \in Nat : (l + 1) - l = 1 /\ (l + 2) - l = 2 /\ (l + 3) - l = 3
    OBVIOUS
  <2>2. Len(S) + 1 \in Len(S) + 1 .. Len(S) + Len(p)
        /\ (packet_length(p[1]) >= 2 => Len(S) + 2 \in Len(S) + 1 .. Len(S) + Len(p))
        /\ (packet_length(p[1]) = 3 => Len(S) + 3 \in Len(S) + 1 .. Len(S) + Len(p))
    BY <1>2
  <2> QED
    BY <1>2, <1>3, <2>1, <2>2
<1>5. /\ Len(pending) \in Nat /\ Len(pending') \in Nat
      /\ \A i \in 1 .. Len(pending) : pending'[i] = pending[i]
      /\ IF HasEvent(p[1]) THEN Len(pending') = Len(pending) + 1 /\ pending'[Len(pending) + 1] = event
         ELSE Len(pending') = Len(pending)
  <2>1. pending \in Seq(InputEvent)
    BY DEF InputTypes
  <2>2. /\ Len(Append(pending, event)) = Len(pending) + 1 /\ Append(pending, event)[Len(pending) + 1] = event
        /\ Len(pending) \in Nat /\ \A i \in 1 .. Len(pending) : Append(pending, event)[i] = pending[i]
    BY <2>1
  <2>3. IF HasEvent(p[1]) THEN pending' = Append(pending, event) ELSE pending' = pending
    BY DEF event
  <2> QED
    BY <2>2, <2>3
<1>6. Reads(S, Len(S), pending, Len(pending), KeysNow, KeysHeld)
  BY DEF OnTheWay, S
<1> HIDE DEF h, x, y
<1>7. Reads(T, Len(T), pending', Len(pending'), KeysNow, KeysAfter(h, x, y, KeysHeld))
  <2>1. Len(T) = Len(S) + packet_length(h) /\ h \in Nat
    BY <1>2, <1>3 DEF h
  <2>2. IF HasEvent(h) THEN Len(pending') = Len(pending) + 1 /\ pending'[Len(pending) + 1]
          = EventOf(h, x, y, KeysHeld)
        ELSE Len(pending') = Len(pending)
    BY <1>5 DEF h, x, y, event
  <2>3. /\ \A k \in 1 .. Len(S) : S[k] \in Nat
        /\ \A k \in 1 .. Len(S) : T[k] = S[k]
        /\ \A i \in 1 .. Len(pending) : pending'[i] = pending[i]
        /\ Len(S) \in Nat /\ Len(pending) \in Nat /\ Len(pending') \in Nat
    BY <1>2, <1>3, <1>5
  <2> DEFINE l == Len(S)
             m == Len(T)
             P == pending
             Q == pending'
             q == Len(P)
             r == Len(Q)
             to == KeysHeld
             from == KeysNow
  <2> HIDE DEF l, m, P, Q, q, r, to, from
  <2>4. IsSent(S, l, P, q, to, h, x, y, T, m, Q, r)
    BY <1>4, <2>1, <2>2, <2>3 DEF IsSent, l, m, P, Q, q, r, to
  <2>5. Reads(S, l, P, q, from, to)
    BY <1>6 DEF l, P, q, from, to
  <2>6. Reads(T, m, Q, r, from, KeysAfter(h, x, y, to))
    BY <2>4, <2>5, ReadsMore
  <2> QED
    BY <2>6 DEF m, Q, r, to, from
<1> QED
  BY <1>7 DEF OnTheWay, T, h, x, y

\* An event that is posted is the next one that was sent, and has its type.
LEMMA EventType ==
  ASSUME NEW h, NEW x \in Nat, NEW y \in Nat, NEW s \in Keys
  PROVE  EventOf(h, x, y, s) \in InputEvent
<1> DEFINE t == KeysAfter(h, x, y, s)
           mods == get_current_key_modifiers(t.down, t.locks)
           pressed == bit(h, 4)
           code == x + 256 * y
           sx == signed(x, bit(h, 4))
           sy == signed(y, bit(h, 5))
<1>1. t \in Keys
  BY KeysAfterType
<1> HIDE DEF t
<1>2. mods \in SUBSET (Group \cup Lock)
  BY <1>1 DEF get_current_key_modifiers, Keys, Group
<1>3. pressed \in BOOLEAN /\ code \in Nat /\ sx \in Int /\ sy \in Int
  BY DEF bit, signed
<1> HIDE DEF mods, pressed, code, sx, sy
<1>4. KeyEvent(code, pressed, mods) \in InputEvent /\ MoveEvent(sx, sy) \in InputEvent
      /\ ClickEvent(x, pressed) \in InputEvent
  BY <1>2, <1>3 DEF InputEvent
<1> QED
  BY <1>4 DEF EventOf, t, mods, pressed, code, sx, sy

\* A key's packet: its first byte and the two that follow in a second write.
LEMMA OnKeyInv ==
  ASSUME Undisturbed, NEW k \in InputKey, NEW pressed \in BOOLEAN, OnKey(k, pressed)
  PROVE  Undisturbed'
<1> DEFINE h == IF pressed THEN 20 ELSE 4
           x == kernel_code[k] % 256
           y == kernel_code[k] \div 256
           p == <<h, x, y>>
<1>1. /\ kernel_code[k] \in Nat /\ x \in Nat /\ y \in Nat /\ x + 256 * y = kernel_code[k]
      /\ h \in {20, 4} /\ h \in Nat /\ (h = 20 <=> pressed)
  BY KeyCode
<1>2. /\ InputTypes /\ OnTheWay /\ ~wrong /\ half_written = <<>>
      /\ pressed <=> k \notin held_keys
      /\ held_keys' = IF h = 20 THEN held_keys \cup {k} ELSE held_keys \ {k}
      /\ lock_on' = IF h = 20 THEN toggle(lock_on, lock(kernel_code[k])) ELSE lock_on
      /\ wire' = Append(wire, h) /\ half_written' = <<x, y>>
      /\ pending' = Append(pending, KeyEvent(kernel_code[k], pressed, user_modifiers))
      /\ acc' = acc /\ fifo' = fifo /\ header_read' = header_read /\ wrong' = wrong
      /\ is_pressed' = is_pressed /\ is_lock' = is_lock
  BY <1>1 DEF Undisturbed, OnKey, systemVars
<1> HIDE DEF x, y, h
<1>3. h % 16 = 4 /\ (bit(h, 4) <=> pressed) /\ HasEvent(h) /\ packet_length(h) = 3
  <2>1. h % 16 = 4 /\ (bit(h, 4) <=> pressed)
    BY <1>1 DEF bit
  <2> QED
    BY <1>1, <2>1, PacketLength DEF HasEvent
<1>4. /\ KeysHeld' = KeysAfter(h, x, y, KeysHeld)
      /\ user_modifiers = get_current_key_modifiers(KeysHeld'.down, KeysHeld'.locks)
      /\ IsFiniteSet(held_keys') /\ lock_on' \subseteq Lock
  <2>1. /\ InputTypes /\ h \in {20, 4} /\ x + 256 * y = kernel_code[k]
        /\ h = 20 <=> k \notin held_keys
        /\ held_keys' = IF h = 20 THEN held_keys \cup {k} ELSE held_keys \ {k}
        /\ lock_on' = IF h = 20 THEN toggle(lock_on, lock(kernel_code[k])) ELSE lock_on
    BY <1>1, <1>2
  <2> QED
    BY <2>1, HeldAfterKey
<1>5. KeyEvent(kernel_code[k], pressed, user_modifiers) = EventOf(h, x, y, KeysHeld)
  <2>1. bit(h, 4) = pressed
    BY <1>3 DEF bit
  <2> QED
    BY <1>1, <1>3, <1>4, <2>1 DEF EventOf
<1>6. /\ p \in Seq(Nat) /\ p # <<>> /\ p[1] = h /\ p[2] = x /\ p[3] = y /\ Len(p) = 3
      /\ wire' \o half_written' = wire \o p
  <2>1. /\ p \in Seq(Nat) /\ p # <<>> /\ p[1] = h /\ p[2] = x /\ p[3] = y /\ Len(p) = 3
        /\ <<h>> \in Seq(Nat) /\ <<x, y>> \in Seq(Nat)
    BY <1>1
  <2>5. <<h>> \o <<x, y>> = p
    <3> DEFINE a == <<h>>
               b == <<x, y>>
    <3>1. a \in Seq(Nat) /\ b \in Seq(Nat) /\ Len(a) = 1 /\ Len(b) = 2 /\ a[1] = h /\ b[1] = x /\ b[2] = y
      BY <2>1
    <3> HIDE DEF a, b
    <3>2. /\ a \o b \in Seq(Nat) /\ Len(a \o b) = 3
          /\ (a \o b)[1] = h /\ (a \o b)[2] = x /\ (a \o b)[3] = y
      <4>1. a \in Seq(Nat) /\ b \in Seq(Nat)
        BY <3>1
      <4>2. /\ a \o b \in Seq(Nat) /\ Len(a \o b) = Len(a) + Len(b)
            /\ \A i \in 1 .. Len(a) : (a \o b)[i] = a[i]
            /\ \A i \in Len(a) + 1 .. Len(a) + Len(b) : (a \o b)[i] = b[i - Len(a)]
        BY <4>1, ConcatFacts
      <4> QED
        BY <3>1, <4>2
    <3> HIDE DEF p
    <3>3. \A i \in 1 .. Len(p) : i = 1 \/ i = 2 \/ i = 3
      BY <2>1
    <3>4. a \o b = p
      BY <2>1, <3>2, <3>3, SeqEqual
    <3> QED
      BY <3>4 DEF a, b
  <2>2. wire \in Seq(Nat)
    BY <1>2 DEF InputTypes
  <2>3. Append(wire, h) = wire \o <<h>>
    BY <1>1, <2>2, AppendIsConcat
  <2>4. (wire \o <<h>>) \o <<x, y>> = wire \o (<<h>> \o <<x, y>>)
    BY <2>1, <2>2, BytesAssociative, ZenonT(30)
  <2> QED
    BY <1>2, <2>1, <2>3, <2>4, <2>5
<1> HIDE DEF p
<1>7. KeysNow' = KeysNow
  BY <1>2 DEF KeysNow
<1>8. OnTheWay'
  <2>1. IF HasEvent(p[1]) THEN pending' = Append(pending, EventOf(p[1], p[2], p[3], KeysHeld))
          ELSE pending' = pending
    BY <1>2, <1>3, <1>5, <1>6
  <2>2. KeysHeld' = KeysAfter(p[1], p[2], p[3], KeysHeld) /\ Len(p) = packet_length(p[1])
    BY <1>3, <1>4, <1>6
  <2> QED
    BY <1>2, <1>6, <1>7, <2>1, <2>2, PacketSent
<1>9. InputTypes'
  <2>1. pending' \in Seq(InputEvent)
    <3>1. EventOf(h, x, y, KeysHeld) \in InputEvent
      BY <1>1, <1>2, EventType, KeysHeldType
    <3>2. pending \in Seq(InputEvent)
      BY <1>2 DEF InputTypes
    <3> QED
      BY <1>2, <1>5, <3>1, <3>2
  <2>2. half_written' \in Seq(Nat) /\ wire' \in Seq(Nat)
    BY <1>1, <1>2 DEF InputTypes
  <2>3. held_keys' \subseteq InputKey
    BY <1>2 DEF InputTypes
  <2> QED
    BY <1>2, <1>4, <2>1, <2>2, <2>3 DEF InputTypes
<1> QED
  BY <1>2, <1>8, <1>9 DEF Undisturbed

\* The second write of a key's packet.
LEMMA OnKeyRestInv ==
  ASSUME Undisturbed, OnKeyRest
  PROVE  Undisturbed'
<1>1. /\ InputTypes /\ OnTheWay /\ ~wrong
      /\ wire' = wire \o half_written /\ half_written' = <<>>
      /\ held_keys' = held_keys /\ lock_on' = lock_on /\ acc' = acc
      /\ fifo' = fifo /\ header_read' = header_read
      /\ is_pressed' = is_pressed /\ is_lock' = is_lock /\ pending' = pending /\ wrong' = wrong
  BY DEF Undisturbed, OnKeyRest, systemVars
<1>2. wire \in Seq(Nat) /\ half_written \in Seq(Nat)
  BY <1>1 DEF InputTypes
<1>3. wire' \in Seq(Nat) /\ half_written' \in Seq(Nat)
  BY <1>1, <1>2, ConcatFacts
<1>4. wire' \o half_written' = wire \o half_written
  BY <1>1, <1>3, ConcatEmptySeq
<1>5. Stream' = Stream
  BY <1>1, <1>4 DEF Stream
<1>6. KeysNow' = KeysNow /\ KeysHeld' = KeysHeld
  BY <1>1 DEF KeysNow, KeysHeld
<1>7. OnTheWay'
  BY <1>1, <1>5, <1>6 DEF OnTheWay
<1>8. InputTypes'
  BY <1>1, <1>3 DEF InputTypes
<1> QED
  BY <1>1, <1>7, <1>8 DEF Undisturbed

\* A packet of the mouse that is not written into one of the keyboard.
LEMMA MouseWriteInv ==
  ASSUME Undisturbed, half_written = <<>>, NEW p \in Seq(Nat), mouse_write(p), acc' \in Int \X Int,
         p # <<>>, Len(p) = packet_length(p[1]), p[1] % 16 # 4, p[2] \in Nat, p[3] \in Nat \/ p[1] % 16 = 2,
         IF HasEvent(p[1]) THEN pending' = Append(pending, EventOf(p[1], p[2], p[3], KeysHeld))
         ELSE pending' = pending
  PROVE  Undisturbed'
<1>1. /\ InputTypes /\ OnTheWay /\ ~wrong
      /\ wire' = wire \o p /\ half_written' = <<>>
      /\ held_keys' = held_keys /\ lock_on' = lock_on /\ fifo' = fifo /\ header_read' = header_read
      /\ is_pressed' = is_pressed /\ is_lock' = is_lock /\ wrong' = wrong
  BY DEF Undisturbed, mouse_write, systemVars
<1>2. wire' \in Seq(Nat) /\ half_written' \in Seq(Nat)
  <2>1. wire \in Seq(Nat)
    BY <1>1 DEF InputTypes
  <2> QED
    BY <1>1, <2>1, ConcatFacts
<1>3. wire' \o half_written' = wire \o p
  BY <1>1, <1>2, ConcatEmptySeq
<1>4. KeysNow' = KeysNow /\ KeysHeld' = KeysHeld
  BY <1>1 DEF KeysNow, KeysHeld
<1>5. KeysAfter(p[1], p[2], p[3], KeysHeld) = KeysHeld
  BY DEF KeysAfter
<1>6. OnTheWay'
  BY <1>1, <1>3, <1>4, <1>5, PacketSent
<1>7. pending' \in Seq(InputEvent)
  <2>1. pending \in Seq(InputEvent) /\ KeysHeld \in Keys
    BY <1>1, KeysHeldType DEF InputTypes
  <2>2. EventOf(p[1], p[2], 0, KeysHeld) \in InputEvent
    BY <2>1, EventType
  <2>3. p[3] \in Nat => EventOf(p[1], p[2], p[3], KeysHeld) \in InputEvent
    BY <2>1, EventType
  <2>4. p[1] % 16 = 2 => EventOf(p[1], p[2], p[3], KeysHeld) = EventOf(p[1], p[2], 0, KeysHeld)
    BY DEF EventOf
  <2> DEFINE event == EventOf(p[1], p[2], p[3], KeysHeld)
  <2>5. event \in InputEvent
    BY <2>2, <2>3, <2>4
  <2>6. pending' = Append(pending, event) \/ pending' = pending
    OBVIOUS
  <2> HIDE DEF event
  <2>7. Append(pending, event) \in Seq(InputEvent)
    BY <2>1, <2>5
  <2> QED
    BY <2>1, <2>6, <2>7
<1>8. InputTypes'
  BY <1>1, <1>2, <1>7 DEF InputTypes
<1> QED
  BY <1>1, <1>6, <1>8 DEF Undisturbed

\* Which bytes the mouse's packets begin with.
LEMMA Signs ==
  ASSUME NEW x \in Int, NEW y \in Int, NEW c \in {1, 3}
  PROVE  LET h == c + signs(x, y) IN
         /\ h \in Nat /\ h % 16 = c /\ packet_length(h) = 3
         /\ signed(magnitude(x), bit(h, 4)) = x /\ signed(magnitude(y), bit(h, 5)) = y
         /\ magnitude(x) \in Nat /\ magnitude(y) \in Nat
<1> DEFINE h == c + signs(x, y)
<1>1. /\ h \in Nat /\ h % 16 = c
      /\ (h \div 16) % 2 = 1 <=> x < 0
      /\ (h \div 32) % 2 = 1 <=> y < 0
  <2>1. signs(x, y) \in {0, 16, 32, 48} /\ (signs(x, y) \in {16, 48} <=> x < 0)
          /\ (signs(x, y) \in {32, 48} <=> y < 0)
    BY DEF signs
  <2> HIDE DEF h
  <2>2. h = c + signs(x, y)
    BY DEF h
  <2>3. \A s \in {0, 16, 32, 48} : /\ c + s \in Nat /\ (c + s) % 16 = c
                                   /\ ((c + s) \div 16) % 2 = 1 <=> s \in {16, 48}
                                   /\ ((c + s) \div 32) % 2 = 1 <=> s \in {32, 48}
    OBVIOUS
  <2> QED
    BY <2>1, <2>2, <2>3
<1>2. 2^4 = 16 /\ 2^5 = 32
  OBVIOUS
<1> HIDE DEF h
<1>3. (bit(h, 4) <=> x < 0) /\ (bit(h, 5) <=> y < 0)
  BY <1>1, <1>2 DEF bit
<1>4. signed(magnitude(x), bit(h, 4)) = x /\ signed(magnitude(y), bit(h, 5)) = y
  BY <1>3 DEF signed, magnitude
<1>5. magnitude(x) \in Nat /\ magnitude(y) \in Nat
  BY DEF magnitude
<1>6. packet_length(h) = 3
  BY <1>1, PacketLength
<1> QED
  BY <1>1, <1>4, <1>5, <1>6 DEF h

\* Movements that are only added up send nothing.
LEMMA OnMouseMoveSoonInv ==
  ASSUME Undisturbed, NEW m \in Moves, OnMouseMoveSoon(m[1], m[2])
  PROVE  Undisturbed'
<1>1. m[1] \in Int /\ m[2] \in Int /\ acc \in Int \X Int
  BY ServerAssumption DEF Undisturbed, InputTypes
<1>2. /\ acc' = <<acc[1] + m[1], acc[2] + m[2]>>
      /\ held_keys' = held_keys /\ lock_on' = lock_on /\ half_written' = half_written
      /\ wire' = wire /\ fifo' = fifo
      /\ header_read' = header_read /\ is_pressed' = is_pressed /\ is_lock' = is_lock /\ pending' = pending
      /\ wrong' = wrong
  BY DEF OnMouseMoveSoon, systemVars
<1>3. acc' \in Int \X Int
  BY <1>1, <1>2
<1>4. Stream' = Stream /\ KeysNow' = KeysNow /\ KeysHeld' = KeysHeld
  BY <1>2 DEF Stream, KeysNow, KeysHeld
<1>5. OnTheWay'
  BY <1>2, <1>4 DEF Undisturbed, OnTheWay
<1>6. InputTypes'
  BY <1>2, <1>3 DEF Undisturbed, InputTypes
<1> QED
  BY <1>2, <1>5, <1>6 DEF Undisturbed

\* A movement's packet.
LEMMA OnMouseMoveInv ==
  ASSUME Undisturbed, NEW m \in Moves, OnMouseMove(m[1], m[2]), ~disturbed'
  PROVE  Undisturbed'
<1> DEFINE x == clamp(acc[1] + m[1])
           y == clamp(acc[2] + m[2])
           h == 1 + signs(x, y)
           p == <<h, magnitude(x), magnitude(y)>>
<1>1. x \in Int /\ y \in Int
  <2>1. m[1] \in Int /\ m[2] \in Int /\ acc[1] \in Int /\ acc[2] \in Int /\ MAX_DELTA \in Nat
    BY ServerAssumption DEF Undisturbed, InputTypes
  <2> QED
    BY <2>1 DEF clamp
<1>2. /\ mouse_write(p) /\ pending' = Append(pending, MoveEvent(x, y)) /\ acc' = <<0, 0>>
      /\ half_written = <<>>
  BY DEF OnMouseMove, mouse_write
<1> HIDE DEF x, y
<1>3. /\ h \in Nat /\ h % 16 = 1 /\ packet_length(h) = 3
      /\ signed(magnitude(x), bit(h, 4)) = x /\ signed(magnitude(y), bit(h, 5)) = y
      /\ magnitude(x) \in Nat /\ magnitude(y) \in Nat
  BY <1>1, Signs
<1> HIDE DEF h
<1>4. /\ p \in Seq(Nat) /\ p # <<>> /\ p[1] = h /\ p[2] = magnitude(x) /\ p[3] = magnitude(y) /\ Len(p) = 3
  BY <1>3
<1>5. EventOf(h, magnitude(x), magnitude(y), KeysHeld) = MoveEvent(x, y)
  BY <1>3 DEF EventOf
<1> HIDE DEF p
<1>6. HasEvent(p[1]) /\ p[1] % 16 # 4 /\ Len(p) = packet_length(p[1]) /\ p[2] \in Nat /\ p[3] \in Nat
      /\ pending' = Append(pending, EventOf(p[1], p[2], p[3], KeysHeld)) /\ acc' \in Int \X Int
  BY <1>2, <1>3, <1>4, <1>5 DEF HasEvent
<1> QED
  BY <1>2, <1>4, <1>6, MouseWriteInv

\* A click's packet.
LEMMA OnMouseClickInv ==
  ASSUME Undisturbed, NEW button \in 0 .. 1, NEW pressed \in BOOLEAN, OnMouseClick(button, pressed), ~disturbed'
  PROVE  Undisturbed'
<1> DEFINE h == IF pressed THEN 18 ELSE 2
           p == <<h, button>>
<1>1. /\ mouse_write(p) /\ pending' = Append(pending, ClickEvent(button, pressed)) /\ acc' = acc
      /\ half_written = <<>> /\ acc' \in Int \X Int
  BY DEF OnMouseClick, mouse_write, Undisturbed, InputTypes
<1>2. h \in Nat /\ h % 16 = 2 /\ packet_length(h) = 2 /\ (bit(h, 4) = pressed)
  <2>1. h \in Nat /\ h % 16 = 2
    OBVIOUS
  <2>2. 2^4 = 16 /\ (h \div 16) % 2 = IF pressed THEN 1 ELSE 0
    OBVIOUS
  <2>3. bit(h, 4) = pressed
    BY <2>2 DEF bit
  <2> QED
    BY <2>1, <2>3, PacketLength
<1> HIDE DEF h
<1>3. p \in Seq(Nat) /\ p # <<>> /\ p[1] = h /\ p[2] = button /\ Len(p) = 2
  BY <1>2
<1>4. \A z : EventOf(h, button, z, KeysHeld) = ClickEvent(button, pressed)
  BY <1>2 DEF EventOf
<1> HIDE DEF p
<1>5. HasEvent(p[1]) /\ p[1] % 16 # 4 /\ p[1] % 16 = 2 /\ Len(p) = packet_length(p[1]) /\ p[2] \in Nat
      /\ pending' = Append(pending, EventOf(p[1], p[2], p[3], KeysHeld))
  BY <1>1, <1>2, <1>3, <1>4 DEF HasEvent
<1> QED
  BY <1>1, <1>3, <1>5, MouseWriteInv

\* A packet that makes no event.
LEMMA OnMouseScrollInv ==
  ASSUME Undisturbed, NEW m \in Moves, OnMouseScroll(m[1], m[2]), ~disturbed'
  PROVE  Undisturbed'
<1> DEFINE x == m[1]
           y == m[2]
           h == 3 + signs(x, y)
           p == <<h, magnitude(x), magnitude(y)>>
<1>1. x \in Int /\ y \in Int
  BY ServerAssumption
<1>2. /\ mouse_write(p) /\ pending' = pending /\ acc' = acc /\ half_written = <<>> /\ acc' \in Int \X Int
  BY DEF OnMouseScroll, mouse_write, Undisturbed, InputTypes
<1> HIDE DEF x, y
<1>3. h \in Nat /\ h % 16 = 3 /\ packet_length(h) = 3 /\ magnitude(x) \in Nat /\ magnitude(y) \in Nat
  BY <1>1, Signs
<1> HIDE DEF h
<1>4. /\ p \in Seq(Nat) /\ p # <<>> /\ p[1] = h /\ p[2] = magnitude(x) /\ p[3] = magnitude(y) /\ Len(p) = 3
  BY <1>3
<1> HIDE DEF p
<1>5. ~HasEvent(p[1]) /\ p[1] % 16 # 4 /\ Len(p) = packet_length(p[1]) /\ p[2] \in Nat /\ p[3] \in Nat
  BY <1>3, <1>4 DEF HasEvent
<1> QED
  BY <1>2, <1>4, <1>5, MouseWriteInv

\* A byte moves from the head of one list to the end of the one in front of it.
LEMMA ByteMoved ==
  ASSUME NEW u \in Seq(Nat), NEW v \in Seq(Nat), v # <<>>, NEW w \in Seq(Nat)
  PROVE  Append(u, Head(v)) \o (Tail(v) \o w) = u \o (v \o w)
<1> DEFINE a == <<Head(v)>>
           b == Tail(v)
           c == b \o w
<1>1. /\ a \in Seq(Nat) /\ b \in Seq(Nat) /\ Len(a) = 1 /\ a[1] = v[1] /\ Len(b) = Len(v) - 1
      /\ Len(v) \in Nat \ {0} /\ \A i \in 1 .. Len(v) - 1 : b[i] = v[i + 1]
  OBVIOUS
<1>2. Append(u, Head(v)) = u \o a
  BY AppendIsConcat
<1> HIDE DEF a, b
<1>3. a \in Seq(Nat) /\ b \in Seq(Nat)
  BY <1>1
<1>4. v = a \o b
  <2>1. /\ a \o b \in Seq(Nat) /\ Len(a \o b) = Len(a) + Len(b)
        /\ \A i \in 1 .. Len(a) : (a \o b)[i] = a[i]
        /\ \A i \in Len(a) + 1 .. Len(a) + Len(b) : (a \o b)[i] = b[i - Len(a)]
    BY <1>3, ConcatFacts
  <2>2. ASSUME NEW i \in 1 .. Len(v), i # 1
        PROVE  (a \o b)[i] = v[i]
    <3>1. i - 1 \in 1 .. Len(v) - 1 /\ (i - 1) + 1 = i
      BY <1>1, <2>2
    <3>2. i \in Len(a) + 1 .. Len(a) + Len(b) /\ i - Len(a) = i - 1
      BY <1>1, <2>2
    <3>3. b[i - 1] = v[i]
      BY <1>1, <3>1
    <3> QED
      BY <2>1, <3>2, <3>3
  <2>3. Len(a \o b) = Len(v) /\ \A i \in 1 .. Len(v) : (a \o b)[i] = v[i]
    BY <1>1, <2>1, <2>2
  <2> QED
    BY <2>1, <2>3, SeqEqual
<1>5. c \in Seq(Nat)
  BY <1>3, ConcatFacts
<1>6. v \o w = a \o c
  <2>1. (a \o b) \o w = a \o (b \o w)
    BY <1>3, BytesAssociative, ZenonT(30)
  <2> QED
    BY <1>4, <2>1
<1> HIDE DEF c
<1>7. (u \o a) \o c = u \o (a \o c)
  BY <1>3, <1>5, BytesAssociative, ZenonT(30)
<1> QED
  BY <1>2, <1>6, <1>7 DEF b, c

\* A byte arrives.
LEMMA ReceiveInv ==
  ASSUME Undisturbed, Receive, ~disturbed'
  PROVE  Undisturbed'
<1>1. /\ InputTypes /\ OnTheWay /\ ~wrong
      /\ wire # <<>> /\ wire' = Tail(wire) /\ fifo' = Append(fifo, Head(wire))
      /\ held_keys' = held_keys /\ lock_on' = lock_on /\ acc' = acc /\ half_written' = half_written
      /\ header_read' = header_read
      /\ is_pressed' = is_pressed /\ is_lock' = is_lock /\ pending' = pending /\ wrong' = wrong
  BY DEF Undisturbed, Receive, systemVars, serverVars
<1>2. wire \in Seq(Nat) /\ half_written \in Seq(Nat) /\ fifo \in Seq(Nat)
  BY <1>1 DEF InputTypes
<1>3. wire' \in Seq(Nat) /\ fifo' \in Seq(Nat) /\ <<Head(wire)>> \in Seq(Nat) /\ Head(wire) \in Nat
  BY <1>1, <1>2
<1>4. fifo' \o (wire' \o half_written) = fifo \o (wire \o half_written)
  BY <1>1, <1>2, ByteMoved
<1>5. Stream' = Stream /\ KeysNow' = KeysNow /\ KeysHeld' = KeysHeld
  BY <1>1, <1>4 DEF Stream, KeysNow, KeysHeld
<1>6. OnTheWay'
  BY <1>1, <1>5 DEF OnTheWay
<1>7. InputTypes'
  BY <1>1, <1>3 DEF InputTypes
<1> QED
  BY <1>1, <1>6, <1>7 DEF Undisturbed

\* What the handler does with a whole packet, when its event is the next one that was sent.
LEMMA DecodePacket ==
  ASSUME NEW p, p[1] \in Nat, decode(p),
         HasEvent(p[1]) => pending # <<>> /\ Head(pending) = EventOf(p[1], p[2], p[3], KeysNow)
  PROVE  /\ KeysNow' = KeysAfter(p[1], p[2], p[3], KeysNow)
         /\ pending' = IF HasEvent(p[1]) THEN Tail(pending) ELSE pending
         /\ wrong' = wrong
<1> DEFINE h == p[1]
           x == p[2]
           y == p[3]
           event == EventOf(h, x, y, KeysNow)
<1>1. ASSUME HasEvent(h), post_event(event)
      PROVE  pending' = Tail(pending) /\ wrong' = wrong
  BY <1>1 DEF post_event
<1>2. CASE h % 16 \in {1, 2}
  <2>1. post_event(event) /\ is_pressed' = is_pressed /\ is_lock' = is_lock
    BY <1>2 DEF decode, mouse_event, systemVars, EventOf
  <2>2. HasEvent(h)
    BY <1>2 DEF HasEvent
  <2>3. KeysNow' = KeysNow /\ KeysAfter(h, x, y, KeysNow) = KeysNow
    BY <1>2, <2>1 DEF KeysNow, KeysAfter
  <2> QED
    BY <1>1, <2>1, <2>2, <2>3
<1>3. CASE h % 16 = 4
  <2> DEFINE code == x + 256 * y
             t == KeysAfter(h, x, y, KeysNow)
  <2>1. HasEvent(h)
    BY <1>3 DEF HasEvent
  <2>2. IF bit(h, 4) THEN press(code) ELSE release(code)
    BY <1>3 DEF decode
  <2>3. KeysNow' = t
    BY <1>3, <2>2 DEF press, release, KeysNow, KeysAfter
  <2>4. event = KeyEvent(code, bit(h, 4), get_current_key_modifiers(t.down, t.locks))
    BY <1>3 DEF EventOf
  <2>5. t.down = is_pressed' /\ t.locks = is_lock'
    BY <2>3 DEF KeysNow
  <2>6. bit(h, 4) \in BOOLEAN
    BY DEF bit
  <2> HIDE DEF code, t, event
  <2>7. post_event(event)
    <3>1. CASE bit(h, 4)
      <4>1. bit(h, 4) = TRUE
        BY <2>6, <3>1
      <4>2. post_event(KeyEvent(code, TRUE, get_current_key_modifiers(is_pressed', is_lock')))
        BY <2>2, <3>1 DEF press
      <4> QED
        BY <2>4, <2>5, <4>1, <4>2
    <3>2. CASE ~bit(h, 4)
      <4>1. bit(h, 4) = FALSE
        BY <2>6, <3>2
      <4>2. post_event(KeyEvent(code, FALSE, get_current_key_modifiers(is_pressed', is_lock')))
        BY <2>2, <3>2 DEF release
      <4> QED
        BY <2>4, <2>5, <4>1, <4>2
    <3> QED
      BY <3>1, <3>2
  <2> QED
    BY <1>1, <2>1, <2>3, <2>7 DEF t
<1>4. CASE h % 16 \notin {1, 2, 4}
  <2>1. pending' = pending /\ wrong' = wrong /\ is_pressed' = is_pressed /\ is_lock' = is_lock
    BY <1>4 DEF decode, systemVars
  <2>2. ~HasEvent(h)
    BY <1>4 DEF HasEvent
  <2>3. KeysNow' = KeysNow /\ KeysAfter(h, x, y, KeysNow) = KeysNow
    BY <1>4, <2>1 DEF KeysNow, KeysAfter
  <2> QED
    BY <2>1, <2>2, <2>3
<1> QED
  BY <1>2, <1>3, <1>4

\* A byte of a packet that is not whole yet, or the last one.
LEMMA ReadOneInv ==
  ASSUME Undisturbed, ReadOne
  PROVE  Undisturbed'
<1> DEFINE p == Append(header_read, Head(fifo))
           c == wire \o half_written
           S == Stream
           l == Len(Stream)
<1>1. InputTypes /\ OnTheWay /\ ~wrong
  BY DEF Undisturbed
<1>2. /\ held_keys' = held_keys /\ lock_on' = lock_on /\ acc' = acc
      /\ half_written' = half_written /\ wire' = wire
      /\ fifo' = Tail(fifo)
  BY DEF ReadOne, serverVars
<1>3. /\ header_read \in Seq(Nat) /\ fifo \in Seq(Nat) /\ wire \in Seq(Nat) /\ half_written \in Seq(Nat)
      /\ c \in Seq(Nat)
  BY <1>1, ConcatFacts DEF InputTypes
<1>4. fifo # <<>>
  <2>1. Len(fifo) >= 1
    BY <1>3, LineAssumption DEF ReadOne
  <2> QED
    BY <2>1
<1>5. /\ Head(fifo) \in Nat /\ fifo' \in Seq(Nat)
      /\ p \in Seq(Nat) /\ p # <<>> /\ p[1] \in Nat /\ Len(p) = Len(header_read) + 1 /\ Len(header_read) \in Nat
      /\ header_read # <<>> => p[1] = header_read[1]
      /\ header_read = <<>> => Len(header_read) = 0
  <2>1. Head(fifo) \in Nat /\ fifo' \in Seq(Nat)
    BY <1>2, <1>3, <1>4
  <2>2. /\ p \in Seq(Nat) /\ Len(p) = Len(header_read) + 1 /\ Len(header_read) \in Nat
        /\ \A i \in 1 .. Len(header_read) : p[i] = header_read[i]
    BY <1>3, <2>1
  <2>3. (header_read # <<>> => Len(header_read) >= 1) /\ (header_read = <<>> => Len(header_read) = 0)
    BY <1>3
  <2> HIDE DEF p
  <2>4. p # <<>> /\ p[1] \in Nat
    BY <2>2
  <2> QED
    BY <2>1, <2>2, <2>3, <2>4
<1>6. S = p \o (fifo' \o c)
  BY <1>2, <1>3, <1>4, ByteMoved DEF Stream
<1>7. KeysHeld' = KeysHeld
  BY <1>2 DEF KeysHeld
<1>8. CASE Len(p) < packet_length(p[1])
  <2>1. header_read' = p /\ is_pressed' = is_pressed /\ is_lock' = is_lock
          /\ pending' = pending /\ wrong' = wrong
    BY <1>8 DEF ReadOne, systemVars
  <2>2. Stream' = S
    BY <1>2, <1>6, <2>1 DEF Stream
  <2> HIDE DEF S, p
  <2>3. OnTheWay'
    BY <1>1, <1>7, <2>1, <2>2 DEF OnTheWay, KeysNow, S
  <2>4. InputTypes'
    BY <1>1, <1>2, <1>5, <1>8, <2>1 DEF InputTypes
  <2> QED
    BY <1>1, <2>1, <2>3, <2>4 DEF Undisturbed
<1>9. CASE ~(Len(p) < packet_length(p[1]))
  <2> DEFINE T == Stream'
             n == packet_length(p[1])
             d == IF HasEvent(p[1]) THEN 1 ELSE 0
             Q == IF HasEvent(p[1]) THEN Tail(pending) ELSE pending
             next == KeysAfter(p[1], p[2], p[3], KeysNow)
  <2>1. header_read' = <<>> /\ decode(p)
    BY <1>9 DEF ReadOne
  <2>2. n \in 1 .. 3 /\ Len(p) = n
    <3>1. n \in 1 .. 3
      BY <1>5, PacketLength
    <3>2. header_read # <<>> => Len(header_read) < n
      BY <1>1, <1>5 DEF InputTypes
    <3> HIDE DEF n
    <3>3. ~(Len(p) < n)
      BY <1>9 DEF n
    <3> HIDE DEF p
    <3> QED
      BY <1>5, <3>1, <3>2, <3>3
  <2>3. T = fifo' \o c /\ T \in Seq(Nat)
    <3>1. fifo' \o c \in Seq(Nat)
      BY <1>3, <1>5, ConcatFacts
    <3>2. T = <<>> \o (fifo' \o c)
      BY <1>2, <2>1 DEF Stream
    <3> QED
      BY <3>1, <3>2, ConcatEmptySeq
  <2> HIDE DEF T
  <2>4. S = p \o T
    BY <1>6, <2>3
  <2> HIDE DEF S, p, n, d, Q, next, c
  <2>5. /\ S \in Seq(Nat) /\ Len(S) = Len(p) + Len(T) /\ Len(T) \in Nat
        /\ \A k \in 1 .. Len(p) : S[k] = p[k]
        /\ \A k \in Len(p) + 1 .. Len(p) + Len(T) : S[k] = T[k - Len(p)]
    <3>1. p \in Seq(Nat) /\ T \in Seq(Nat)
      BY <1>5, <2>3
    <3>2. /\ p \o T \in Seq(Nat) /\ Len(p \o T) = Len(p) + Len(T) /\ Len(T) \in Nat
          /\ \A k \in 1 .. Len(p) : (p \o T)[k] = p[k]
          /\ \A k \in Len(p) + 1 .. Len(p) + Len(T) : (p \o T)[k] = T[k - Len(p)]
      BY <3>1, ConcatFacts
    <3> QED
      BY <2>4, <3>2
  <2>6. /\ S[1] = p[1] /\ (n >= 2 => S[2] = p[2]) /\ (n = 3 => S[3] = p[3])
    BY <2>2, <2>5
  <2>7. /\ KeysAfter(S[1], S[2], S[3], KeysNow) = next
        /\ HasEvent(p[1]) => EventOf(S[1], S[2], S[3], KeysNow) = EventOf(p[1], p[2], p[3], KeysNow)
    BY <1>5, <2>6, SamePacket DEF next, n
  <2>8. IsRead(S, Len(S), pending, Len(pending), n, d, T, Q)
    <3>1. Len(S) \in Nat \ {0} /\ \A k \in 1 .. Len(S) : S[k] \in Nat
      BY <2>2, <2>5
    <3>2. n = packet_length(S[1]) /\ d = IF HasEvent(S[1]) THEN 1 ELSE 0
      BY <2>6 DEF n, d
    <3>3. \A k \in 1 .. Len(S) - n : T[k] = S[k + n]
      <4>1. ASSUME NEW k \in 1 .. Len(S) - n
            PROVE  k + n \in Len(p) + 1 .. Len(p) + Len(T) /\ (k + n) - Len(p) = k
        BY <2>2, <2>5
      <4> QED
        BY <2>5, <4>1
    <3>4. Len(pending) \in Nat /\ \A i \in 1 .. Len(pending) - d : Q[i] = pending[i + d]
      <4>1. pending \in Seq(InputEvent)
        BY <1>1 DEF InputTypes
      <4>2. CASE HasEvent(p[1])
        <5>1. CASE pending = <<>>
          BY <4>1, <4>2, <5>1 DEF Q, d
        <5>2. CASE pending # <<>>
          BY <4>1, <4>2, <5>2 DEF Q, d
        <5> QED
          BY <5>1, <5>2
      <4>3. CASE ~HasEvent(p[1])
        BY <4>1, <4>3 DEF Q, d
      <4> QED
        BY <4>2, <4>3
    <3> QED
      BY <3>1, <3>2, <3>3, <3>4 DEF IsRead
  <2>9. /\ d <= Len(pending)
        /\ HasEvent(S[1]) => pending[1] = EventOf(S[1], S[2], S[3], KeysNow)
        /\ Reads(T, Len(S) - n, Q, Len(pending) - d, KeysAfter(S[1], S[2], S[3], KeysNow), KeysHeld)
    <3>1. Reads(S, Len(S), pending, Len(pending), KeysNow, KeysHeld)
      BY <1>1 DEF OnTheWay, S
    <3> QED
      BY <2>8, <3>1, ReadsRest
  <2>10. HasEvent(p[1]) => pending # <<>> /\ Head(pending) = EventOf(p[1], p[2], p[3], KeysNow)
    <3> SUFFICES ASSUME HasEvent(p[1])
                 PROVE  pending # <<>> /\ Head(pending) = EventOf(p[1], p[2], p[3], KeysNow)
      OBVIOUS
    <3>1. pending \in Seq(InputEvent)
      BY <1>1 DEF InputTypes
    <3>2. Len(pending) # 0
      BY <2>9, <3>1 DEF d
    <3>3. pending[1] = EventOf(p[1], p[2], p[3], KeysNow)
      BY <2>6, <2>7, <2>9
    <3> QED
      BY <3>1, <3>2, <3>3
  <2>11. KeysNow' = next /\ pending' = Q /\ wrong' = wrong
    BY <1>5, <2>1, <2>10, DecodePacket DEF next, Q
  <2>12. pending' \in Seq(InputEvent) /\ Len(pending') = Len(pending) - d
    <3>1. pending \in Seq(InputEvent)
      BY <1>1 DEF InputTypes
    <3>2. CASE HasEvent(p[1])
      <4>1. pending # <<>> /\ pending' = Tail(pending) /\ d = 1
        BY <2>10, <2>11, <3>2 DEF Q, d
      <4> QED
        BY <3>1, <4>1
    <3>3. CASE ~HasEvent(p[1])
      <4>1. pending' = pending /\ d = 0
        BY <2>11, <3>3 DEF Q, d
      <4> QED
        BY <3>1, <4>1
    <3> QED
      BY <3>2, <3>3
  <2>13. OnTheWay'
    <3>1. Len(T) = Len(S) - n
      BY <2>2, <2>5
    <3>2. Reads(T, Len(T), pending', Len(pending'), KeysNow', KeysHeld)
      BY <2>7, <2>9, <2>11, <2>12, <3>1
    <3> QED
      BY <1>7, <3>2 DEF OnTheWay, T
  <2>14. is_pressed' \in [Group -> Nat] /\ is_lock' \subseteq Lock
    <3>1. next \in Keys
      BY <1>1, KeysHeldType, KeysAfterType DEF next
    <3>2. KeysNow'.down = is_pressed' /\ KeysNow'.locks = is_lock'
      BY DEF KeysNow
    <3> QED
      BY <2>11, <3>1, <3>2 DEF Keys
  <2>15. InputTypes'
    <3>1. held_keys' \subseteq InputKey /\ IsFiniteSet(held_keys')
            /\ lock_on' \subseteq Lock /\ acc' \in Int \X Int
      BY <1>1, <1>2 DEF InputTypes
    <3>2. half_written' \in Seq(Nat) /\ wire' \in Seq(Nat) /\ fifo' \in Seq(Nat)
      BY <1>2, <1>3, <1>5
    <3>3. header_read' \in Seq(Nat) /\ header_read' = <<>>
      BY <2>1
    <3> QED
      BY <2>12, <2>14, <3>1, <3>2, <3>3 DEF InputTypes
  <2> QED
    BY <1>1, <2>11, <2>13, <2>15 DEF Undisturbed
<1> QED
  BY <1>8, <1>9

\* The line is quiet at first.
LEMMA InputInitInv ==
  ASSUME InputInit
  PROVE  InputInv
<1>1. InputTypes
  <2>1. Nat # {} /\ <<>> \in Seq(Nat) /\ <<>> \in Seq(InputEvent)
    OBVIOUS
  <2>2. IsFiniteSet(held_keys)
    BY FS_EmptySet DEF InputInit
  <2>3. is_pressed \in [Group -> Nat]
    BY DEF InputInit, Group
  <2> QED
    BY <2>1, <2>2, <2>3 DEF InputInit, InputTypes
<1>2. KeysNow = KeysHeld
  <2>1. \A g \in Group : KeysIn({}, g) = 0
    <3>1. \A g : {k \in {} : group(kernel_code[k]) = g} = {}
      OBVIOUS
    <3> QED
      BY <3>1, FS_EmptySet DEF KeysIn
  <2>2. [g \in Group |-> 0] = [g \in Group |-> KeysIn({}, g)]
    BY <2>1
  <2>3. is_pressed = [g \in Group |-> 0] /\ held_keys = {} /\ is_lock = lock_on
    BY DEF InputInit, Group
  <2> QED
    BY <2>2, <2>3 DEF KeysNow, KeysHeld
<1>3. Stream = <<>> /\ Len(Stream) = 0 /\ Len(pending) = 0
  <2>1. header_read = <<>> /\ fifo = <<>> /\ wire = <<>> /\ half_written = <<>> /\ pending = <<>>
    BY DEF InputInit
  <2>2. <<>> \in Seq(Nat) /\ Len(<<>>) = 0
    OBVIOUS
  <2>3. <<>> \o <<>> = <<>>
    BY <2>2, ConcatEmptySeq
  <2> QED
    BY <2>1, <2>2, <2>3 DEF Stream
<1>4. OnTheWay
  BY <1>1, <1>2, <1>3, KeysHeldType, ReadsNothing DEF OnTheWay
<1> QED
  BY <1>1, <1>4 DEF InputInv, Undisturbed, InputInit

\* As long as no byte is lost and no packet is torn, the window manager gets the events of the
\* keyboard and the mouse once each, in their order, with the modifiers the user held.
THEOREM InputCorrect == InputSpec => []EventsInOrder
<1>1. InputInit => InputInv
  BY InputInitInv
<1>2. ASSUME InputInv, [InputNext]_inputVars
      PROVE  InputInv'
  <2>1. CASE UNCHANGED inputVars
    BY <1>2, <2>1 DEF InputInv, Undisturbed, InputTypes, OnTheWay, Stream, KeysNow, KeysHeld,
      inputVars, serverVars,
         systemVars
  <2>2. CASE InputNext /\ ~disturbed'
    <3>1. Undisturbed
      BY <1>2, <2>2 DEF InputInv, InputNext
    <3>2. CASE \E k \in InputKey, pressed \in BOOLEAN : OnKey(k, pressed)
      BY <3>1, <3>2, OnKeyInv DEF InputInv
    <3>3. CASE OnKeyRest
      BY <3>1, <3>3, OnKeyRestInv DEF InputInv
    <3>4. CASE \E m \in Moves : OnMouseMoveSoon(m[1], m[2]) \/ OnMouseMove(m[1], m[2])
            \/ OnMouseScroll(m[1], m[2])
      BY <2>2, <3>1, <3>4, OnMouseMoveSoonInv, OnMouseMoveInv, OnMouseScrollInv DEF InputInv
    <3>5. CASE \E button \in 0 .. 1, pressed \in BOOLEAN : OnMouseClick(button, pressed)
      BY <2>2, <3>1, <3>5, OnMouseClickInv DEF InputInv
    <3>6. CASE Receive
      BY <2>2, <3>1, <3>6, ReceiveInv DEF InputInv
    <3>7. CASE ReadOne
      BY <3>1, <3>7, ReadOneInv DEF InputInv
    <3> QED
      BY <2>2, <3>2, <3>3, <3>4, <3>5, <3>6, <3>7 DEF InputNext
  <2>3. CASE disturbed'
    BY <2>3 DEF InputInv
  <2> QED
    BY <1>2, <2>1, <2>2, <2>3
<1>3. InputInv => EventsInOrder
  BY DEF InputInv, Undisturbed, EventsInOrder
<1> QED
  BY <1>1, <1>2, <1>3, PTL DEF InputSpec
=============================================================================
