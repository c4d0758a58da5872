---------------------------- MODULE QueueProofs ----------------------------
(***************************************************************************)
(* The two queues of the process core. How the scheduler's operations      *)
(* change the run queues: the facts are about values, so that a handler    *)
(* that combines several operations can cite one fact for each of them.    *)
(* And what DeltaQueue's operators compute, for queues of any length: the  *)
(* recursion that adds the delays up is well defined, and inserting keeps  *)
(* the type of the queue, its other sleepers and the delays non-negative.  *)
(***************************************************************************)
EXTENDS Scheduler, DeltaQueue, SequenceTheorems, OrderTheorems

\* s is a sequence of different tasks.
Distinct(s) ==
  /\ s \in Seq(Task)
  /\ \A i, j \in 1 .. Len(s) : s[i] = s[j] => i = j

\* t is in s.
In(t, s) == \E i \in 1 .. Len(s) : s[i] = t

(***************************************************************************)
(* The run queues rq and the current task cur are right for the states st, *)
(* the priorities pr and the dying task dy.                                *)
(***************************************************************************)
Queues(rq, cur, st, pr, dy) ==
  /\ rq \in [Priority -> Seq(Task)]
  /\ \A p \in Priority : Distinct(rq[p])
  /\ \A p \in Priority, t \in Task :
       In(t, rq[p]) <=> st[t] = RUNNING /\ pr[t] = p /\ t # cur /\ t # dy
  /\ cur \in Task => st[cur] = RUNNING /\ cur # dy

Values(cur, st, pr, dy) ==
  /\ cur \in Task \cup {NoTask} /\ dy \in Task \cup {NoTask}
  /\ st \in [Task -> State] /\ pr \in [Task -> Priority]

\* NoTask is not a task.
LEMMA NoTaskIsNone == NoTask \notin Task /\ 0 \in Task /\ 0 \in Priority
  BY MaxTasksAssumption, MaxPriorityAssumption DEF NoTask, Task, Priority

\* The members of a sequence without its head.
LEMMA TailMembers ==
  ASSUME NEW s, Distinct(s), s # <<>>
  PROVE  /\ Head(s) \in Task /\ In(Head(s), s)
         /\ Distinct(Tail(s))
         /\ \A t : In(t, Tail(s)) <=> In(t, s) /\ t # Head(s)
<1>1. /\ s \in Seq(Task) /\ Len(s) \in Nat \ {0}
      /\ \A i, j \in 1 .. Len(s) : s[i] = s[j] => i = j
  BY EmptySeq DEF Distinct
<1>2. /\ Head(s) \in Task /\ Tail(s) \in Seq(Task) /\ Len(Tail(s)) = Len(s) - 1
      /\ \A i \in 1 .. Len(s) - 1 : Tail(s)[i] = s[i + 1]
  BY <1>1, HeadTailProperties
<1>3. Head(s) = s[1] /\ 1 \in 1 .. Len(s)
  BY <1>1
<1> DEFINE u == Tail(s)
           h == Head(s)
<1> HIDE DEF u, h
<1>4. /\ u \in Seq(Task) /\ Len(u) = Len(s) - 1 /\ h = s[1]
      /\ \A i \in 1 .. Len(s) - 1 : u[i] = s[i + 1]
  BY <1>2, <1>3 DEF u, h
<1>5. Distinct(u)
  <2> SUFFICES ASSUME NEW i \in 1 .. Len(u), NEW j \in 1 .. Len(u), u[i] = u[j] PROVE i = j
    BY <1>4 DEF Distinct
  <2>1. i + 1 \in 1 .. Len(s) /\ j + 1 \in 1 .. Len(s) /\ s[i + 1] = s[j + 1]
    BY <1>1, <1>4
  <2> QED
    BY <1>1, <2>1
<1>6. ASSUME NEW t PROVE In(t, u) <=> In(t, s) /\ t # h
  <2>1. ASSUME In(t, u) PROVE In(t, s) /\ t # h
    <3>1. PICK i \in 1 .. Len(u) : u[i] = t
      BY <2>1 DEF In
    <3>2. i + 1 \in 1 .. Len(s) /\ s[i + 1] = t /\ i + 1 # 1
      BY <1>1, <1>4, <3>1
    <3> QED
      BY <1>1, <1>3, <1>4, <3>2 DEF In
  <2>2. ASSUME In(t, s), t # h PROVE In(t, u)
    <3>1. PICK i \in 1 .. Len(s) : s[i] = t
      BY <2>2 DEF In
    <3>2. i - 1 \in 1 .. Len(u) /\ u[i - 1] = t
      BY <1>1, <1>4, <2>2, <3>1
    <3> QED
      BY <3>2 DEF In
  <2> QED
    BY <2>1, <2>2
<1>7. In(h, s)
  BY <1>3, <1>4 DEF In
<1> QED
  BY <1>2, <1>5, <1>6, <1>7 DEF u, h

\* The members of a sequence with a task at its end.
LEMMA AppendMembers ==
  ASSUME NEW s, Distinct(s), NEW t \in Task, ~In(t, s)
  PROVE  /\ Distinct(Append(s, t))
         /\ \A x : In(x, Append(s, t)) <=> In(x, s) \/ x = t
<1> DEFINE u == Append(s, t)
<1>1. /\ s \in Seq(Task) /\ Len(s) \in Nat
      /\ \A i, j \in 1 .. Len(s) : s[i] = s[j] => i = j
      /\ \A i \in 1 .. Len(s) : s[i] # t
  BY DEF Distinct, In
<1>2. /\ u \in Seq(Task) /\ Len(u) = Len(s) + 1
      /\ \A i \in 1 .. Len(s) : u[i] = s[i]
      /\ u[Len(s) + 1] = t
  BY <1>1, AppendProperties
<1> HIDE DEF u
<1>3. Distinct(u)
  BY <1>1, <1>2 DEF Distinct
<1>4. ASSUME NEW x PROVE In(x, u) <=> In(x, s) \/ x = t
  <2>1. ASSUME In(x, u) PROVE In(x, s) \/ x = t
    <3>1. PICK i \in 1 .. Len(u) : u[i] = x
      BY <2>1 DEF In
    <3>2. CASE i \in 1 .. Len(s)
      BY <1>2, <3>1, <3>2 DEF In
    <3>3. CASE i = Len(s) + 1
      BY <1>2, <3>1, <3>3
    <3> QED
      BY <1>1, <1>2, <3>2, <3>3
  <2>2. ASSUME In(x, s) PROVE In(x, u)
    <3>1. PICK i \in 1 .. Len(s) : s[i] = x
      BY <2>2 DEF In
    <3>2. i \in 1 .. Len(u) /\ u[i] = x
      BY <1>1, <1>2, <3>1
    <3> QED
      BY <3>2 DEF In
  <2>3. In(t, u)
    <3>1. Len(s) + 1 \in 1 .. Len(u)
      BY <1>1, <1>2
    <3> QED
      BY <1>2, <3>1 DEF In
  <2> QED
    BY <2>1, <2>2, <2>3
<1> QED
  BY <1>3, <1>4 DEF u

\* The head of a non-empty run queue.
LEMMA HeadRunnable ==
  ASSUME NEW rq, NEW cur, NEW st, NEW pr, NEW dy, Queues(rq, cur, st, pr, dy),
         NEW p \in Priority, rq[p] # <<>>
  PROVE  /\ Head(rq[p]) \in Task /\ st[Head(rq[p])] = RUNNING /\ pr[Head(rq[p])] = p
         /\ Head(rq[p]) # cur /\ Head(rq[p]) # dy
<1>1. Head(rq[p]) \in Task /\ In(Head(rq[p]), rq[p])
  BY TailMembers DEF Queues
<1> QED
  BY <1>1 DEF Queues

\* The run queues after the head of queue p was popped.
Popped(rq, p) == [rq EXCEPT ![p] = Tail(@)]

\* The old task leaves the scheduler and the head of queue p gets the CPU: what blocking does
\* (st2 says that the old task is not RUNNING) and what killing does (dy2 is the old task).
LEMMA SwitchAndLeave ==
  ASSUME NEW rq, NEW cur, NEW st, NEW pr, NEW p \in Priority, NEW st2, NEW dy2,
         Values(cur, st, pr, NoTask), Queues(rq, cur, st, pr, NoTask),
         rq[p] # <<>>,
         \A t \in Task : st2[t] = RUNNING /\ t # dy2 <=> st[t] = RUNNING /\ t # cur
  PROVE  Queues(Popped(rq, p), Head(rq[p]), st2, pr, dy2)
<1> DEFINE new == Head(rq[p])
           q == Popped(rq, p)
<1>1. new \in Task /\ st[new] = RUNNING /\ pr[new] = p /\ new # cur
  BY HeadRunnable
<1>2. rq \in [Priority -> Seq(Task)] /\ \A r \in Priority : Distinct(rq[r])
  BY DEF Queues
<1>3. /\ Distinct(Tail(rq[p]))
      /\ \A t : In(t, Tail(rq[p])) <=> In(t, rq[p]) /\ t # new
  BY <1>2, TailMembers
<1> HIDE DEF new
<1>4. \A r \in Priority : q[r] = IF r = p THEN Tail(rq[p]) ELSE rq[r]
  BY <1>2 DEF Popped
<1>5. q \in [Priority -> Seq(Task)]
  BY <1>2, <1>3 DEF Popped, Distinct
<1> HIDE DEF q
<1>6. ASSUME NEW r \in Priority PROVE Distinct(q[r])
  BY <1>2, <1>3, <1>4
<1>7. ASSUME NEW r \in Priority, NEW t \in Task
      PROVE  In(t, q[r]) <=> st2[t] = RUNNING /\ pr[t] = r /\ t # new /\ t # dy2
  <2>1. In(t, rq[r]) <=> st[t] = RUNNING /\ pr[t] = r /\ t # cur /\ t # NoTask
    BY DEF Queues
  <2>2. t # NoTask
    BY NoTaskIsNone
  <2>3. In(t, q[r]) <=> In(t, rq[r]) /\ t # new
    BY <1>1, <1>3, <1>4, <2>1
  <2> QED
    BY <2>1, <2>2, <2>3
<1>8. st2[new] = RUNNING /\ new # dy2
  BY <1>1
<1> QED
  BY <1>5, <1>6, <1>7, <1>8 DEF Queues, q, new

\* The old task joins the end of its queue and the head of queue p gets the CPU.
LEMMA SwitchAndRequeue ==
  ASSUME NEW rq, NEW cur \in Task, NEW st, NEW pr, NEW dy, NEW p \in Priority,
         Values(cur, st, pr, dy), Queues(rq, cur, st, pr, dy), rq[p] # <<>>
  PROVE  Queues([Popped(rq, p) EXCEPT ![pr[cur]] = Append(@, cur)], Head(rq[p]), st, pr, dy)
<1> DEFINE new == Head(rq[p])
           q == Popped(rq, p)
           o == pr[cur]
           qq == [q EXCEPT ![o] = Append(@, cur)]
<1>0. o \in Priority /\ st[cur] = RUNNING /\ cur # dy
  BY DEF Values, Queues
<1>1. new \in Task /\ st[new] = RUNNING /\ pr[new] = p /\ new # cur /\ new # dy
  BY HeadRunnable
<1>2. rq \in [Priority -> Seq(Task)] /\ \A r \in Priority : Distinct(rq[r])
  BY DEF Queues
<1>3. /\ Distinct(Tail(rq[p]))
      /\ \A t : In(t, Tail(rq[p])) <=> In(t, rq[p]) /\ t # new
  BY <1>2, TailMembers
<1>4. \A r \in Priority : q[r] = IF r = p THEN Tail(rq[p]) ELSE rq[r]
  BY <1>2 DEF Popped
<1>5. q \in [Priority -> Seq(Task)]
  BY <1>2, <1>3 DEF Popped, Distinct
<1> HIDE DEF q, new, o
<1>6. \A r \in Priority, t \in Task :
        In(t, rq[r]) <=> st[t] = RUNNING /\ pr[t] = r /\ t # cur /\ t # dy
  BY DEF Queues
<1>7. ASSUME NEW r \in Priority
      PROVE  Distinct(q[r]) /\ \A t \in Task : In(t, q[r]) <=> In(t, rq[r]) /\ t # new
  BY <1>1, <1>2, <1>3, <1>4, <1>6
<1>8. ~In(cur, q[o])
  BY <1>0, <1>6, <1>7
<1>9. /\ Distinct(Append(q[o], cur))
      /\ \A t : In(t, Append(q[o], cur)) <=> In(t, q[o]) \/ t = cur
  BY <1>0, <1>7, <1>8, AppendMembers
<1>10. \A r \in Priority : qq[r] = IF r = o THEN Append(q[o], cur) ELSE q[r]
  BY <1>5
<1>11. qq \in [Priority -> Seq(Task)]
  BY <1>0, <1>5, <1>9 DEF Distinct
<1> HIDE DEF qq
<1>12. ASSUME NEW r \in Priority PROVE Distinct(qq[r])
  BY <1>7, <1>9, <1>10
<1>13. ASSUME NEW r \in Priority, NEW t \in Task
       PROVE  In(t, qq[r]) <=> st[t] = RUNNING /\ pr[t] = r /\ t # new /\ t # dy
  <2>1. In(t, q[r]) <=> st[t] = RUNNING /\ pr[t] = r /\ t # cur /\ t # dy /\ t # new
    BY <1>6, <1>7
  <2>2. CASE r = o
    BY <1>0, <1>1, <1>9, <1>10, <2>1, <2>2 DEF o
  <2>3. CASE r # o
    BY <1>10, <2>1, <2>3 DEF o
  <2> QED
    BY <2>2, <2>3
<1> QED
  BY <1>1, <1>11, <1>12, <1>13 DEF Queues, qq, q, o, new

\* wake_task: a task that was not RUNNING joins the end of its queue and is RUNNING.
LEMMA WakeQueues ==
  ASSUME NEW rq, NEW cur, NEW st, NEW pr, NEW dy, NEW t \in Task,
         Values(cur, st, pr, dy), Queues(rq, cur, st, pr, dy),
         st[t] # RUNNING, t # dy
  PROVE  Queues([rq EXCEPT ![pr[t]] = Append(@, t)], cur, [st EXCEPT ![t] = RUNNING], pr, dy)
<1> DEFINE o == pr[t]
           q == [rq EXCEPT ![o] = Append(@, t)]
           st2 == [st EXCEPT ![t] = RUNNING]
<1>0. o \in Priority
  BY DEF Values
<1>1. rq \in [Priority -> Seq(Task)] /\ \A r \in Priority : Distinct(rq[r])
  BY DEF Queues
<1>2. \A x \in Task : st2[x] = IF x = t THEN RUNNING ELSE st[x]
  BY DEF Values
<1> HIDE DEF o, st2
<1>3. \A r \in Priority, x \in Task :
        In(x, rq[r]) <=> st[x] = RUNNING /\ pr[x] = r /\ x # cur /\ x # dy
  BY DEF Queues
<1>4. /\ Distinct(Append(rq[o], t))
      /\ \A x : In(x, Append(rq[o], t)) <=> In(x, rq[o]) \/ x = t
  BY <1>0, <1>1, <1>3, AppendMembers
<1>5. \A r \in Priority : q[r] = IF r = o THEN Append(rq[o], t) ELSE rq[r]
  BY <1>1
<1>6. q \in [Priority -> Seq(Task)]
  BY <1>0, <1>1, <1>4 DEF Distinct
<1> HIDE DEF q
<1>7. ASSUME NEW r \in Priority PROVE Distinct(q[r])
  BY <1>1, <1>4, <1>5
<1>8. cur \in Task => st[cur] = RUNNING /\ cur # dy
  BY DEF Queues
<1>9. t # cur
  BY <1>8
<1>10. ASSUME NEW r \in Priority, NEW x \in Task
       PROVE  In(x, q[r]) <=> st2[x] = RUNNING /\ pr[x] = r /\ x # cur /\ x # dy
  <2>1. CASE r = o
    BY <1>2, <1>3, <1>4, <1>5, <1>9, <2>1 DEF o
  <2>2. CASE r # o
    BY <1>2, <1>3, <1>5, <2>2 DEF o
  <2> QED
    BY <2>1, <2>2
<1> QED
  BY <1>2, <1>6, <1>7, <1>8, <1>10 DEF Queues, q, o, st2

\* The end of kill_task: the dying task is TERMINATED.
LEMMA TerminateQueues ==
  ASSUME NEW rq, NEW cur, NEW st, NEW pr, NEW dy \in Task, NEW st2,
         Values(cur, st, pr, dy), Queues(rq, cur, st, pr, dy),
         \A t \in Task : st2[t] = IF t = dy THEN TERMINATED ELSE st[t]
  PROVE  Queues(rq, cur, st2, pr, NoTask)
<1>1. TERMINATED # RUNNING
  BY DEF TERMINATED, RUNNING
<1>2. \A t \in Task : t # NoTask
  BY NoTaskIsNone
<1> QED
  BY <1>1, <1>2 DEF Queues

\* The priority of the current task is not that of a queued one.
LEMMA PriorityQueues ==
  ASSUME NEW rq, NEW cur \in Task, NEW st, NEW pr, NEW dy, NEW p \in Priority,
         Values(cur, st, pr, dy), Queues(rq, cur, st, pr, dy)
  PROVE  Queues(rq, cur, st, [pr EXCEPT ![cur] = p], dy)
<1>1. \A t \in Task : t # cur => [pr EXCEPT ![cur] = p][t] = pr[t]
  BY DEF Values
<1> QED
  BY <1>1 DEF Queues

\* Highest picks the greatest of the priorities it is given.
LEMMA HighestIsHighest ==
  ASSUME NEW P, P \subseteq Priority, P # {}
  PROVE  Highest(P) \in P /\ \A q \in P : q <= Highest(P)
<1>1. \E p \in P : \A q \in P : q <= p
  BY MaxPriorityAssumption, GreatestNatural DEF Priority
<1> QED
  BY <1>1 DEF Highest

\* The four properties Scheduler states of its run queues, with the values as parameters.
FourProperties(rq, cur, st, pr, dy) ==
  /\ \A p \in Priority : \A i \in 1 .. Len(rq[p]) :
       st[rq[p][i]] = RUNNING /\ pr[rq[p][i]] = p /\ rq[p][i] # cur /\ rq[p][i] # dy
  /\ \A p \in Priority : \A i, j \in 1 .. Len(rq[p]) : rq[p][i] = rq[p][j] => i = j
  /\ cur # NoTask => st[cur] = RUNNING /\ cur # dy
  /\ \A t \in Task : st[t] = RUNNING =>
       t = cur \/ t = dy \/ \E i \in 1 .. Len(rq[pr[t]]) : rq[pr[t]][i] = t

\* Together they say what Queues says.
LEMMA QueuesMeaning ==
  ASSUME NEW rq \in [Priority -> Seq(Task)], NEW cur, NEW st, NEW pr, NEW dy,
         Values(cur, st, pr, dy)
  PROVE  FourProperties(rq, cur, st, pr, dy) <=> Queues(rq, cur, st, pr, dy)
<1>1. cur \in Task \cup {NoTask} /\ pr \in [Task -> Priority] /\ NoTask \notin Task
  BY NoTaskIsNone DEF Values
<1>2. \A p \in Priority : \A i \in 1 .. Len(rq[p]) : rq[p][i] \in Task
  BY ElementOfSeq
<1>3. (\A p \in Priority : \A i, j \in 1 .. Len(rq[p]) : rq[p][i] = rq[p][j] => i = j)
      <=> \A p \in Priority : Distinct(rq[p])
  BY DEF Distinct
<1>4. (cur # NoTask => st[cur] = RUNNING /\ cur # dy)
      <=> (cur \in Task => st[cur] = RUNNING /\ cur # dy)
  BY <1>1
<1>5. (\A p \in Priority : \A i \in 1 .. Len(rq[p]) :
         st[rq[p][i]] = RUNNING /\ pr[rq[p][i]] = p /\ rq[p][i] # cur /\ rq[p][i] # dy)
      <=> \A p \in Priority, t \in Task :
            In(t, rq[p]) => st[t] = RUNNING /\ pr[t] = p /\ t # cur /\ t # dy
  BY <1>2 DEF In
<1>6. (\A t \in Task : st[t] = RUNNING =>
         t = cur \/ t = dy \/ \E i \in 1 .. Len(rq[pr[t]]) : rq[pr[t]][i] = t)
      <=> \A p \in Priority, t \in Task :
            st[t] = RUNNING /\ pr[t] = p /\ t # cur /\ t # dy => In(t, rq[p])
  BY <1>1 DEF In
<1> QED
  BY <1>1, <1>3, <1>4, <1>5, <1>6 DEF Queues, FourProperties

\* A new time slice, and the tick charged to the running task, keep m_elapsed_ticks in its range.
LEMMA NewSlice ==
  ASSUME NEW e \in [Task -> 0 .. TIME_SLICE], NEW t
  PROVE  [e EXCEPT ![t] = 0] \in [Task -> 0 .. TIME_SLICE]
<1>1. 0 \in 0 .. TIME_SLICE
  BY TimeSliceAssumption
<1> HIDE DEF Task
<1> QED
  BY <1>1

\* The tick charged to the running task keeps m_elapsed_ticks in its range.
LEMMA ChargeType ==
  ASSUME SchedTypeOK, NEW t \in Task
  PROVE  charge(t) \in [Task -> 0 .. TIME_SLICE]
<1>1. /\ m_elapsed_ticks \in [Task -> 0 .. TIME_SLICE]
      /\ (IF m_elapsed_ticks[t] < TIME_SLICE THEN m_elapsed_ticks[t] + 1 ELSE m_elapsed_ticks[t])
           \in 0 .. TIME_SLICE
  BY TimeSliceAssumption DEF SchedTypeOK
<1> QED
  BY <1>1, NoTaskIsNone DEF charge
-----------------------------------------------------------------------------
(***************************************************************************)
(* The delta queue.                                                        *)
(***************************************************************************)

\* The delays of a queue, as a sequence of natural numbers.
IsQueue(items, S) == items \in Seq([task : S, remaining_ticks : Nat])

\* f holds the partial sums of the delays of the first n items.
IsSum(f, items, n) ==
  /\ f \in [0 .. n -> Nat]
  /\ f[0] = 0
  /\ \A i \in 1 .. n : f[i] = f[i - 1] + items[i].remaining_ticks

\* The delays of a queue are natural numbers.
LEMMA QueueDelays ==
  ASSUME NEW S, NEW items, IsQueue(items, S)
  PROVE  /\ Len(items) \in Nat
         /\ \A i \in 1 .. Len(items) : items[i].task \in S /\ items[i].remaining_ticks \in Nat
<1>1. items \in Seq([task : S, remaining_ticks : Nat])
  BY DEF IsQueue
<1>2. Len(items) \in Nat
  BY <1>1
<1>3. \A i \in 1 .. Len(items) : items[i] \in [task : S, remaining_ticks : Nat]
  BY <1>1, ElementOfSeq
<1> QED
  BY <1>2, <1>3

\* The partial sums exist for every prefix of a queue.
LEMMA SumExists ==
  ASSUME NEW S, NEW items, IsQueue(items, S)
  PROVE  \A n \in 0 .. Len(items) : \E f : IsSum(f, items, n)
<1> DEFINE T == {n \in 0 .. Len(items) : ~ \E f : IsSum(f, items, n)}
<1>0. Len(items) \in Nat /\ \A i \in 1 .. Len(items) : items[i].remaining_ticks \in Nat
  BY QueueDelays
<1>1. SUFFICES ASSUME T # {} PROVE FALSE
  OBVIOUS
<1>2. PICK n \in T : \A m \in T : n <= m
  <2>1. T \subseteq Nat
    BY <1>0
  <2> QED
    BY <1>1, <2>1, LeastNatural
<1>3. n # 0
  <2>1. IsSum([i \in 0 .. 0 |-> 0], items, 0)
    BY DEF IsSum
  <2> QED
    BY <2>1, <1>2
<1>4. n - 1 \in 0 .. Len(items) /\ n - 1 \notin T
  <2>1. n \in 0 .. Len(items)
    OBVIOUS
  <2>2. n - 1 \in 0 .. Len(items) /\ ~ (n <= n - 1)
    BY <1>0, <1>3, <2>1
  <2> QED
    BY <1>2, <2>2
<1>5. PICK f : IsSum(f, items, n - 1)
  BY <1>4
<1> DEFINE g == [i \in 0 .. n |-> IF i = n THEN f[n - 1] + items[n].remaining_ticks ELSE f[i]]
<1>6. IsSum(g, items, n)
  BY <1>0, <1>2, <1>3, <1>5 DEF IsSum
<1> QED
  BY <1>2, <1>6

\* elapsed_time: the loop variable of DeltaQueue::add_task is the sum of the delays walked over.
LEMMA ElapsedTime ==
  ASSUME NEW S, NEW items, IsQueue(items, S)
  PROVE  IsSum(elapsed_time(items), items, Len(items))
<1> DEFINE Def(f) == [i \in 0 .. Len(items) |->
                        IF i = 0 THEN 0 ELSE f[i - 1] + items[i].remaining_ticks]
<1>0. Len(items) \in Nat /\ \A i \in 1 .. Len(items) : items[i].remaining_ticks \in Nat
  BY QueueDelays
<1>1. PICK f : IsSum(f, items, Len(items))
  BY <1>0, SumExists
<1>2. f = Def(f)
  BY <1>0, <1>1 DEF IsSum
<1>3. elapsed_time(items) = CHOOSE g : g = Def(g)
  BY DEF elapsed_time
<1>4. elapsed_time(items) = Def(elapsed_time(items))
  BY <1>2, <1>3
<1> DEFINE e == elapsed_time(items)
           T == {i \in 0 .. Len(items) : e[i] # f[i]}
<1>5. \A i \in 0 .. Len(items) : e[i] = IF i = 0 THEN 0 ELSE e[i - 1] + items[i].remaining_ticks
  BY <1>4
<1>6. \A i \in 0 .. Len(items) : f[i] = IF i = 0 THEN 0 ELSE f[i - 1] + items[i].remaining_ticks
  BY <1>0, <1>1 DEF IsSum
<1> HIDE DEF e
<1>7. T = {}
  <2>1. SUFFICES ASSUME T # {} PROVE FALSE
    OBVIOUS
  <2>2. PICK n \in T : \A m \in T : n <= m
    <3>1. T \subseteq Nat
      BY <1>0
    <3> QED
      BY <2>1, <3>1, LeastNatural
  <2>3. n \in 0 .. Len(items) /\ e[n] # f[n]
    OBVIOUS
  <2>4. n # 0
    BY <1>5, <1>6, <2>3
  <2>5. n - 1 \in 0 .. Len(items) /\ ~ (n <= n - 1)
    BY <1>0, <2>3, <2>4
  <2>6. e[n - 1] = f[n - 1]
    BY <2>2, <2>5
  <2> QED
    BY <1>5, <1>6, <2>3, <2>4, <2>6
<1>8. e \in [0 .. Len(items) -> Nat]
  <2>1. \A i \in 0 .. Len(items) : e[i] \in Nat
    BY <1>1, <1>7 DEF IsSum
  <2>2. e = [i \in 0 .. Len(items) |-> e[i]]
    BY <1>4 DEF e
  <2> QED
    BY <2>1, <2>2
<1> QED
  BY <1>0, <1>5, <1>8 DEF IsSum, e

\* new is items with an item for t in front of item k, the delay n taken from item k.
InsertedAt(new, items, k, t, n) ==
  /\ Len(new) = Len(items) + 1
  /\ \A i \in 1 .. Len(items) + 1 :
       new[i] = IF i < k THEN items[i]
                  ELSE IF i = k THEN Item(t, n)
                  ELSE IF i = k + 1 THEN [items[k] EXCEPT !.remaining_ticks = @ - n]
                  ELSE items[i - 1]

\* InsertAt, item by item.
LEMMA InsertAtProperties ==
  ASSUME NEW S, NEW s \in Seq(S), NEW k \in 1 .. Len(s), NEW e \in S
  PROVE  /\ InsertAt(s, k, e) \in Seq(S)
         /\ Len(InsertAt(s, k, e)) = Len(s) + 1
         /\ \A i \in 1 .. Len(s) + 1 :
              InsertAt(s, k, e)[i] = IF i < k THEN s[i] ELSE IF i = k THEN e ELSE s[i - 1]
<1> DEFINE a == SubSeq(s, 1, k - 1)
           b == SubSeq(s, k, Len(s))
           ae == a \o <<e>>
<1>0. Len(s) \in Nat /\ k \in Nat /\ \A i \in 1 .. Len(s) : s[i] \in S
  BY ElementOfSeq
<1>1. a \in Seq(S) /\ Len(a) = k - 1 /\ \A i \in 1 .. k - 1 : a[i] = s[i]
  BY <1>0, SubSeqProperties
<1>2. b \in Seq(S) /\ Len(b) = Len(s) - k + 1 /\ \A i \in 1 .. Len(s) - k + 1 : b[i] = s[k + i - 1]
  BY <1>0, SubSeqProperties
<1>3. <<e>> \in Seq(S) /\ Len(<<e>>) = 1 /\ <<e>>[1] = e
  OBVIOUS
<1> HIDE DEF a, b
<1>4. ae \in Seq(S) /\ Len(ae) = k /\ \A i \in 1 .. k : ae[i] = IF i < k THEN s[i] ELSE e
  BY <1>0, <1>1, <1>3, ConcatProperties
<1> HIDE DEF ae
<1>5. /\ ae \o b \in Seq(S)
      /\ Len(ae \o b) = Len(ae) + Len(b)
      /\ \A i \in 1 .. Len(ae) + Len(b) : (ae \o b)[i] = IF i <= Len(ae) THEN ae[i] ELSE b[i - Len(ae)]
  BY <1>2, <1>4, ConcatProperties
<1>6. \A i \in 1 .. Len(s) + 1 :
        (ae \o b)[i] = IF i < k THEN s[i] ELSE IF i = k THEN e ELSE s[i - 1]
  <2> SUFFICES ASSUME NEW i \in 1 .. Len(s) + 1
               PROVE (ae \o b)[i] = IF i < k THEN s[i] ELSE IF i = k THEN e ELSE s[i - 1]
    OBVIOUS
  <2>1. CASE i <= k
    BY <1>0, <1>2, <1>4, <1>5, <2>1
  <2>2. CASE i > k
    <3>1. i - k \in 1 .. Len(s) - k + 1 /\ k + (i - k) - 1 = i - 1
      BY <1>0, <2>2
    <3>2. (ae \o b)[i] = b[i - k]
      BY <1>0, <1>2, <1>4, <1>5, <2>2
    <3> QED
      BY <1>0, <1>2, <2>2, <3>1, <3>2
  <2>3. i <= k \/ i > k
    BY <1>0
  <2> QED
    BY <2>1, <2>2, <2>3
<1>7. InsertAt(s, k, e) = ae \o b
  BY DEF InsertAt, ae, a, b
<1> QED
  BY <1>0, <1>2, <1>4, <1>5, <1>6, <1>7

\* DeltaQueue::add_task keeps the queue well formed: the new item gets a delay that is not
\* negative, the item behind it keeps a positive one, and every other item is as before.
LEMMA InsertProperties ==
  ASSUME NEW S, NEW items, IsQueue(items, S), NEW t \in S, NEW ticks \in Nat
  PROVE  /\ IsQueue(insert(items, t, ticks), S)
         /\ \E k \in 1 .. Len(items) + 1 :
              /\ elapsed_time(items)[k - 1] <= ticks
              /\ k <= Len(items) => ticks < elapsed_time(items)[k]
              /\ InsertedAt(insert(items, t, ticks), items, k, t, ticks - elapsed_time(items)[k - 1])
<1> DEFINE I == [task : S, remaining_ticks : Nat]
           e == elapsed_time(items)
           L == later(items, ticks)
<1>0. /\ items \in Seq(I) /\ Len(items) \in Nat
      /\ \A i \in 1 .. Len(items) : items[i] \in I
      /\ \A i \in 1 .. Len(items) : items[i].remaining_ticks \in Nat
  <2>1. items \in Seq(I)
    BY DEF IsQueue
  <2> HIDE DEF I
  <2>2. \A i \in 1 .. Len(items) : items[i] \in I
    BY <2>1, ElementOfSeq
  <2> QED
    BY <2>1, <2>2, QueueDelays
<1>1. /\ \A i \in 0 .. Len(items) : e[i] \in Nat
      /\ e[0] = 0
      /\ \A i \in 1 .. Len(items) : e[i] = e[i - 1] + items[i].remaining_ticks
  BY <1>0, ElapsedTime DEF IsSum
<1>2. L = {i \in 1 .. Len(items) : e[i] > ticks}
  BY DEF later
<1> HIDE DEF e, L
<1>3. CASE L = {}
  <2> DEFINE n == ticks - e[Len(items)]
             new == Append(items, Item(t, n))
  <2>1. insert(items, t, ticks) = new
    BY <1>3 DEF insert, L, e
  <2>2. e[Len(items)] <= ticks /\ n \in Nat
    BY <1>0, <1>1, <1>2, <1>3
  <2>3. Item(t, n) \in I
    BY <2>2 DEF Item
  <2>4. /\ new \in Seq(I) /\ Len(new) = Len(items) + 1
        /\ \A i \in 1 .. Len(items) : new[i] = items[i]
        /\ new[Len(items) + 1] = Item(t, n)
    <3> HIDE DEF I, n
    <3> QED
      BY <1>0, <2>3, AppendProperties
  <2>5. InsertedAt(new, items, Len(items) + 1, t, n)
    <3> HIDE DEF I, n, new
    <3> QED
      BY <1>0, <2>4 DEF InsertedAt
  <2> QED
    BY <1>0, <2>1, <2>2, <2>4, <2>5 DEF IsQueue, e
<1>4. CASE L # {}
  <2>0. L \subseteq Nat
    BY <1>0, <1>2
  <2>1. PICK k \in L : \A j \in L : k <= j
    BY <1>4, <2>0, LeastNatural
  <2>2. k = CHOOSE m \in L : \A j \in L : m <= j
    <3>1. \A m \in L : (\A j \in L : m <= j) => m = k
      BY <1>0, <1>2, <2>1
    <3> QED
      BY <2>1, <3>1
  <2> DEFINE n == ticks - e[k - 1]
             behind == [items[k] EXCEPT !.remaining_ticks = @ - n]
             charged == [items EXCEPT ![k].remaining_ticks = @ - n]
             new == InsertAt(charged, k, Item(t, n))
  <2>3. insert(items, t, ticks) = new
    BY <1>4, <2>2 DEF insert, L, e
  <2>4. k \in 1 .. Len(items) /\ e[k] > ticks /\ e[k - 1] <= ticks
    <3>1. k \in 1 .. Len(items) /\ e[k] > ticks
      BY <1>2
    <3>2. CASE k = 1
      BY <1>1, <3>1, <3>2
    <3>3. CASE k # 1
      <4>1. k - 1 \in 1 .. Len(items) /\ ~ (k <= k - 1) /\ e[k - 1] \in Nat
        BY <1>0, <1>1, <3>1, <3>3
      <4> QED
        BY <1>2, <2>1, <3>1, <4>1
    <3> QED
      BY <3>1, <3>2, <3>3
  <2>5. n \in Nat /\ items[k].remaining_ticks - n \in Nat
    <3>1. /\ e[k] \in Nat /\ e[k - 1] \in Nat /\ items[k].remaining_ticks \in Nat
          /\ e[k] = e[k - 1] + items[k].remaining_ticks
      BY <1>0, <1>1, <2>4
    <3> QED
      BY <2>4, <3>1
  <2>6. Item(t, n) \in I /\ behind \in I
    BY <1>0, <2>4, <2>5 DEF Item
  <2>7. /\ charged \in Seq(I) /\ Len(charged) = Len(items)
        /\ \A i \in 1 .. Len(items) : charged[i] = IF i = k THEN behind ELSE items[i]
    <3>1. charged = [items EXCEPT ![k] = behind]
      BY <1>0, <2>4
    <3> HIDE DEF I, n, behind, charged
    <3> QED
      BY <1>0, <2>4, <2>6, <3>1, ExceptSeq
  <2>8. /\ new \in Seq(I) /\ Len(new) = Len(items) + 1
        /\ \A i \in 1 .. Len(items) + 1 :
             new[i] = IF i < k THEN charged[i] ELSE IF i = k THEN Item(t, n) ELSE charged[i - 1]
    <3>1. k \in 1 .. Len(charged)
      BY <2>4, <2>7
    <3> DEFINE x == Item(t, n)
    <3> HIDE DEF I, n, charged, behind, x
    <3>2. x \in I /\ charged \in Seq(I)
      BY <2>6, <2>7 DEF x
    <3>3. /\ InsertAt(charged, k, x) \in Seq(I)
          /\ Len(InsertAt(charged, k, x)) = Len(charged) + 1
          /\ \A i \in 1 .. Len(charged) + 1 :
               InsertAt(charged, k, x)[i] =
                 IF i < k THEN charged[i] ELSE IF i = k THEN x ELSE charged[i - 1]
      BY <3>1, <3>2, InsertAtProperties
    <3>4. /\ new \in Seq(I) /\ Len(new) = Len(charged) + 1
          /\ \A i \in 1 .. Len(charged) + 1 :
               new[i] = IF i < k THEN charged[i] ELSE IF i = k THEN Item(t, n) ELSE charged[i - 1]
      BY <3>3 DEF x
    <3> QED
      BY <2>7, <3>4
  <2>9. InsertedAt(new, items, k, t, n)
    <3> HIDE DEF I, n, charged, new
    <3>1. ASSUME NEW i \in 1 .. Len(items) + 1
          PROVE  new[i] = IF i < k THEN items[i]
                            ELSE IF i = k THEN Item(t, n)
                            ELSE IF i = k + 1 THEN behind
                            ELSE items[i - 1]
      <4> HIDE DEF behind
      <4>1. CASE i < k
        <5>1. i \in 1 .. Len(items) /\ i # k
          BY <1>0, <2>4, <4>1
        <5>2. new[i] = charged[i]
          BY <2>8, <4>1
        <5> QED
          BY <2>7, <4>1, <5>1, <5>2
      <4>2. CASE i = k
        BY <1>0, <2>4, <2>7, <2>8, <4>2
      <4>3. CASE i > k
        <5>1. i - 1 \in 1 .. Len(items) /\ (i - 1 = k <=> i = k + 1) /\ (i # k + 1 => i > k + 1)
          BY <1>0, <2>4, <4>3
        <5>2. new[i] = charged[i - 1]
          BY <1>0, <2>4, <2>8, <4>3
        <5> QED
          BY <1>0, <2>4, <2>7, <4>3, <5>1, <5>2
      <4> QED
        BY <1>0, <2>4, <4>1, <4>2, <4>3
    <3> QED
      BY <2>8, <3>1 DEF InsertedAt
  <2>10. IsQueue(new, S)
    BY <2>8 DEF IsQueue
  <2>11. k \in 1 .. Len(items) + 1
    BY <1>0, <2>4
  <2> HIDE DEF new
  <2> QED
    BY <2>3, <2>4, <2>9, <2>10, <2>11 DEF e
<1> QED
  BY <1>3, <1>4

\* The tasks of a queue, and that each has one item.
TasksOf(items) == {items[i].task : i \in 1 .. Len(items)}
OnceEach(items) == \A i, j \in 1 .. Len(items) : items[i].task = items[j].task => i = j

\* The first item is due.
Due(items) == items # <<>> /\ items[1].remaining_ticks = 0

\* DeltaQueue::add_task adds one sleeper and makes nobody due.
LEMMA InsertSleepers ==
  ASSUME NEW S, NEW items, IsQueue(items, S), NEW t \in S, NEW ticks \in Nat \ {0},
         OnceEach(items), t \notin TasksOf(items), ~Due(items)
  PROVE  LET new == insert(items, t, ticks)
         IN TasksOf(new) = TasksOf(items) \cup {t} /\ OnceEach(new) /\ ~Due(new)
<1> DEFINE new == insert(items, t, ticks)
           e == elapsed_time(items)
<1>0. /\ Len(items) \in Nat
      /\ \A i \in 1 .. Len(items) : items[i].remaining_ticks \in Nat
      /\ \A i \in 0 .. Len(items) : e[i] \in Nat
      /\ e[0] = 0
      /\ \A i \in 1 .. Len(items) : e[i] = e[i - 1] + items[i].remaining_ticks
  BY QueueDelays, ElapsedTime DEF IsSum
<1>1. PICK k \in 1 .. Len(items) + 1 :
        /\ e[k - 1] <= ticks
        /\ k <= Len(items) => ticks < e[k]
        /\ InsertedAt(new, items, k, t, ticks - e[k - 1])
  BY InsertProperties
<1> DEFINE n == ticks - e[k - 1]
<1> HIDE DEF new, e, n
<1>2. /\ Len(new) = Len(items) + 1
      /\ \A i \in 1 .. Len(items) + 1 :
           new[i] = IF i < k THEN items[i]
                      ELSE IF i = k THEN Item(t, n)
                      ELSE IF i = k + 1 THEN [items[k] EXCEPT !.remaining_ticks = @ - n]
                      ELSE items[i - 1]
  BY <1>1 DEF InsertedAt, n
<1>3. ASSUME NEW i \in 1 .. Len(items) + 1
      PROVE  new[i].task = IF i < k THEN items[i].task ELSE IF i = k THEN t ELSE items[i - 1].task
  <2>0. \A j \in 1 .. Len(items) : items[j] \in [task : S, remaining_ticks : Nat]
    BY ElementOfSeq DEF IsQueue
  <2>1. CASE i < k
    BY <1>0, <1>1, <1>2, <2>1
  <2>2. CASE i = k
    BY <1>0, <1>1, <1>2, <2>2 DEF Item
  <2>3. CASE i = k + 1
    <3>1. k \in 1 .. Len(items) /\ i - 1 = k /\ ~(i < k) /\ i # k
      BY <1>0, <1>1, <2>3
    <3>2. new[i] = [items[k] EXCEPT !.remaining_ticks = @ - n]
      BY <1>2, <2>3, <3>1
    <3>3. [items[k] EXCEPT !.remaining_ticks = @ - n].task = items[k].task
      BY <2>0, <3>1
    <3> QED
      BY <3>1, <3>2, <3>3
  <2>4. CASE i > k + 1
    BY <1>0, <1>1, <1>2, <2>4
  <2> QED
    BY <1>0, <1>1, <2>1, <2>2, <2>3, <2>4
<1>4. TasksOf(new) = TasksOf(items) \cup {t}
  <2>1. ASSUME NEW x \in TasksOf(new) PROVE x \in TasksOf(items) \cup {t}
    <3>1. PICK i \in 1 .. Len(items) + 1 : x = new[i].task
      BY <1>2, <2>1 DEF TasksOf
    <3>2. i < k => i \in 1 .. Len(items)
      BY <1>0, <1>1
    <3>3. i > k => i - 1 \in 1 .. Len(items)
      BY <1>0, <1>1
    <3>4. i < k \/ i = k \/ i > k
      BY <1>0, <1>1
    <3>5. CASE i < k
      BY <1>3, <3>1, <3>2, <3>5 DEF TasksOf
    <3>6. CASE i = k
      BY <1>1, <1>3, <3>1, <3>6
    <3>7. CASE i > k
      <4>1. ~(i < k) /\ i # k
        BY <1>0, <1>1, <3>7
      <4>2. x = items[i - 1].task
        BY <1>3, <3>1, <4>1
      <4> QED
        BY <3>3, <3>7, <4>2 DEF TasksOf
    <3> QED
      BY <3>4, <3>5, <3>6, <3>7
  <2>2. ASSUME NEW x \in TasksOf(items) PROVE x \in TasksOf(new)
    <3>1. PICK i \in 1 .. Len(items) : x = items[i].task
      BY <2>2 DEF TasksOf
    <3>2. CASE i < k
      <4>1. i \in 1 .. Len(new) /\ x = new[i].task
        BY <1>0, <1>1, <1>2, <1>3, <3>1, <3>2
      <4> QED
        BY <4>1 DEF TasksOf
    <3>3. CASE i >= k
      <4>1. /\ i + 1 \in 1 .. Len(items) + 1 /\ ~(i + 1 < k) /\ i + 1 # k /\ (i + 1) - 1 = i
        BY <1>0, <1>1, <3>3
      <4>2. i + 1 \in 1 .. Len(new) /\ x = new[i + 1].task
        BY <1>2, <1>3, <3>1, <4>1
      <4> QED
        BY <4>2 DEF TasksOf
    <3> QED
      BY <1>0, <1>1, <3>2, <3>3
  <2>3. t \in TasksOf(new)
    <3>1. k \in 1 .. Len(new) /\ t = new[k].task
      BY <1>0, <1>1, <1>2, <1>3
    <3> QED
      BY <3>1 DEF TasksOf
  <2> QED
    BY <2>1, <2>2, <2>3
<1>5. OnceEach(new)
  <2>1. \A i \in 1 .. Len(items) : items[i].task # t
    BY DEF TasksOf
  <2> SUFFICES ASSUME NEW i \in 1 .. Len(items) + 1, NEW j \in 1 .. Len(items) + 1,
                      new[i].task = new[j].task
               PROVE  i = j
    BY <1>2 DEF OnceEach
  <2> DEFINE back(m) == IF m < k THEN m ELSE m - 1
  <2>2. /\ i # k => back(i) \in 1 .. Len(items) /\ new[i].task = items[back(i)].task
        /\ j # k => back(j) \in 1 .. Len(items) /\ new[j].task = items[back(j)].task
    BY <1>0, <1>1, <1>3
  <2>3. (i = k => new[i].task = t) /\ (j = k => new[j].task = t)
    BY <1>0, <1>1, <1>3
  <2>4. i = k <=> j = k
    BY <2>1, <2>2, <2>3
  <2>5. CASE i # k /\ j # k
    <3>1. back(i) = back(j)
      <4> HIDE DEF back
      <4> QED
        BY <2>2, <2>5 DEF OnceEach
    <3> QED
      BY <1>0, <1>1, <2>5, <3>1
  <2> QED
    BY <2>4, <2>5
<1>6. ~Due(new)
  <2>1. CASE k = 1
    <3>1. new[1] = Item(t, n) /\ n = ticks
      BY <1>0, <1>1, <1>2, <2>1 DEF n
    <3> QED
      BY <3>1 DEF Due, Item
  <2>2. CASE k # 1
    <3>1. 1 \in 1 .. Len(items) /\ 1 < k
      BY <1>0, <1>1, <2>2
    <3>2. new[1] = items[1]
      <4>1. 1 \in 1 .. Len(items) + 1
        BY <1>0
      <4> QED
        BY <1>2, <3>1, <4>1
    <3>3. items # <<>>
      BY <3>1
    <3> QED
      BY <3>2, <3>3 DEF Due
  <2> QED
    BY <2>1, <2>2
<1> QED
  BY <1>4, <1>5, <1>6 DEF new

\* The first statements of DeltaQueue::tick(): the delay of the first item, which is not due, is
\* counted down.
LEMMA CountDown ==
  ASSUME NEW S, NEW items, IsQueue(items, S), items # <<>>, ~Due(items)
  PROVE  LET new == [items EXCEPT ![1].remaining_ticks = @ - 1]
         IN /\ IsQueue(new, S) /\ TasksOf(new) = TasksOf(items)
            /\ OnceEach(items) => OnceEach(new)
<1> DEFINE I == [task : S, remaining_ticks : Nat]
           first == [items[1] EXCEPT !.remaining_ticks = @ - 1]
           new == [items EXCEPT ![1].remaining_ticks = @ - 1]
<1>1. /\ items \in Seq(I) /\ Len(items) \in Nat \ {0} /\ 1 \in 1 .. Len(items)
      /\ \A i \in 1 .. Len(items) : items[i] \in I
  <2>1. items \in Seq(I)
    BY DEF IsQueue
  <2> HIDE DEF I
  <2>2. Len(items) \in Nat \ {0}
    BY <2>1, EmptySeq
  <2> QED
    BY <2>1, <2>2, ElementOfSeq
<1>2. first \in I /\ first.task = items[1].task
  <2>1. items[1].remaining_ticks \in Nat /\ items[1].remaining_ticks # 0
    BY <1>1 DEF Due
  <2>2. items[1].remaining_ticks - 1 \in Nat
    BY <2>1
  <2> QED
    BY <1>1, <2>2
<1>3. new = [items EXCEPT ![1] = first]
  BY <1>1
<1> HIDE DEF I, first, new
<1>4. /\ new \in Seq(I) /\ Len(new) = Len(items)
      /\ \A i \in 1 .. Len(items) : new[i] = IF i = 1 THEN first ELSE items[i]
  BY <1>1, <1>2, <1>3, ExceptSeq
<1>5. \A i \in 1 .. Len(items) : new[i].task = items[i].task
  BY <1>2, <1>4
<1>6. TasksOf(new) = TasksOf(items) /\ (OnceEach(items) => OnceEach(new))
  BY <1>4, <1>5 DEF TasksOf, OnceEach
<1> QED
  BY <1>4, <1>6 DEF IsQueue, I, new

\* pop_front(): the first sleeper leaves the queue.
LEMMA PopFront ==
  ASSUME NEW S, NEW items, IsQueue(items, S), items # <<>>, OnceEach(items)
  PROVE  /\ IsQueue(Tail(items), S) /\ OnceEach(Tail(items))
         /\ items[1].task \in TasksOf(items)
         /\ TasksOf(Tail(items)) = TasksOf(items) \ {items[1].task}
<1> DEFINE I == [task : S, remaining_ticks : Nat]
           new == Tail(items)
<1>1. items \in Seq(I)
  BY DEF IsQueue
<1> HIDE DEF I
<1>2. /\ Len(items) \in Nat \ {0} /\ new \in Seq(I) /\ Len(new) = Len(items) - 1
      /\ \A i \in 1 .. Len(items) - 1 : new[i] = items[i + 1]
  BY <1>1, EmptySeq, HeadTailProperties
<1> HIDE DEF new
<1>3. 1 \in 1 .. Len(items)
  BY <1>2
<1>4. OnceEach(new)
  <2> SUFFICES ASSUME NEW i \in 1 .. Len(new), NEW j \in 1 .. Len(new), new[i].task = new[j].task
               PROVE  i = j
    BY DEF OnceEach
  <2>1. i + 1 \in 1 .. Len(items) /\ j + 1 \in 1 .. Len(items) /\ items[i + 1].task = items[j + 1].task
    BY <1>2
  <2>2. i + 1 = j + 1
    BY <2>1 DEF OnceEach
  <2> QED
    BY <1>2, <2>2
<1>5. ASSUME NEW x \in TasksOf(new) PROVE x \in TasksOf(items) /\ x # items[1].task
  <2>1. PICK i \in 1 .. Len(new) : x = new[i].task
    BY <1>5 DEF TasksOf
  <2>2. i + 1 \in 1 .. Len(items) /\ x = items[i + 1].task /\ i + 1 # 1
    BY <1>2, <2>1
  <2> QED
    BY <1>3, <2>2 DEF TasksOf, OnceEach
<1>6. ASSUME NEW x \in TasksOf(items), x # items[1].task PROVE x \in TasksOf(new)
  <2>1. PICK i \in 1 .. Len(items) : x = items[i].task
    BY <1>6 DEF TasksOf
  <2>2. i - 1 \in 1 .. Len(new) /\ x = new[i - 1].task
    BY <1>2, <1>6, <2>1
  <2> QED
    BY <2>2 DEF TasksOf
<1>7. items[1].task \in TasksOf(items)
  BY <1>3 DEF TasksOf
<1> QED
  BY <1>2, <1>4, <1>5, <1>6, <1>7 DEF IsQueue, I, new
=============================================================================
