------------------------- MODULE TaskManagerProofs -------------------------
(***************************************************************************)
(* The process core for any number of tasks, priorities, windows and       *)
(* messages, and whatever free_resources() makes of its freed list nodes:  *)
(* IInv is an inductive invariant, the safety properties of TaskManager    *)
(* follow from it, and the handlers implement the life cycle of tasks.     *)
(***************************************************************************)
EXTENDS TaskManager, QueueProofs

\* The scheduler's part of the invariant, in the form QueueProofs works with.
SchedOK ==
  /\ SchedTypeOK /\ dying \in Task \cup {NoTask}
  /\ Queues(m_run_queue, m_current_task, m_state, m_priority, dying)

\* The rest of the type invariant.
OtherTypes ==
  /\ IsQueue(m_items, Task)
  /\ m_pending_count \in [Window -> 0 .. MAX_PENDING_MESSAGES]
  /\ m_wait_list \in [Window -> Seq(Task)]
  /\ owner \in [Window -> Task \cup {NoTask}]
  /\ m_next_available_pid \in 0 .. MaxTasks
  /\ m_parent \in [Task -> Task \cup {NoTask}]
  /\ resubmit \in [Task -> Window \cup {NoWindow}]
  /\ phase \in Phase
  /\ waking \in Window \cup {NoWindow}
  /\ cpu \in Task

\* The parts the invariant is proved in.
Parts ==
  /\ SchedOK /\ OtherTypes /\ InitAlive /\ FreshTasks
  /\ HandlerState /\ WaitersBlocked /\ SleepersAsleep /\ CpuState

\* IInv is the conjunction of the parts.
LEMMA PartsOfIInv == IInv <=> Parts
<1>1. ASSUME SchedTypeOK, dying \in Task \cup {NoTask}
      PROVE  QueueInv <=> Queues(m_run_queue, m_current_task, m_state, m_priority, dying)
  <2>1. /\ m_run_queue \in [Priority -> Seq(Task)]
        /\ Values(m_current_task, m_state, m_priority, dying)
    BY <1>1 DEF SchedTypeOK, Values
  <2>2. QueueInv <=> FourProperties(m_run_queue, m_current_task, m_state, m_priority, dying)
    BY DEF QueueInv, FourProperties, QueuedTasksRunnable, QueuedOnce, CurrentRunnable, NoTaskLost
  <2> QED
    BY <2>1, <2>2, QueuesMeaning
<1>2. TypeOK /\ panic = "none" <=>
        SchedTypeOK /\ dying \in Task \cup {NoTask} /\ OtherTypes /\ panic = "none"
  BY DEF TypeOK, OtherTypes, IsQueue
<1>3. CpuState => panic = "none"
  BY DEF CpuState
<1> QED
  BY <1>1, <1>2, <1>3 DEF IInv, Parts, SchedOK
-----------------------------------------------------------------------------
(***************************************************************************)
(* The scheduler's operations, as the handlers use them.                   *)
(***************************************************************************)

\* switch_to never meets a queued task that is not RUNNING.
LEMMA SwitchAssertHolds == SchedOK => switch_to_assert
  BY HeadRunnable DEF SchedOK, switch_to_assert, NonEmpty, is_running

\* While another task runs, init waits in a queue.
LEMMA InitQueued ==
  ASSUME SchedOK, InitAlive, m_current_task # InitTask
  PROVE  NonEmpty(Priority) # {}
<1>1. InitTask \in Task
  BY NoTaskIsNone DEF InitTask
<1>2. m_priority[InitTask] \in Priority
  BY <1>1 DEF SchedOK, SchedTypeOK
<1>3. In(InitTask, m_run_queue[m_priority[InitTask]])
  BY <1>1, <1>2 DEF SchedOK, Queues, InitAlive
<1>4. m_run_queue[m_priority[InitTask]] # <<>>
  BY <1>3 DEF In
<1> QED
  BY <1>2, <1>4 DEF NonEmpty

\* The current task leaves the scheduler (it blocks, or is killed): another one gets the CPU.
LEMMA LeaveCpu ==
  ASSUME SchedOK, InitAlive, dying = NoTask, MayBlock,
         remove_task(m_current_task), m_priority' = m_priority,
         m_state' \in [Task -> State], dying' \in Task \cup {NoTask},
         \A t \in Task :
           m_state'[t] = RUNNING /\ t # dying' <=> m_state[t] = RUNNING /\ t # m_current_task
  PROVE  /\ SchedOK'
         /\ m_current_task' \in Task /\ m_current_task' # m_current_task
         /\ m_state[m_current_task'] = RUNNING
<1> DEFINE p == Highest(NonEmpty(Priority))
<1>1. NonEmpty(Priority) # {} /\ NonEmpty(Priority) \subseteq Priority
  BY InitQueued DEF MayBlock, NonEmpty
<1>2. p \in Priority /\ m_run_queue[p] # <<>>
  BY <1>1, HighestIsHighest DEF NonEmpty
<1>3. switch_to(p, NoTask, m_elapsed_ticks)
  BY <1>1 DEF remove_task, schedule
<1> HIDE DEF p
<1>4. /\ m_current_task' = Head(m_run_queue[p])
      /\ m_run_queue' = Popped(m_run_queue, p)
      /\ m_elapsed_ticks' = [m_elapsed_ticks EXCEPT ![Head(m_run_queue[p])] = 0]
  BY <1>3 DEF switch_to, Popped
<1>5. /\ m_current_task' \in Task /\ m_current_task' # m_current_task
      /\ m_state[m_current_task'] = RUNNING
  BY <1>2, <1>4, HeadRunnable DEF SchedOK
<1>6. Queues(m_run_queue', m_current_task', m_state', m_priority', dying')
  <2>1. Values(m_current_task, m_state, m_priority, NoTask)
    BY DEF SchedOK, SchedTypeOK, Values
  <2>2. Queues(m_run_queue, m_current_task, m_state, m_priority, NoTask)
    BY DEF SchedOK
  <2>3. Queues(Popped(m_run_queue, p), Head(m_run_queue[p]), m_state', m_priority, dying')
    BY <1>2, <2>1, <2>2, SwitchAndLeave
  <2> QED
    BY <1>4, <2>3
<1>7. SchedTypeOK'
  <2>1. m_run_queue' \in [Priority -> Seq(Task)]
    BY <1>6 DEF Queues
  <2>2. m_elapsed_ticks' \in [Task -> 0 .. TIME_SLICE]
    BY <1>4, NewSlice DEF SchedOK, SchedTypeOK
  <2> QED
    BY <1>5, <2>1, <2>2 DEF SchedOK, SchedTypeOK
<1> QED
  BY <1>5, <1>6, <1>7 DEF SchedOK

\* The states and the dying task may change in the same step, if the queues stay right for them.
StateStep ==
  /\ m_priority' = m_priority
  /\ m_state' \in [Task -> State] /\ dying' \in Task \cup {NoTask}
  /\ Queues(m_run_queue, m_current_task, m_state', m_priority, dying')

\* A step that changes no state, no priority and not the dying task leaves the queues right.
LEMMA UnchangedStep == SchedOK /\ UNCHANGED <<m_state, m_priority, dying>> => StateStep
  BY DEF SchedOK, SchedTypeOK, StateStep

\* The current task joins its queue again and the head of queue p gets the CPU.
LEMMA SwitchTo ==
  ASSUME SchedOK, m_current_task \in Task, StateStep,
         NEW p \in Priority, m_run_queue[p] # <<>>,
         NEW elapsed \in [Task -> 0 .. TIME_SLICE],
         switch_to(p, m_current_task, elapsed)
  PROVE  SchedOK' /\ m_current_task' \in Task /\ m_current_task' = Head(m_run_queue[p])
<1>1. /\ m_current_task' = Head(m_run_queue[p])
      /\ m_run_queue' =
           [Popped(m_run_queue, p) EXCEPT ![m_priority[m_current_task]] = Append(@, m_current_task)]
      /\ m_elapsed_ticks' = [elapsed EXCEPT ![Head(m_run_queue[p])] = 0]
  BY NoTaskIsNone DEF switch_to, Popped
<1>2. m_current_task' \in Task
  BY <1>1, HeadRunnable DEF SchedOK
<1>3. Queues(m_run_queue', m_current_task', m_state', m_priority', dying')
  <2>1. Values(m_current_task, m_state', m_priority, dying')
    BY DEF SchedOK, SchedTypeOK, Values, StateStep
  <2>2. Queues([Popped(m_run_queue, p) EXCEPT ![m_priority[m_current_task]] =
                  Append(@, m_current_task)],
               Head(m_run_queue[p]), m_state', m_priority, dying')
    BY <2>1, SwitchAndRequeue DEF StateStep
  <2> QED
    BY <1>1, <2>2 DEF StateStep
<1>4. SchedTypeOK'
  <2>1. m_run_queue' \in [Priority -> Seq(Task)]
    BY <1>3 DEF Queues
  <2>2. m_elapsed_ticks' \in [Task -> 0 .. TIME_SLICE]
    BY <1>1, NewSlice
  <2> QED
    BY <1>2, <2>1, <2>2 DEF SchedOK, SchedTypeOK, StateStep
<1> QED
  BY <1>1, <1>2, <1>3, <1>4 DEF SchedOK, StateStep

\* schedule(), when a task is current: it keeps the CPU only when no other one is queued.
LEMMA ScheduleCurrent ==
  ASSUME SchedOK, m_current_task \in Task, StateStep, schedule(m_current_task)
  PROVE  SchedOK' /\ m_current_task' \in Task /\ m_state[m_current_task'] = RUNNING
<1> DEFINE p == Highest(NonEmpty(Priority))
<1>1. m_elapsed_ticks \in [Task -> 0 .. TIME_SLICE] /\ m_state[m_current_task] = RUNNING
  BY DEF SchedOK, SchedTypeOK, Queues
<1>2. CASE NonEmpty(Priority) # {}
  <2>1. p \in Priority /\ m_run_queue[p] # <<>>
    BY <1>2, HighestIsHighest DEF NonEmpty
  <2>2. switch_to(p, m_current_task, m_elapsed_ticks)
    BY <1>2 DEF schedule
  <2> HIDE DEF p
  <2>3. SchedOK' /\ m_current_task' \in Task /\ m_current_task' = Head(m_run_queue[p])
    BY <1>1, <2>1, <2>2, SwitchTo
  <2>4. m_state[Head(m_run_queue[p])] = RUNNING
    BY <2>1, HeadRunnable DEF SchedOK
  <2> QED
    BY <2>3, <2>4
<1>3. CASE NonEmpty(Priority) = {}
  BY <1>1, <1>3 DEF schedule, no_switch, SchedOK, SchedTypeOK, StateStep
<1> QED
  BY <1>2, <1>3

\* Scheduler::tick().
LEMMA TickCurrent ==
  ASSUME SchedOK, m_current_task \in Task, UNCHANGED <<m_state, m_priority, dying>>, tick
  PROVE  SchedOK' /\ m_current_task' \in Task /\ m_state[m_current_task'] = RUNNING
<1> DEFINE e == charge(m_current_task)
           higher == NonEmpty(higher_priorities)
           peers == NonEmpty(round_robin_priorities)
<1>1. e \in [Task -> 0 .. TIME_SLICE] /\ m_state[m_current_task] = RUNNING
  BY ChargeType DEF SchedOK, Queues
<1>2. get_current_priority \in Priority
  BY NoTaskIsNone DEF get_current_priority, SchedOK, SchedTypeOK
<1>3. higher \subseteq Priority /\ peers \subseteq Priority
  BY <1>2 DEF NonEmpty, higher_priorities, round_robin_priorities
<1>4. \/ higher # {} /\ switch_to(Highest(higher), m_current_task, e)
      \/ peers # {} /\ switch_to(Highest(peers), m_current_task, e)
      \/ no_switch(m_current_task, e)
  BY DEF tick
<1>5. \A P : P \subseteq Priority /\ NonEmpty(P) # {} =>
               Highest(NonEmpty(P)) \in Priority /\ m_run_queue[Highest(NonEmpty(P))] # <<>>
  BY HighestIsHighest DEF NonEmpty
<1>6. ASSUME NEW p \in Priority, m_run_queue[p] # <<>>, switch_to(p, m_current_task, e)
      PROVE  SchedOK' /\ m_current_task' \in Task /\ m_state[m_current_task'] = RUNNING
  <2> HIDE DEF e
  <2>1. SchedOK' /\ m_current_task' \in Task /\ m_current_task' = Head(m_run_queue[p])
    BY <1>1, <1>6, UnchangedStep, SwitchTo
  <2>2. m_state[Head(m_run_queue[p])] = RUNNING
    BY <1>6, HeadRunnable DEF SchedOK
  <2> QED
    BY <2>1, <2>2
<1>7. CASE higher # {} /\ switch_to(Highest(higher), m_current_task, e)
  <2>1. Highest(higher) \in Priority /\ m_run_queue[Highest(higher)] # <<>>
    BY <1>5, <1>7 DEF higher_priorities
  <2> QED
    BY <1>6, <1>7, <2>1
<1>8. CASE peers # {} /\ switch_to(Highest(peers), m_current_task, e)
  <2>1. Highest(peers) \in Priority /\ m_run_queue[Highest(peers)] # <<>>
    BY <1>2, <1>5, <1>8 DEF round_robin_priorities
  <2> QED
    BY <1>6, <1>8, <2>1
<1>9. CASE no_switch(m_current_task, e)
  BY <1>1, <1>9 DEF no_switch, SchedOK, SchedTypeOK
<1> QED
  BY <1>4, <1>7, <1>8, <1>9

\* wake_task().
LEMMA WakeTask ==
  ASSUME SchedOK, NEW t \in Task, wake_task(t), dying' = dying,
         dying # NoTask => m_state[dying] = RUNNING
  PROVE  /\ SchedOK' /\ m_current_task' = m_current_task
         /\ m_state' = [m_state EXCEPT ![t] = RUNNING]
<1>0. /\ m_state \in [Task -> State] /\ m_priority \in [Task -> Priority]
      /\ m_elapsed_ticks \in [Task -> 0 .. TIME_SLICE]
      /\ m_current_task \in Task \cup {NoTask}
  BY DEF SchedOK, SchedTypeOK
<1>1. CASE m_state[t] = RUNNING
  <2>1. UNCHANGED schedVars
    BY <1>1 DEF wake_task, is_running
  <2>2. SchedOK'
    BY <2>1 DEF SchedOK, SchedTypeOK, schedVars
  <2>3. m_state = [m_state EXCEPT ![t] = RUNNING]
    BY <1>0, <1>1
  <2> QED
    BY <2>1, <2>2, <2>3 DEF schedVars
<1>2. CASE m_state[t] # RUNNING
  <2>1. /\ m_elapsed_ticks' = [m_elapsed_ticks EXCEPT ![t] = 0]
        /\ m_run_queue' = [m_run_queue EXCEPT ![m_priority[t]] = Append(@, t)]
        /\ m_current_task' = m_current_task
        /\ m_state' = [m_state EXCEPT ![t] = RUNNING]
        /\ m_priority' = m_priority
    BY <1>2 DEF wake_task, is_running, add_task
  <2>2. Values(m_current_task, m_state, m_priority, dying) /\ t # dying
    BY <1>0, <1>2, NoTaskIsNone DEF Values, SchedOK
  <2>3. Queues(m_run_queue', m_current_task', m_state', m_priority', dying')
    BY <1>2, <2>1, <2>2, WakeQueues DEF SchedOK
  <2>4. m_elapsed_ticks' \in [Task -> 0 .. TIME_SLICE]
    BY <1>0, <2>1, NewSlice
  <2>5. m_state' \in [Task -> State] /\ m_run_queue' \in [Priority -> Seq(Task)]
    BY <1>0, <2>1, <2>3 DEF State, Queues
  <2> QED
    BY <1>0, <2>1, <2>3, <2>4, <2>5 DEF SchedOK, SchedTypeOK
<1> QED
  BY <1>1, <1>2
-----------------------------------------------------------------------------
(***************************************************************************)
(* What the handlers have in common.                                       *)
(***************************************************************************)

\* In user mode no handler is under way and the current task is on the CPU.
LEMMA UserModeFacts ==
  ASSUME Parts, UserMode
  PROVE  /\ m_current_task \in Task /\ m_state[m_current_task] = RUNNING
         /\ dying = NoTask /\ waking = NoWindow /\ cpu = m_current_task
         /\ phase = "user" /\ ~delta_due
<1>1. m_current_task \in Task
  BY DEF Parts, SchedOK, SchedTypeOK, InitAlive
<1>2. m_state[m_current_task] = RUNNING
  BY <1>1 DEF Parts, SchedOK, Queues
<1>3. phase = "user"
  BY DEF UserMode
<1>4. dying = NoTask
  BY <1>3 DEF Parts, HandlerState
<1>5. waking = NoWindow /\ ~delta_due /\ cpu = m_current_task
  BY <1>3 DEF Parts, HandlerState, CpuState
<1> QED
  BY <1>1, <1>2, <1>3, <1>4, <1>5

\* A handler whose assertions hold and that leaves a task current returns to that task.
LEMMA Returns ==
  ASSUME NEW a, a = TRUE, m_current_task' \in Task, return_from_exception(a)
  PROVE  phase' = "user" /\ cpu' = m_current_task' /\ panic' = "none"
  BY NoTaskIsNone DEF return_from_exception

\* Tasks that are not RUNNING are left alone.
KeepBlocked == \A t \in Task : m_state[t] # RUNNING => m_state'[t] = m_state[t]

\* Tasks on a wait list stay blocked when only RUNNING tasks change their state.
LEMMA WaitFrame ==
  ASSUME Parts, m_wait_list' = m_wait_list, KeepBlocked
  PROVE  WaitersBlocked'
<1>1. \A w \in Window : \A i \in 1 .. Len(m_wait_list[w]) : m_wait_list[w][i] \in Task
  BY ElementOfSeq DEF Parts, OtherTypes
<1>2. UNINTERRUPTIBLE # RUNNING
  BY DEF UNINTERRUPTIBLE, RUNNING
<1> QED
  BY <1>1, <1>2 DEF Parts, WaitersBlocked, KeepBlocked

\* The sleepers are tasks.
LEMMA SleepersAreTasks ==
  ASSUME OtherTypes
  PROVE  /\ Len(m_items) \in Nat
         /\ \A i \in 1 .. Len(m_items) : m_items[i].task \in Task /\ m_items[i].remaining_ticks \in Nat
         /\ sleepers \subseteq Task
<1>1. IsQueue(m_items, Task)
  BY DEF OtherTypes
<1>2. /\ Len(m_items) \in Nat
      /\ \A i \in 1 .. Len(m_items) : m_items[i].task \in Task /\ m_items[i].remaining_ticks \in Nat
  BY <1>1, QueueDelays
<1> QED
  BY <1>2 DEF sleepers

\* Sleepers stay asleep, and the same ones are due, when only RUNNING tasks change their state.
LEMMA SleepFrame ==
  ASSUME Parts, m_items' = m_items, KeepBlocked
  PROVE  SleepersAsleep' /\ sleepers' = sleepers /\ (delta_due' <=> delta_due)
<1>1. sleepers \subseteq Task
  BY SleepersAreTasks DEF Parts
<1>2. sleepers' = sleepers /\ (delta_due' <=> delta_due) /\ (SleepsOnce' <=> SleepsOnce)
  BY DEF sleepers, delta_due, SleepsOnce
<1>3. INTERRUPTIBLE # RUNNING
  BY DEF INTERRUPTIBLE, RUNNING
<1>4. \A t \in sleepers : m_state'[t] = INTERRUPTIBLE
  BY <1>1, <1>3 DEF Parts, SleepersAsleep, KeepBlocked
<1> QED
  BY <1>2, <1>4 DEF Parts, SleepersAsleep

\* Tasks that are not created yet stay untouched when only RUNNING tasks change their state.
LEMMA FreshFrame ==
  ASSUME Parts, sleepers' = sleepers, KeepBlocked, m_next_available_pid' = m_next_available_pid
  PROVE  FreshTasks'
<1>1. INTERRUPTIBLE # RUNNING
  BY DEF INTERRUPTIBLE, RUNNING
<1> QED
  BY <1>1 DEF Parts, FreshTasks, KeepBlocked

\* A handler that changes neither sleepers, wait lists nor tasks, and returns.
LEMMA QuietReturn ==
  ASSUME Parts, SchedOK', OtherTypes', KeepBlocked,
         UNCHANGED <<m_items, m_wait_list, m_next_available_pid, waking>>,
         m_state'[InitTask] = RUNNING, m_current_task' \in Task,
         ~delta_due, waking = NoWindow,
         dying' = NoTask, phase' = "user", cpu' = m_current_task', panic' = "none"
  PROVE  Parts'
<1>1. WaitersBlocked'
  BY WaitFrame
<1>2. SleepersAsleep' /\ sleepers' = sleepers /\ ~delta_due'
  BY SleepFrame
<1>3. FreshTasks'
  BY <1>2, FreshFrame
<1>4. InitAlive'
  BY NoTaskIsNone DEF InitAlive, InitTask
<1>5. HandlerState'
  BY <1>2 DEF HandlerState
<1>6. CpuState'
  BY DEF CpuState
<1> QED
  BY <1>1, <1>2, <1>3, <1>4, <1>5, <1>6 DEF Parts
-----------------------------------------------------------------------------
(***************************************************************************)
(* One lemma per action.                                                   *)
(***************************************************************************)

\* SYS_YIELD keeps the invariant.
LEMMA SysYieldStep == ASSUME Parts, SysYield PROVE Parts'
<1>1. UserMode /\ schedule(m_current_task) /\ return_from_exception(switch_to_assert)
  BY DEF SysYield, InSyscall
<1>2. UNCHANGED <<m_state, m_priority, m_items, windowVars, taskVars, resubmit, dying, waking>>
  BY DEF SysYield
<1>3. SchedOK' /\ m_current_task' \in Task
  BY <1>1, <1>2, UserModeFacts, UnchangedStep, ScheduleCurrent DEF Parts
<1>4. switch_to_assert
  BY SwitchAssertHolds DEF Parts
<1>5. phase' = "user" /\ cpu' = m_current_task' /\ panic' = "none"
  BY <1>1, <1>3, <1>4, Returns
<1>6. OtherTypes'
  BY <1>2, <1>3, <1>5 DEF Parts, OtherTypes, windowVars, taskVars, Phase
<1>7. KeepBlocked /\ m_state'[InitTask] = RUNNING
  BY <1>2 DEF KeepBlocked, Parts, InitAlive
<1> QED
  BY <1>1, <1>2, <1>3, <1>5, <1>6, <1>7, UserModeFacts, QuietReturn DEF windowVars, taskVars

\* The delta queue as QueueProofs sees it.
LEMMA DeltaMeaning ==
  /\ sleepers = TasksOf(m_items) /\ (SleepsOnce <=> OnceEach(m_items)) /\ (delta_due <=> Due(m_items))
  /\ sleepers' = TasksOf(m_items') /\ (SleepsOnce' <=> OnceEach(m_items'))
  /\ delta_due' <=> Due(m_items')
  BY DEF sleepers, TasksOf, SleepsOnce, OnceEach, delta_due, Due

\* SYS_SLEEP keeps the invariant: the current task leaves the run queues and joins the delta queue.
LEMMA SysSleepStep == ASSUME Parts, NEW ticks \in 1 .. MaxSleepTicks, SysSleep(ticks) PROVE Parts'
<1> DEFINE t == m_current_task
<1>1. UserMode /\ MayBlock
  BY DEF SysSleep, InSyscall
<1>2. /\ remove_task(t) /\ m_state' = [m_state EXCEPT ![t] = INTERRUPTIBLE]
      /\ m_priority' = m_priority
      /\ m_items' = insert(m_items, t, ticks)
      /\ return_from_exception(is_running(t) /\ switch_to_assert)
      /\ UNCHANGED <<windowVars, taskVars, resubmit, dying, waking>>
  BY DEF SysSleep, block, delta_add_task
<1>3. /\ t \in Task /\ m_state[t] = RUNNING /\ dying = NoTask /\ waking = NoWindow
      /\ ~delta_due /\ t # InitTask
  BY <1>1, UserModeFacts DEF MayBlock
<1>4. m_state \in [Task -> State] /\ INTERRUPTIBLE # RUNNING /\ INTERRUPTIBLE \in State
  BY DEF Parts, SchedOK, SchedTypeOK, INTERRUPTIBLE, RUNNING, State
<1>5. \A x \in Task : m_state'[x] = IF x = t THEN INTERRUPTIBLE ELSE m_state[x]
  BY <1>2, <1>3, <1>4
<1>6. SchedOK' /\ m_current_task' \in Task
  <2>1. m_state' \in [Task -> State]
    BY <1>2, <1>4
  <2>2. \A x \in Task :
          m_state'[x] = RUNNING /\ x # dying' <=> m_state[x] = RUNNING /\ x # m_current_task
    BY <1>2, <1>3, <1>4, <1>5, NoTaskIsNone
  <2>3. dying' \in Task \cup {NoTask}
    BY <1>2, <1>3
  <2> QED
    BY <1>1, <1>2, <1>3, <2>1, <2>2, <2>3, LeaveCpu DEF Parts
<1>7. phase' = "user" /\ cpu' = m_current_task' /\ panic' = "none"
  <2>1. is_running(t) /\ switch_to_assert
    BY <1>3, SwitchAssertHolds DEF is_running, Parts
  <2> QED
    BY <1>2, <1>6, <2>1, Returns
<1>8. /\ IsQueue(m_items', Task)
      /\ sleepers' = sleepers \cup {t} /\ SleepsOnce' /\ ~delta_due'
  <2>1. ticks \in Nat \ {0} /\ IsQueue(m_items, Task)
    BY MaxSleepTicksAssumption DEF Parts, OtherTypes
  <2>2. OnceEach(m_items) /\ t \notin TasksOf(m_items) /\ ~Due(m_items)
    BY <1>3, <1>4, DeltaMeaning DEF Parts, SleepersAsleep
  <2>3. IsQueue(m_items', Task)
    BY <1>2, <1>3, <2>1, InsertProperties
  <2>4. TasksOf(m_items') = TasksOf(m_items) \cup {t} /\ OnceEach(m_items') /\ ~Due(m_items')
    BY <1>2, <1>3, <2>1, <2>2, InsertSleepers
  <2> QED
    BY <2>3, <2>4, DeltaMeaning
<1>9. OtherTypes'
  BY <1>2, <1>6, <1>7, <1>8 DEF Parts, OtherTypes, windowVars, taskVars, Phase
<1>10. KeepBlocked
  BY <1>3, <1>5 DEF KeepBlocked
<1>11. WaitersBlocked'
  BY <1>2, <1>10, WaitFrame DEF windowVars
<1>12. SleepersAsleep'
  <2>1. \A x \in sleepers' : m_state'[x] = INTERRUPTIBLE
    BY <1>3, <1>5, <1>8, SleepersAreTasks DEF Parts, SleepersAsleep
  <2> QED
    BY <1>8, <2>1 DEF SleepersAsleep
<1>13. FreshTasks'
  <2>1. t < m_next_available_pid
    BY <1>3, <1>4 DEF Parts, FreshTasks, OtherTypes, Task
  <2>2. m_next_available_pid' = m_next_available_pid
    BY <1>2 DEF taskVars
  <2>3. m_next_available_pid > 0
    BY DEF Parts, FreshTasks
  <2>4. ASSUME NEW x \in Task, x >= m_next_available_pid
        PROVE  m_state'[x] = INTERRUPTIBLE /\ x \notin sleepers'
    <3>1. x # t
      BY <1>3, <2>1, <2>4 DEF Parts, OtherTypes, Task
    <3> QED
      BY <1>5, <1>8, <2>4, <3>1 DEF Parts, FreshTasks
  <2> QED
    BY <2>2, <2>3, <2>4 DEF FreshTasks
<1>14. InitAlive'
  BY <1>2, <1>3, <1>5, <1>6, NoTaskIsNone DEF InitAlive, InitTask, Parts
<1>15. HandlerState'
  BY <1>2, <1>3, <1>7, <1>8 DEF HandlerState
<1>16. CpuState'
  BY <1>7 DEF CpuState
<1> QED
  BY <1>6, <1>9, <1>11, <1>12, <1>13, <1>14, <1>15, <1>16 DEF Parts

\* SYS_SCHED_SET_PRIORITY keeps the invariant.
LEMMA SysSetPriorityStep == ASSUME Parts, NEW p \in Priority, SysSetPriority(p) PROVE Parts'
<1> DEFINE t == m_current_task
<1>1. UserMode
  BY DEF SysSetPriority, InSyscall
<1>2. /\ m_priority' = [m_priority EXCEPT ![t] = p]
      /\ m_run_queue' = m_run_queue /\ m_current_task' = m_current_task
      /\ return_from_exception(~is_terminated(t))
      /\ UNCHANGED <<m_state, m_elapsed_ticks, m_items, windowVars, taskVars, resubmit, dying, waking>>
  BY DEF SysSetPriority, update_task_priority
<1>3. t \in Task /\ m_state[t] = RUNNING /\ dying = NoTask /\ waking = NoWindow /\ ~delta_due
  BY <1>1, UserModeFacts
<1>4. SchedOK'
  <2>1. Values(m_current_task, m_state, m_priority, dying)
    BY DEF Parts, SchedOK, SchedTypeOK, Values
  <2>2. Queues(m_run_queue, m_current_task, m_state, m_priority', dying)
    BY <1>2, <1>3, <2>1, PriorityQueues DEF Parts, SchedOK
  <2>3. m_priority' \in [Task -> Priority]
    BY <1>2, <1>3 DEF Parts, SchedOK, SchedTypeOK
  <2> QED
    BY <1>2, <2>2, <2>3 DEF Parts, SchedOK, SchedTypeOK
<1>5. phase' = "user" /\ cpu' = m_current_task' /\ panic' = "none"
  <2>1. ~is_terminated(t)
    BY <1>3 DEF is_terminated, TERMINATED, RUNNING
  <2> QED
    BY <1>2, <1>3, <2>1, Returns
<1>6. OtherTypes'
  BY <1>2, <1>3, <1>5 DEF Parts, OtherTypes, windowVars, taskVars, Phase
<1>7. KeepBlocked /\ m_state'[InitTask] = RUNNING
  BY <1>2 DEF KeepBlocked, Parts, InitAlive
<1> QED
  BY <1>2, <1>3, <1>4, <1>5, <1>6, <1>7, QuietReturn DEF windowVars, taskVars

\* create_task() keeps the invariant, whether its program can be mapped or not.
LEMMA CreateTaskStep ==
  ASSUME Parts, UserMode, NEW parent \in Task \cup {NoTask}, NEW mapped \in BOOLEAN,
         create_task(parent, mapped)
  PROVE  Parts'
<1> DEFINE t == m_next_available_pid
<1>1. /\ m_next_available_pid < MaxTasks /\ m_next_available_pid' = t + 1
      /\ m_parent' = [m_parent EXCEPT ![t] = parent]
      /\ IF mapped THEN wake_task(t) ELSE UNCHANGED schedVars
      /\ UNCHANGED <<m_items, windowVars, resubmit, dying, waking>>
      /\ return_from_exception(mapped => ~is_terminated(t))
  BY DEF create_task
<1>2. /\ m_current_task \in Task /\ dying = NoTask /\ waking = NoWindow /\ ~delta_due
  BY UserModeFacts
<1>3. t \in Task /\ t \in Nat /\ t > 0 /\ MaxTasks \in Nat
  BY <1>1, MaxTasksAssumption DEF Parts, OtherTypes, FreshTasks, Task
<1>4. m_state[t] = INTERRUPTIBLE /\ t \notin sleepers
  BY <1>3 DEF Parts, FreshTasks
<1>5. /\ SchedOK' /\ m_current_task' = m_current_task
      /\ \A x \in Task : x # t => m_state'[x] = m_state[x]
  <2>1. CASE mapped
    <3>1. /\ SchedOK' /\ m_current_task' = m_current_task
          /\ m_state' = [m_state EXCEPT ![t] = RUNNING]
      BY <1>1, <1>2, <1>3, <2>1, WakeTask DEF Parts
    <3> QED
      BY <3>1 DEF Parts, SchedOK, SchedTypeOK
  <2>2. CASE ~mapped
    BY <1>1, <2>2 DEF Parts, SchedOK, SchedTypeOK, schedVars
  <2> QED
    BY <2>1, <2>2
<1>6. phase' = "user" /\ cpu' = m_current_task' /\ panic' = "none"
  <2>1. mapped => ~is_terminated(t)
    BY <1>4 DEF is_terminated, TERMINATED, INTERRUPTIBLE
  <2> QED
    BY <1>1, <1>2, <1>5, <2>1, Returns
<1>7. OtherTypes'
  <2>1. m_next_available_pid' \in 0 .. MaxTasks
    BY <1>1, <1>3
  <2>2. m_parent' \in [Task -> Task \cup {NoTask}]
    BY <1>1, <1>3 DEF Parts, OtherTypes
  <2> QED
    BY <1>1, <1>2, <1>5, <1>6, <2>1, <2>2 DEF Parts, OtherTypes, windowVars, Phase
<1>8. WaitersBlocked'
  <2>1. \A w \in Window : \A i \in 1 .. Len(m_wait_list[w]) :
          m_wait_list[w][i] \in Task /\ m_state[m_wait_list[w][i]] = UNINTERRUPTIBLE
    BY ElementOfSeq DEF Parts, OtherTypes, WaitersBlocked
  <2>2. UNINTERRUPTIBLE # INTERRUPTIBLE
    BY DEF UNINTERRUPTIBLE, INTERRUPTIBLE
  <2>3. \A w \in Window : \A i \in 1 .. Len(m_wait_list[w]) :
          m_state'[m_wait_list[w][i]] = UNINTERRUPTIBLE
    BY <1>4, <1>5, <2>1, <2>2
  <2> QED
    BY <1>1, <2>3 DEF Parts, WaitersBlocked, windowVars
<1>9. sleepers' = sleepers /\ SleepsOnce' = SleepsOnce /\ delta_due' = delta_due
  BY <1>1 DEF sleepers, SleepsOnce, delta_due
<1>10. SleepersAsleep'
  <2>1. \A x \in sleepers : m_state'[x] = INTERRUPTIBLE
    BY <1>4, <1>5, SleepersAreTasks DEF Parts, SleepersAsleep
  <2> QED
    BY <1>9, <2>1 DEF Parts, SleepersAsleep
<1>11. FreshTasks'
  <2>1. m_next_available_pid' > 0
    BY <1>1, <1>3
  <2>2. ASSUME NEW x \in Task, x >= m_next_available_pid'
        PROVE  m_state'[x] = INTERRUPTIBLE /\ x \notin sleepers'
    <3>1. x # t /\ x >= m_next_available_pid
      BY <1>1, <1>3, <2>2 DEF Task
    <3> QED
      BY <1>5, <1>9, <3>1 DEF Parts, FreshTasks
  <2> QED
    BY <2>1, <2>2 DEF FreshTasks
<1>12. InitAlive'
  <2>1. InitTask \in Task /\ InitTask # t
    BY <1>3, NoTaskIsNone DEF InitTask
  <2> QED
    BY <1>1, <1>5, <2>1 DEF Parts, InitAlive
<1>13. HandlerState'
  BY <1>1, <1>2, <1>6, <1>9 DEF HandlerState
<1>14. CpuState'
  BY <1>6 DEF CpuState
<1> QED
  BY <1>5, <1>7, <1>8, <1>10, <1>11, <1>12, <1>13, <1>14 DEF Parts

\* SYS_SPAWN and the start of the explorer keep the invariant.
LEMMA SpawnStep == ASSUME Parts, SpawnSome \/ ExplorerSome PROVE Parts'
<1>1. CASE SpawnSome
  <2>1. PICK mapped \in BOOLEAN : SysSpawn(mapped)
    BY <1>1 DEF SpawnSome
  <2>2. UserMode /\ create_task(m_current_task, mapped)
    BY <2>1 DEF SysSpawn, InSyscall
  <2> QED
    BY <2>2, UserModeFacts, CreateTaskStep
<1>2. CASE ExplorerSome
  <2>1. PICK mapped \in BOOLEAN : SpawnExplorer(mapped)
    BY <1>2 DEF ExplorerSome
  <2>2. UserMode /\ create_task(NoTask, mapped)
    BY <2>1 DEF SpawnExplorer
  <2> QED
    BY <2>2, CreateTaskStep
<1> QED
  BY <1>1, <1>2

\* SYS_WAIT_MSG for a window that is not the caller's keeps the invariant.
LEMMA WaitMsgRefusedStep == ASSUME Parts, WaitMsgRefused PROVE Parts'
<1>1. /\ UserMode
      /\ resubmit' = [resubmit EXCEPT ![m_current_task] = NoWindow]
      /\ UNCHANGED <<schedVars, m_items, windowVars, taskVars, dying, waking>>
      /\ return_from_exception(TRUE)
  BY DEF WaitMsgRefused
<1>2. m_current_task \in Task /\ dying = NoTask /\ waking = NoWindow /\ ~delta_due
  BY <1>1, UserModeFacts
<1>3. SchedOK' /\ m_current_task' = m_current_task
  BY <1>1 DEF Parts, SchedOK, SchedTypeOK, schedVars
<1>4. phase' = "user" /\ cpu' = m_current_task' /\ panic' = "none"
  BY <1>1, <1>2, <1>3, Returns
<1>5. OtherTypes'
  BY <1>1, <1>2, <1>3, <1>4 DEF Parts, OtherTypes, windowVars, taskVars, Phase
<1>6. KeepBlocked /\ m_state'[InitTask] = RUNNING
  BY <1>1 DEF KeepBlocked, Parts, InitAlive, schedVars
<1> QED
  BY <1>1, <1>2, <1>3, <1>4, <1>5, <1>6, QuietReturn DEF windowVars, taskVars

\* SYS_POLL_MSG keeps the invariant.
LEMMA SysPollMsgStep == ASSUME Parts, NEW w \in Window, SysPollMsg(w) PROVE Parts'
<1>1. /\ UserMode /\ m_pending_count[w] # 0
      /\ m_pending_count' = [m_pending_count EXCEPT ![w] = @ - 1]
      /\ UNCHANGED <<schedVars, m_items, m_wait_list, owner, taskVars, resubmit, dying, waking>>
      /\ return_from_exception(TRUE)
  BY DEF SysPollMsg, InSyscall, dequeue, is_empty
<1>2. m_current_task \in Task /\ dying = NoTask /\ waking = NoWindow /\ ~delta_due
  BY <1>1, UserModeFacts
<1>3. SchedOK' /\ m_current_task' = m_current_task
  BY <1>1 DEF Parts, SchedOK, SchedTypeOK, schedVars
<1>4. phase' = "user" /\ cpu' = m_current_task' /\ panic' = "none"
  BY <1>1, <1>2, <1>3, Returns
<1>5. m_pending_count' \in [Window -> 0 .. MAX_PENDING_MESSAGES]
  <2>1. m_pending_count[w] - 1 \in 0 .. MAX_PENDING_MESSAGES
    BY <1>1, MaxPendingAssumption DEF Parts, OtherTypes
  <2> QED
    BY <1>1, <2>1 DEF Parts, OtherTypes
<1>6. OtherTypes'
  BY <1>1, <1>2, <1>3, <1>4, <1>5 DEF Parts, OtherTypes, taskVars, Phase
<1>7. KeepBlocked /\ m_state'[InitTask] = RUNNING
  BY <1>1 DEF KeepBlocked, Parts, InitAlive, schedVars
<1> QED
  BY <1>1, <1>2, <1>3, <1>4, <1>6, <1>7, QuietReturn DEF taskVars

\* SYS_WAIT_MSG keeps the invariant, both when a message is there and when the caller blocks.
LEMMA SysWaitMsgStep == ASSUME Parts, NEW w \in Window, SysWaitMsg(w) PROVE Parts'
<1> DEFINE t == m_current_task
<1>1. UserMode /\ MayBlock /\ UNCHANGED <<m_items, owner, taskVars, dying, waking>>
  BY DEF SysWaitMsg
<1>2. /\ t \in Task /\ m_state[t] = RUNNING /\ dying = NoTask /\ waking = NoWindow
      /\ ~delta_due /\ t # InitTask
  BY <1>1, UserModeFacts DEF MayBlock
<1>3. CASE is_empty(w)
  <2>1. /\ remove_task(t) /\ m_state' = [m_state EXCEPT ![t] = UNINTERRUPTIBLE]
        /\ m_priority' = m_priority
        /\ m_wait_list' = [m_wait_list EXCEPT ![w] = Append(@, t)]
        /\ resubmit' = [resubmit EXCEPT ![t] = w]
        /\ m_pending_count' = m_pending_count
        /\ return_from_exception(is_running(t) /\ switch_to_assert)
    BY <1>3 DEF SysWaitMsg, block, wait_list_add
  <2>2. m_state \in [Task -> State] /\ UNINTERRUPTIBLE # RUNNING /\ UNINTERRUPTIBLE \in State
    BY DEF Parts, SchedOK, SchedTypeOK, UNINTERRUPTIBLE, RUNNING, State
  <2>3. \A x \in Task : m_state'[x] = IF x = t THEN UNINTERRUPTIBLE ELSE m_state[x]
    BY <1>2, <2>1, <2>2
  <2>4. SchedOK' /\ m_current_task' \in Task
    <3>1. m_state' \in [Task -> State]
      BY <2>1, <2>2
    <3>2. \A x \in Task :
            m_state'[x] = RUNNING /\ x # dying' <=> m_state[x] = RUNNING /\ x # m_current_task
      BY <1>1, <1>2, <2>2, <2>3, NoTaskIsNone
    <3>3. dying' \in Task \cup {NoTask}
      BY <1>1, <1>2
    <3> QED
      BY <1>1, <1>2, <2>1, <3>1, <3>2, <3>3, LeaveCpu DEF Parts
  <2>5. phase' = "user" /\ cpu' = m_current_task' /\ panic' = "none"
    <3>1. is_running(t) /\ switch_to_assert
      BY <1>2, SwitchAssertHolds DEF is_running, Parts
    <3> QED
      BY <2>1, <2>4, <3>1, Returns
  <2>6. /\ m_wait_list \in [Window -> Seq(Task)]
        /\ m_wait_list' \in [Window -> Seq(Task)]
        /\ \A v \in Window : m_wait_list'[v] = IF v = w THEN Append(m_wait_list[w], t) ELSE m_wait_list[v]
    BY <1>2, <2>1 DEF Parts, OtherTypes
  <2>7. OtherTypes'
    BY <1>1, <1>2, <2>1, <2>4, <2>5, <2>6 DEF Parts, OtherTypes, taskVars, Phase
  <2>8. KeepBlocked /\ m_state'[InitTask] = RUNNING
    BY <1>2, <2>3, NoTaskIsNone DEF KeepBlocked, Parts, InitAlive, InitTask
  <2>9. WaitersBlocked'
    <3>1. \A v \in Window : /\ Len(m_wait_list[v]) \in Nat
                            /\ \A i \in 1 .. Len(m_wait_list[v]) : m_wait_list[v][i] \in Task
      BY <2>6, ElementOfSeq
    <3>2. \A v \in Window : \A i \in 1 .. Len(m_wait_list[v]) :
            m_state[m_wait_list[v][i]] = UNINTERRUPTIBLE /\ m_wait_list[v][i] # t
      BY <1>2, <2>2 DEF Parts, WaitersBlocked
    <3>3. /\ Len(m_wait_list'[w]) = Len(m_wait_list[w]) + 1
          /\ \A i \in 1 .. Len(m_wait_list[w]) : m_wait_list'[w][i] = m_wait_list[w][i]
          /\ m_wait_list'[w][Len(m_wait_list[w]) + 1] = t
      BY <1>2, <2>6, AppendProperties
    <3>4. ASSUME NEW v \in Window, NEW i \in 1 .. Len(m_wait_list'[v])
          PROVE  \/ i \in 1 .. Len(m_wait_list[v]) /\ m_wait_list'[v][i] = m_wait_list[v][i]
                 \/ v = w /\ i = Len(m_wait_list[w]) + 1 /\ m_wait_list'[v][i] = t
      BY <2>6, <3>1, <3>3
    <3>5. ASSUME NEW v \in Window, NEW i \in 1 .. Len(m_wait_list'[v])
          PROVE  m_state'[m_wait_list'[v][i]] = UNINTERRUPTIBLE
      BY <1>2, <2>3, <3>1, <3>2, <3>4
    <3>6. ASSUME NEW v \in Window, NEW u \in Window,
                 NEW i \in 1 .. Len(m_wait_list'[v]), NEW j \in 1 .. Len(m_wait_list'[u]),
                 m_wait_list'[v][i] = m_wait_list'[u][j]
          PROVE  v = u /\ i = j
      <4>1. \A x, y \in Window : \A k \in 1 .. Len(m_wait_list[x]), l \in 1 .. Len(m_wait_list[y]) :
              m_wait_list[x][k] = m_wait_list[y][l] => x = y /\ k = l
        BY DEF Parts, WaitersBlocked
      <4>2. \/ i \in 1 .. Len(m_wait_list[v]) /\ m_wait_list'[v][i] = m_wait_list[v][i]
            \/ v = w /\ i = Len(m_wait_list[w]) + 1 /\ m_wait_list'[v][i] = t
        BY <3>4
      <4>3. \/ j \in 1 .. Len(m_wait_list[u]) /\ m_wait_list'[u][j] = m_wait_list[u][j]
            \/ u = w /\ j = Len(m_wait_list[w]) + 1 /\ m_wait_list'[u][j] = t
        BY <3>4
      <4>4. CASE m_wait_list'[v][i] = t
        BY <3>2, <3>6, <4>2, <4>3, <4>4
      <4>5. CASE m_wait_list'[v][i] # t
        BY <3>6, <4>1, <4>2, <4>3, <4>5
      <4> QED
        BY <4>4, <4>5
    <3> QED
      BY <3>5, <3>6 DEF WaitersBlocked
  <2>10. SleepersAsleep' /\ sleepers' = sleepers /\ ~delta_due'
    BY <1>1, <1>2, <2>8, SleepFrame
  <2>11. FreshTasks'
    BY <1>1, <2>8, <2>10, FreshFrame DEF taskVars
  <2>12. InitAlive'
    BY <1>1, <1>2, <2>4, <2>8, NoTaskIsNone DEF InitAlive, InitTask
  <2>13. HandlerState' /\ CpuState'
    BY <1>1, <1>2, <2>5, <2>10 DEF HandlerState, CpuState
  <2> QED
    BY <2>4, <2>7, <2>9, <2>10, <2>11, <2>12, <2>13 DEF Parts
<1>4. CASE ~is_empty(w)
  <2>1. /\ m_pending_count[w] # 0
        /\ m_pending_count' = [m_pending_count EXCEPT ![w] = @ - 1]
        /\ resubmit' = [resubmit EXCEPT ![t] = NoWindow]
        /\ UNCHANGED <<schedVars, m_wait_list>>
        /\ return_from_exception(TRUE)
    BY <1>4 DEF SysWaitMsg, dequeue, is_empty
  <2>2. SchedOK' /\ m_current_task' = m_current_task
    BY <1>1, <2>1 DEF Parts, SchedOK, SchedTypeOK, schedVars
  <2>3. phase' = "user" /\ cpu' = m_current_task' /\ panic' = "none"
    BY <1>2, <2>1, <2>2, Returns
  <2>4. m_pending_count' \in [Window -> 0 .. MAX_PENDING_MESSAGES]
    <3>1. m_pending_count[w] - 1 \in 0 .. MAX_PENDING_MESSAGES
      BY <2>1, MaxPendingAssumption DEF Parts, OtherTypes
    <3> QED
      BY <2>1, <3>1 DEF Parts, OtherTypes
  <2>5. OtherTypes'
    BY <1>1, <1>2, <2>1, <2>2, <2>3, <2>4 DEF Parts, OtherTypes, taskVars, Phase
  <2>6. KeepBlocked /\ m_state'[InitTask] = RUNNING
    BY <2>1 DEF KeepBlocked, Parts, InitAlive, schedVars
  <2> QED
    BY <1>1, <1>2, <2>1, <2>2, <2>3, <2>5, <2>6, QuietReturn DEF taskVars
<1> QED
  BY <1>3, <1>4

\* A handler enters the window manager.
LEMMA EnterWindowManager ==
  ASSUME Parts, UserMode, OtherTypes', continue_in("wm", TRUE),
         UNCHANGED <<schedVars, m_items, m_wait_list, m_next_available_pid, dying, waking>>
  PROVE  Parts'
<1>1. phase' = "wm" /\ panic' = "none" /\ cpu' = cpu
  BY DEF continue_in
<1>2. m_current_task \in Task /\ dying = NoTask /\ waking = NoWindow /\ ~delta_due /\ cpu = m_current_task
  BY UserModeFacts
<1>3. SchedOK'
  BY DEF Parts, SchedOK, SchedTypeOK, schedVars
<1>4. KeepBlocked
  BY DEF KeepBlocked, schedVars
<1>5. WaitersBlocked'
  BY <1>4, WaitFrame
<1>6. SleepersAsleep' /\ sleepers' = sleepers /\ ~delta_due'
  BY <1>2, <1>4, SleepFrame
<1>7. FreshTasks'
  BY <1>4, <1>6, FreshFrame
<1>8. InitAlive'
  BY DEF Parts, InitAlive, schedVars
<1>9. HandlerState' /\ CpuState'
  BY <1>1, <1>2, <1>6 DEF HandlerState, CpuState, schedVars
<1> QED
  BY <1>3, <1>5, <1>6, <1>7, <1>8, <1>9 DEF Parts

\* SYS_WINDOW_CREATE keeps the invariant.
LEMMA SysWindowCreateStep == ASSUME Parts, NEW w \in Window, SysWindowCreate(w) PROVE Parts'
<1>1. /\ UserMode /\ owner' = [owner EXCEPT ![w] = m_current_task] /\ continue_in("wm", TRUE)
      /\ UNCHANGED <<schedVars, m_items, m_pending_count, m_wait_list, taskVars, resubmit, dying, waking>>
  BY DEF SysWindowCreate, InSyscall
<1>2. OtherTypes'
  <2>1. m_current_task \in Task /\ phase' = "wm" /\ cpu' = cpu
    BY <1>1, UserModeFacts DEF continue_in
  <2>2. owner' \in [Window -> Task \cup {NoTask}]
    BY <1>1, <2>1 DEF Parts, OtherTypes
  <2> QED
    BY <1>1, <2>1, <2>2 DEF Parts, OtherTypes, taskVars, Phase
<1> QED
  BY <1>1, <1>2, EnterWindowManager DEF taskVars

\* System calls and interrupts that enter the window manager keep the invariant.
LEMMA WindowEventStep == ASSUME Parts, SysWindowUpdate \/ InputInterrupt PROVE Parts'
<1>1. /\ UserMode /\ continue_in("wm", TRUE)
      /\ UNCHANGED <<schedVars, m_items, windowVars, taskVars, resubmit, dying, waking>>
  BY DEF SysWindowUpdate, InputInterrupt, InSyscall
<1>2. OtherTypes'
  BY <1>1 DEF continue_in, Parts, OtherTypes, windowVars, taskVars, Phase
<1> QED
  BY <1>1, <1>2, EnterWindowManager DEF taskVars, windowVars

\* The first half of kill_task() keeps the invariant: the dying task leaves the run queues.
LEMMA KillTaskStep ==
  ASSUME Parts, UserMode, NEW ph \in {"exit", "fault"}, kill_task(ph)
  PROVE  Parts'
<1> DEFINE t == m_current_task
<1>1. /\ MayBlock /\ remove_task(t) /\ dying' = t
      /\ continue_in(ph, is_running(t) /\ switch_to_assert)
      /\ UNCHANGED <<m_state, m_priority, m_items, windowVars, taskVars, resubmit, waking>>
  BY DEF kill_task
<1>2. /\ t \in Task /\ m_state[t] = RUNNING /\ dying = NoTask /\ waking = NoWindow
      /\ ~delta_due /\ t # InitTask /\ cpu = t
  BY <1>1, UserModeFacts DEF MayBlock
<1>3. SchedOK' /\ m_current_task' \in Task
  <2>1. m_state' \in [Task -> State] /\ dying' \in Task \cup {NoTask}
    BY <1>1, <1>2 DEF Parts, SchedOK, SchedTypeOK
  <2>2. \A x \in Task :
          m_state'[x] = RUNNING /\ x # dying' <=> m_state[x] = RUNNING /\ x # m_current_task
    BY <1>1
  <2> QED
    BY <1>1, <1>2, <2>1, <2>2, LeaveCpu DEF Parts
<1>4. phase' = ph /\ panic' = "none" /\ cpu' = cpu
  <2>1. is_running(t) /\ switch_to_assert
    BY <1>2, SwitchAssertHolds DEF is_running, Parts
  <2> QED
    BY <1>1, <2>1 DEF continue_in
<1>5. OtherTypes'
  BY <1>1, <1>2, <1>4 DEF Parts, OtherTypes, windowVars, taskVars, Phase
<1>6. KeepBlocked
  BY <1>1 DEF KeepBlocked
<1>7. WaitersBlocked'
  BY <1>1, <1>6, WaitFrame DEF windowVars
<1>8. SleepersAsleep' /\ sleepers' = sleepers /\ ~delta_due'
  BY <1>1, <1>2, <1>6, SleepFrame
<1>9. FreshTasks'
  BY <1>1, <1>6, <1>8, FreshFrame DEF taskVars
<1>10. InitAlive'
  BY <1>1, <1>2, <1>3, NoTaskIsNone DEF Parts, InitAlive
<1>11. HandlerState'
  BY <1>1, <1>2, <1>4, <1>8, NoTaskIsNone DEF HandlerState
<1>12. CpuState'
  BY <1>1, <1>2, <1>4 DEF CpuState
<1> QED
  BY <1>3, <1>5, <1>7, <1>8, <1>9, <1>10, <1>11, <1>12 DEF Parts

\* SYS_EXIT and a fault of the running program keep the invariant.
LEMMA ExitOrFaultStep == ASSUME Parts, SysExit \/ UserFault PROVE Parts'
<1>1. CASE SysExit
  BY <1>1, KillTaskStep DEF SysExit, InSyscall
<1>2. CASE UserFault
  BY <1>2, KillTaskStep DEF UserFault
<1> QED
  BY <1>1, <1>2

\* The end of kill_task() keeps the invariant.
LEMMA KillDoneStep == ASSUME Parts, KillDone PROVE Parts'
<1>1. /\ phase \in {"exit", "fault"} /\ waking = NoWindow
      /\ m_state' = [x \in Task |->
                       IF x = dying \/ x \in killed_children(dying) THEN TERMINATED ELSE m_state[x]]
      /\ resubmit' = [resubmit EXCEPT ![dying] = NoWindow]
      /\ dying' = NoTask
      /\ IF phase = "fault" THEN schedule(m_current_task)
         ELSE no_switch(m_current_task, m_elapsed_ticks)
      /\ UNCHANGED <<m_priority, m_items, taskVars, waking>>
      /\ return_from_exception(phase = "fault" => switch_to_assert)
  BY DEF KillDone
<1>2. PICK D : /\ owner' = [w \in Window |-> IF w \in D THEN NoTask ELSE owner[w]]
               /\ m_pending_count' = [w \in Window |-> IF w \in D THEN 0 ELSE m_pending_count[w]]
               /\ m_wait_list' = [w \in Window |-> IF w \in D THEN <<>> ELSE m_wait_list[w]]
  BY DEF KillDone
<1>3. /\ m_current_task \in Task /\ dying \in Task /\ m_state[dying] = RUNNING
      /\ dying # InitTask /\ ~delta_due
  BY <1>1 DEF Parts, SchedOK, SchedTypeOK, InitAlive, HandlerState
<1>4. \A x \in Task : m_state'[x] = IF x = dying THEN TERMINATED ELSE m_state[x]
  BY <1>1 DEF killed_children
<1>5. StateStep
  <2>1. Values(m_current_task, m_state, m_priority, dying)
    BY DEF Parts, SchedOK, SchedTypeOK, Values
  <2>2. Queues(m_run_queue, m_current_task, m_state', m_priority, NoTask)
    BY <1>3, <1>4, <2>1, TerminateQueues DEF Parts, SchedOK
  <2>3. m_state' \in [Task -> State]
    BY <1>1 DEF Parts, SchedOK, SchedTypeOK, State
  <2> QED
    BY <1>1, <2>2, <2>3 DEF StateStep
<1>6. SchedOK' /\ m_current_task' \in Task
  <2>1. CASE phase = "fault"
    BY <1>1, <1>3, <1>5, <2>1, ScheduleCurrent DEF Parts
  <2>2. CASE phase # "fault"
    BY <1>1, <1>3, <1>5, <2>2 DEF no_switch, Parts, SchedOK, SchedTypeOK, StateStep
  <2> QED
    BY <2>1, <2>2
<1>7. phase' = "user" /\ cpu' = m_current_task' /\ panic' = "none"
  <2>1. switch_to_assert
    BY SwitchAssertHolds DEF Parts
  <2> QED
    BY <1>1, <1>6, <2>1, Returns
<1>8. OtherTypes'
  <2>1. /\ owner' \in [Window -> Task \cup {NoTask}]
        /\ m_pending_count' \in [Window -> 0 .. MAX_PENDING_MESSAGES]
        /\ m_wait_list' \in [Window -> Seq(Task)]
    BY <1>2, MaxPendingAssumption, EmptySeq DEF Parts, OtherTypes
  <2>2. resubmit' \in [Task -> Window \cup {NoWindow}]
    BY <1>1, <1>3 DEF Parts, OtherTypes
  <2> QED
    BY <1>1, <1>6, <1>7, <2>1, <2>2 DEF Parts, OtherTypes, taskVars, Phase
<1>9. KeepBlocked /\ m_state'[InitTask] = RUNNING
  BY <1>3, <1>4, NoTaskIsNone DEF KeepBlocked, Parts, InitAlive, InitTask
<1>10. WaitersBlocked'
  <2>1. \A w \in Window : \A i \in 1 .. Len(m_wait_list'[w]) :
          i \in 1 .. Len(m_wait_list[w]) /\ m_wait_list'[w][i] = m_wait_list[w][i]
    BY <1>2, EmptySeq
  <2>2. \A w \in Window : \A i \in 1 .. Len(m_wait_list[w]) :
          m_wait_list[w][i] \in Task /\ m_state[m_wait_list[w][i]] = UNINTERRUPTIBLE
    BY ElementOfSeq DEF Parts, OtherTypes, WaitersBlocked
  <2>3. \A w \in Window : \A i \in 1 .. Len(m_wait_list[w]) :
          m_state'[m_wait_list[w][i]] = UNINTERRUPTIBLE
    BY <1>9, <2>2 DEF KeepBlocked, UNINTERRUPTIBLE, RUNNING
  <2>4. \A v, w \in Window : \A i \in 1 .. Len(m_wait_list[v]), j \in 1 .. Len(m_wait_list[w]) :
          m_wait_list[v][i] = m_wait_list[w][j] => v = w /\ i = j
    BY DEF Parts, WaitersBlocked
  <2> QED
    BY <2>1, <2>3, <2>4 DEF WaitersBlocked
<1>11. SleepersAsleep' /\ sleepers' = sleepers /\ ~delta_due'
  BY <1>1, <1>3, <1>9, SleepFrame
<1>12. FreshTasks'
  BY <1>1, <1>9, <1>11, FreshFrame DEF taskVars
<1>13. InitAlive'
  BY <1>1, <1>6, <1>9, NoTaskIsNone DEF InitAlive, InitTask
<1>14. HandlerState' /\ CpuState'
  BY <1>1, <1>7, <1>11 DEF HandlerState, CpuState
<1> QED
  BY <1>6, <1>8, <1>10, <1>11, <1>12, <1>13, <1>14 DEF Parts

\* MessageQueue::enqueue() keeps the invariant, up to the first task to wake.
LEMMA PostMessageStep == ASSUME Parts, NEW w \in Window, PostMessage(w) PROVE Parts'
<1>1. /\ phase \in {"wm", "exit", "fault"} /\ waking = NoWindow
      /\ m_pending_count' =
           [m_pending_count EXCEPT ![w] = IF is_full(w) THEN @ ELSE @ + 1]
      /\ waking' = IF is_full(w) \/ m_wait_list[w] = <<>> THEN NoWindow ELSE w
      /\ UNCHANGED <<schedVars, m_items, m_wait_list, owner, taskVars, resubmit, phase, dying, cpu, panic>>
  BY DEF PostMessage, enqueue
<1>2. SchedOK'
  BY <1>1 DEF Parts, SchedOK, SchedTypeOK, schedVars
<1>3. OtherTypes'
  <2>1. (IF is_full(w) THEN m_pending_count[w] ELSE m_pending_count[w] + 1)
          \in 0 .. MAX_PENDING_MESSAGES
    BY MaxPendingAssumption DEF Parts, OtherTypes, is_full
  <2>2. m_pending_count' \in [Window -> 0 .. MAX_PENDING_MESSAGES]
    BY <1>1, <2>1 DEF Parts, OtherTypes
  <2>3. waking' \in Window \cup {NoWindow}
    BY <1>1
  <2> QED
    BY <1>1, <2>2, <2>3 DEF Parts, OtherTypes, taskVars
<1>4. KeepBlocked
  BY <1>1 DEF KeepBlocked, schedVars
<1>5. WaitersBlocked'
  BY <1>1, <1>4, WaitFrame
<1>6. SleepersAsleep' /\ sleepers' = sleepers /\ (delta_due' <=> delta_due)
  BY <1>1, <1>4, SleepFrame
<1>7. FreshTasks'
  BY <1>1, <1>4, <1>6, FreshFrame DEF taskVars
<1>8. InitAlive' /\ CpuState'
  BY <1>1 DEF Parts, InitAlive, CpuState, schedVars
<1>9. HandlerState'
  BY <1>1, <1>6 DEF Parts, HandlerState, schedVars
<1> QED
  BY <1>2, <1>3, <1>5, <1>6, <1>7, <1>8, <1>9 DEF Parts

\* One turn of WaitList::wake_all() keeps the invariant.
LEMMA WakeWaiterStep == ASSUME Parts, WakeWaiter PROVE Parts'
<1> DEFINE w == waking
           q == m_wait_list[w]
           t == Head(q)
<1>1. /\ w # NoWindow
      /\ IF is_terminated(t) THEN UNCHANGED schedVars ELSE wake_task(t)
      /\ m_wait_list' = [m_wait_list EXCEPT ![w] = Tail(@)]
      /\ waking' = IF Len(q) = 1 THEN NoWindow ELSE w
      /\ UNCHANGED <<m_items, m_pending_count, owner, taskVars, resubmit, phase, dying, cpu, panic>>
  BY DEF WakeWaiter, wait_list_next
<1>2. /\ w \in Window /\ q \in Seq(Task) /\ q # <<>> /\ phase \in {"wm", "exit", "fault"}
      /\ m_wait_list \in [Window -> Seq(Task)]
  BY <1>1 DEF Parts, OtherTypes, HandlerState
<1>3. /\ Len(q) \in Nat \ {0} /\ t \in Task /\ t = q[1] /\ 1 \in 1 .. Len(q)
      /\ Tail(q) \in Seq(Task) /\ Len(Tail(q)) = Len(q) - 1
      /\ \A i \in 1 .. Len(q) - 1 : Tail(q)[i] = q[i + 1]
  <2> HIDE DEF q
  <2>1. Len(q) \in Nat \ {0}
    BY <1>2, EmptySeq
  <2>2. /\ Head(q) \in Task /\ Tail(q) \in Seq(Task) /\ Len(Tail(q)) = Len(q) - 1
        /\ \A i \in 1 .. Len(Tail(q)) : Tail(q)[i] = q[i + 1]
    BY <1>2, HeadTailProperties
  <2> QED
    BY <1>2, <2>1, <2>2
<1>4. m_state[t] = UNINTERRUPTIBLE
  BY <1>2, <1>3 DEF Parts, WaitersBlocked
<1>5. wake_task(t)
  BY <1>1, <1>4 DEF is_terminated, UNINTERRUPTIBLE, TERMINATED
<1> HIDE DEF t, q, w
<1>6. /\ SchedOK' /\ m_current_task' = m_current_task
      /\ m_state' = [m_state EXCEPT ![t] = RUNNING]
  BY <1>1, <1>3, <1>5, WakeTask DEF Parts, HandlerState
<1>7. \A x \in Task : m_state'[x] = IF x = t THEN RUNNING ELSE m_state[x]
  BY <1>6 DEF Parts, SchedOK, SchedTypeOK
<1>8. /\ m_wait_list' \in [Window -> Seq(Task)]
      /\ \A v \in Window : m_wait_list'[v] = IF v = w THEN Tail(q) ELSE m_wait_list[v]
  BY <1>1, <1>2, <1>3 DEF q
<1>9. OtherTypes'
  <2>1. waking' \in Window \cup {NoWindow}
    BY <1>1, <1>2
  <2> QED
    BY <1>1, <1>8, <2>1 DEF Parts, OtherTypes, taskVars
<1>10. WaitersBlocked'
  <2> DEFINE back(v, i) == IF v = w THEN i + 1 ELSE i
  <2>1. ASSUME NEW v \in Window, NEW i \in 1 .. Len(m_wait_list'[v])
        PROVE  /\ back(v, i) \in 1 .. Len(m_wait_list[v])
               /\ m_wait_list'[v][i] = m_wait_list[v][back(v, i)]
               /\ m_wait_list'[v][i] # t
    <3>1. Len(m_wait_list[v]) \in Nat
      BY <1>2
    <3>2. CASE v = w
      <4>1. i \in 1 .. Len(q) - 1 /\ m_wait_list'[v][i] = q[i + 1] /\ i + 1 \in 1 .. Len(q)
        BY <1>3, <1>8, <3>2
      <4>2. q[i + 1] # q[1]
        <5>1. i + 1 # 1
          BY <4>1
        <5> QED
          BY <1>2, <1>3, <4>1, <5>1 DEF Parts, WaitersBlocked, q
      <4> QED
        BY <1>3, <3>2, <4>1, <4>2 DEF q
    <3>3. CASE v # w
      <4>1. i \in 1 .. Len(m_wait_list[v]) /\ m_wait_list'[v][i] = m_wait_list[v][i]
        BY <1>8, <3>3
      <4>2. m_wait_list[v][i] # m_wait_list[w][1]
        BY <1>2, <1>3, <3>3, <4>1 DEF Parts, WaitersBlocked, q
      <4> QED
        BY <1>3, <3>3, <4>1, <4>2 DEF q
    <3> QED
      BY <3>2, <3>3
  <2>2. ASSUME NEW v \in Window, NEW i \in 1 .. Len(m_wait_list'[v])
        PROVE  m_state'[m_wait_list'[v][i]] = UNINTERRUPTIBLE
    <3>1. /\ m_wait_list'[v][i] \in Task /\ m_wait_list'[v][i] # t
          /\ m_state[m_wait_list'[v][i]] = UNINTERRUPTIBLE
      <4> HIDE DEF back
      <4> QED
        BY <1>2, <2>1, ElementOfSeq DEF Parts, WaitersBlocked
    <3> QED
      BY <1>7, <3>1
  <2>3. ASSUME NEW u \in Window, NEW v \in Window,
               NEW i \in 1 .. Len(m_wait_list'[u]), NEW j \in 1 .. Len(m_wait_list'[v]),
               m_wait_list'[u][i] = m_wait_list'[v][j]
        PROVE  u = v /\ i = j
    <3>1. u = v /\ back(u, i) = back(v, j)
      <4> HIDE DEF back
      <4>1. back(u, i) \in 1 .. Len(m_wait_list[u]) /\ m_wait_list'[u][i] = m_wait_list[u][back(u, i)]
        BY <2>1
      <4>2. back(v, j) \in 1 .. Len(m_wait_list[v]) /\ m_wait_list'[v][j] = m_wait_list[v][back(v, j)]
        BY <2>1
      <4>3. m_wait_list[u][back(u, i)] = m_wait_list[v][back(v, j)]
        BY <2>3, <4>1, <4>2
      <4>4. \A x, y \in Window : \A k \in 1 .. Len(m_wait_list[x]), l \in 1 .. Len(m_wait_list[y]) :
              m_wait_list[x][k] = m_wait_list[y][l] => x = y /\ k = l
        BY DEF Parts, WaitersBlocked
      <4> QED
        BY <4>1, <4>2, <4>3, <4>4
    <3>2. Len(m_wait_list'[u]) \in Nat /\ Len(m_wait_list'[v]) \in Nat
      BY <1>8
    <3> QED
      BY <3>1, <3>2
  <2> QED
    BY <2>2, <2>3 DEF WaitersBlocked
<1>11. sleepers' = sleepers /\ SleepsOnce' = SleepsOnce /\ delta_due' = delta_due
  BY <1>1 DEF sleepers, SleepsOnce, delta_due
<1>12. SleepersAsleep' /\ FreshTasks'
  <2>1. UNINTERRUPTIBLE # INTERRUPTIBLE
    BY DEF UNINTERRUPTIBLE, INTERRUPTIBLE
  <2>2. \A x \in Task : m_state[x] = INTERRUPTIBLE => m_state'[x] = INTERRUPTIBLE
    BY <1>4, <1>7, <2>1
  <2>3. SleepersAsleep'
    BY <1>11, <2>2, SleepersAreTasks DEF Parts, SleepersAsleep
  <2>4. FreshTasks'
    BY <1>1, <1>11, <2>2 DEF Parts, FreshTasks, taskVars
  <2> QED
    BY <2>3, <2>4
<1>13. InitAlive' /\ CpuState'
  BY <1>1, <1>6, <1>7, NoTaskIsNone DEF Parts, InitAlive, CpuState, InitTask
<1>14. HandlerState'
  <2>1. dying # NoTask => m_state'[dying] = RUNNING
    BY <1>7 DEF Parts, HandlerState, SchedOK
  <2>2. waking' # NoWindow => m_wait_list'[waking'] # <<>>
    <3>1. CASE Len(q) = 1
      BY <1>1, <3>1
    <3>2. CASE Len(q) # 1
      <4>1. waking' = waking
        BY <1>1, <3>2 DEF q, w
      <4>2. 1 \in 1 .. Len(m_wait_list'[w])
        BY <1>2, <1>3, <1>8, <3>2
      <4>3. m_wait_list'[w] # <<>>
        BY <4>2, EmptySeq
      <4> QED
        BY <4>1, <4>3 DEF w
    <3> QED
      BY <3>1, <3>2
  <2> QED
    BY <1>1, <1>2, <1>11, <2>1, <2>2 DEF Parts, HandlerState
<1> QED
  BY <1>6, <1>9, <1>10, <1>12, <1>13, <1>14 DEF Parts

\* Leaving the window manager keeps the invariant.
LEMMA WindowManagerDoneStep == ASSUME Parts, WindowManagerDone PROVE Parts'
<1>1. /\ phase = "wm" /\ waking = NoWindow
      /\ UNCHANGED <<schedVars, m_items, windowVars, taskVars, resubmit, dying, waking>>
      /\ return_from_exception(TRUE)
  BY DEF WindowManagerDone
<1>2. m_current_task \in Task /\ dying = NoTask /\ ~delta_due
  BY <1>1 DEF Parts, SchedOK, SchedTypeOK, InitAlive, HandlerState
<1>3. SchedOK' /\ m_current_task' = m_current_task
  BY <1>1 DEF Parts, SchedOK, SchedTypeOK, schedVars
<1>4. phase' = "user" /\ cpu' = m_current_task' /\ panic' = "none"
  BY <1>1, <1>2, <1>3, Returns
<1>5. OtherTypes'
  BY <1>1, <1>2, <1>3, <1>4 DEF Parts, OtherTypes, windowVars, taskVars, Phase
<1>6. KeepBlocked /\ m_state'[InitTask] = RUNNING
  BY <1>1 DEF KeepBlocked, Parts, InitAlive, schedVars
<1> QED
  BY <1>1, <1>2, <1>3, <1>4, <1>5, <1>6, QuietReturn DEF windowVars, taskVars

\* The timer interrupt keeps the invariant: the head of the delta queue is counted down.
LEMMA TimerInterruptStep == ASSUME Parts, TimerInterrupt PROVE Parts'
<1>1. /\ UserMode /\ delta_count_down /\ continue_in("tick", TRUE)
      /\ UNCHANGED <<schedVars, windowVars, taskVars, resubmit, dying, waking>>
  BY DEF TimerInterrupt
<1>2. /\ m_current_task \in Task /\ dying = NoTask /\ waking = NoWindow /\ ~delta_due
      /\ cpu = m_current_task
  BY <1>1, UserModeFacts
<1>3. phase' = "tick" /\ panic' = "none" /\ cpu' = cpu
  BY <1>1 DEF continue_in
<1>4. IsQueue(m_items', Task) /\ sleepers' = sleepers /\ (SleepsOnce => SleepsOnce')
  <2>0. IsQueue(m_items, Task) /\ ~Due(m_items)
    BY <1>2, DeltaMeaning DEF Parts, OtherTypes
  <2>1. CASE m_items = <<>>
    <3>1. m_items' = m_items
      BY <1>1, <2>1 DEF delta_count_down
    <3> QED
      BY <2>0, <3>1, DeltaMeaning
  <2>2. CASE m_items # <<>>
    <3>1. m_items' = [m_items EXCEPT ![1].remaining_ticks = @ - 1]
      BY <1>1, <2>2 DEF delta_count_down
    <3>2. /\ IsQueue(m_items', Task) /\ TasksOf(m_items') = TasksOf(m_items)
          /\ OnceEach(m_items) => OnceEach(m_items')
      BY <2>0, <2>2, <3>1, CountDown
    <3> QED
      BY <3>2, DeltaMeaning
  <2> QED
    BY <2>1, <2>2
<1>5. SchedOK'
  BY <1>1 DEF Parts, SchedOK, SchedTypeOK, schedVars
<1>6. OtherTypes'
  BY <1>1, <1>3, <1>4 DEF Parts, OtherTypes, windowVars, taskVars, Phase
<1>7. KeepBlocked
  BY <1>1 DEF KeepBlocked, schedVars
<1>8. WaitersBlocked'
  BY <1>1, <1>7, WaitFrame DEF windowVars
<1>9. FreshTasks'
  BY <1>1, <1>4, <1>7, FreshFrame DEF taskVars
<1>10. SleepersAsleep'
  BY <1>1, <1>4 DEF Parts, SleepersAsleep, schedVars
<1>11. InitAlive' /\ CpuState'
  BY <1>1, <1>2, <1>3 DEF Parts, InitAlive, CpuState, schedVars
<1>12. HandlerState'
  BY <1>1, <1>2, <1>3 DEF HandlerState
<1> QED
  BY <1>5, <1>6, <1>8, <1>9, <1>10, <1>11, <1>12 DEF Parts

\* One turn of the wake-up loop of DeltaQueue::tick() keeps the invariant.
LEMMA WakeSleeperStep == ASSUME Parts, WakeSleeper PROVE Parts'
<1> DEFINE t == m_items[1].task
<1>1. /\ phase = "tick" /\ delta_due /\ m_items' = Tail(m_items) /\ wake_task(t)
      /\ continue_in("tick", ~is_terminated(t))
      /\ UNCHANGED <<windowVars, taskVars, resubmit, dying, waking>>
  BY DEF WakeSleeper, delta_pop_front
<1>2. /\ IsQueue(m_items', Task) /\ SleepsOnce'
      /\ t \in sleepers /\ sleepers' = sleepers \ {t}
  <2>1. IsQueue(m_items, Task) /\ m_items # <<>> /\ OnceEach(m_items)
    BY <1>1, DeltaMeaning DEF Parts, OtherTypes, SleepersAsleep, delta_due
  <2>2. /\ IsQueue(Tail(m_items), Task) /\ OnceEach(Tail(m_items))
        /\ m_items[1].task \in TasksOf(m_items)
        /\ TasksOf(Tail(m_items)) = TasksOf(m_items) \ {m_items[1].task}
    BY <2>1, PopFront
  <2> QED
    BY <1>1, <2>2, DeltaMeaning
<1>3. t \in Task /\ m_state[t] = INTERRUPTIBLE
  BY <1>2, SleepersAreTasks DEF Parts, SleepersAsleep
<1> HIDE DEF t
<1>4. /\ m_current_task \in Task /\ dying = NoTask /\ waking = NoWindow /\ cpu = m_current_task
  BY <1>1 DEF Parts, SchedOK, SchedTypeOK, InitAlive, HandlerState, CpuState
<1>5. phase' = "tick" /\ panic' = "none" /\ cpu' = cpu
  BY <1>1, <1>3 DEF continue_in, is_terminated, INTERRUPTIBLE, TERMINATED
<1>6. /\ SchedOK' /\ m_current_task' = m_current_task
      /\ m_state' = [m_state EXCEPT ![t] = RUNNING]
  BY <1>1, <1>3, <1>4, WakeTask DEF Parts
<1>7. \A x \in Task : m_state'[x] = IF x = t THEN RUNNING ELSE m_state[x]
  BY <1>6 DEF Parts, SchedOK, SchedTypeOK
<1>8. OtherTypes'
  BY <1>1, <1>2, <1>5 DEF Parts, OtherTypes, windowVars, taskVars, Phase
<1>9. WaitersBlocked'
  <2>1. \A w \in Window : \A i \in 1 .. Len(m_wait_list[w]) :
          m_wait_list[w][i] \in Task /\ m_state[m_wait_list[w][i]] = UNINTERRUPTIBLE
    BY ElementOfSeq DEF Parts, OtherTypes, WaitersBlocked
  <2>2. UNINTERRUPTIBLE # INTERRUPTIBLE
    BY DEF UNINTERRUPTIBLE, INTERRUPTIBLE
  <2>3. \A w \in Window : \A i \in 1 .. Len(m_wait_list[w]) :
          m_state'[m_wait_list[w][i]] = UNINTERRUPTIBLE
    BY <1>3, <1>7, <2>1, <2>2
  <2> QED
    BY <1>1, <2>3 DEF Parts, WaitersBlocked, windowVars
<1>10. SleepersAsleep'
  <2>1. \A x \in sleepers' : m_state'[x] = INTERRUPTIBLE
    BY <1>2, <1>7, SleepersAreTasks DEF Parts, SleepersAsleep
  <2> QED
    BY <1>2, <2>1 DEF SleepersAsleep
<1>11. FreshTasks'
  BY <1>1, <1>2, <1>7 DEF Parts, FreshTasks, taskVars
<1>12. InitAlive' /\ CpuState'
  BY <1>1, <1>4, <1>5, <1>6, <1>7, NoTaskIsNone DEF Parts, InitAlive, CpuState, InitTask
<1>13. HandlerState'
  BY <1>1, <1>4, <1>5 DEF HandlerState
<1> QED
  BY <1>6, <1>8, <1>9, <1>10, <1>11, <1>12, <1>13 DEF Parts

\* Scheduler::tick() keeps the invariant.
LEMMA SchedulerTickStep == ASSUME Parts, SchedulerTick PROVE Parts'
<1>1. /\ phase = "tick" /\ ~delta_due /\ tick
      /\ UNCHANGED <<m_state, m_priority, m_items, windowVars, taskVars, resubmit, dying, waking>>
      /\ return_from_exception(switch_to_assert)
  BY DEF SchedulerTick
<1>2. m_current_task \in Task /\ dying = NoTask /\ waking = NoWindow
  BY <1>1 DEF Parts, SchedOK, SchedTypeOK, InitAlive, HandlerState
<1>3. SchedOK' /\ m_current_task' \in Task
  BY <1>1, <1>2, TickCurrent DEF Parts
<1>4. switch_to_assert
  BY SwitchAssertHolds DEF Parts
<1>5. phase' = "user" /\ cpu' = m_current_task' /\ panic' = "none"
  BY <1>1, <1>3, <1>4, Returns
<1>6. OtherTypes'
  BY <1>1, <1>3, <1>5 DEF Parts, OtherTypes, windowVars, taskVars, Phase
<1>7. KeepBlocked /\ m_state'[InitTask] = RUNNING
  BY <1>1 DEF KeepBlocked, Parts, InitAlive
<1> QED
  BY <1>1, <1>2, <1>3, <1>5, <1>6, <1>7, QuietReturn DEF windowVars, taskVars
-----------------------------------------------------------------------------
(***************************************************************************)
(* The invariant.                                                          *)
(***************************************************************************)

\* It holds when load_init() has entered the init program.
LEMMA InitParts == Init => Parts
<1> SUFFICES ASSUME Init PROVE Parts
  OBVIOUS
<1>1. InitTask \in Task /\ NoTask \notin Task /\ InitTask # NoTask
  BY NoTaskIsNone DEF InitTask
<1>2. DEFAULT_PRIORITY \in Priority
  BY MaxPriorityAssumption DEF DEFAULT_PRIORITY, Priority
<1>3. SchedTypeOK
  <2>1. m_run_queue \in [Priority -> Seq(Task)] /\ m_elapsed_ticks \in [Task -> 0 .. TIME_SLICE]
    BY TimeSliceAssumption DEF Init
  <2>2. m_state \in [Task -> State] /\ m_priority \in [Task -> Priority]
    BY <1>2 DEF Init, State
  <2> QED
    BY <1>1, <2>1, <2>2 DEF SchedTypeOK, Init
<1>4. SchedOK
  <2>1. \A p \in Priority : m_run_queue[p] = <<>>
    BY DEF Init
  <2>2. \A t \in Task : m_state[t] = RUNNING => t = m_current_task
    BY DEF Init, INTERRUPTIBLE, RUNNING
  <2>3. m_state[m_current_task] = RUNNING /\ dying = NoTask /\ m_current_task # NoTask
    BY <1>1 DEF Init
  <2>4. FourProperties(m_run_queue, m_current_task, m_state, m_priority, dying)
    BY <2>1, <2>2, <2>3, EmptySeq DEF FourProperties
  <2>5. Values(m_current_task, m_state, m_priority, dying)
    BY <1>3, <2>3 DEF Values, SchedTypeOK
  <2> QED
    BY <1>3, <2>3, <2>4, <2>5, QueuesMeaning DEF SchedOK, SchedTypeOK
<1>5. OtherTypes
  <2>1. IsQueue(m_items, Task)
    BY DEF Init, IsQueue
  <2>2. m_pending_count \in [Window -> 0 .. MAX_PENDING_MESSAGES] /\ m_wait_list \in [Window -> Seq(Task)]
    BY MaxPendingAssumption DEF Init
  <2>3. m_next_available_pid \in 0 .. MaxTasks
    BY MaxTasksAssumption DEF Init
  <2> QED
    BY <1>1, <2>1, <2>2, <2>3 DEF Init, OtherTypes, Phase
<1>6. sleepers = {} /\ SleepsOnce /\ ~delta_due
  BY DEF Init, sleepers, SleepsOnce, delta_due
<1>7. WaitersBlocked
  <2>1. \A w \in Window : m_wait_list[w] = <<>>
    BY DEF Init
  <2> QED
    BY <2>1, EmptySeq DEF WaitersBlocked
<1>8. InitAlive /\ CpuState
  BY <1>1 DEF Init, InitAlive, CpuState
<1>9. FreshTasks
  BY <1>6 DEF Init, FreshTasks, InitTask, Task
<1>10. HandlerState
  BY <1>6 DEF Init, HandlerState
<1> QED
  BY <1>4, <1>5, <1>6, <1>7, <1>8, <1>9, <1>10 DEF Parts, SleepersAsleep

\* Every handler keeps it.
LEMMA NextParts == ASSUME Parts, Next PROVE Parts'
<1>1. CASE SysYield
  BY <1>1, SysYieldStep
<1>2. CASE SleepSome
  BY <1>2, SysSleepStep DEF SleepSome
<1>3. CASE SetSomePriority
  BY <1>3, SysSetPriorityStep DEF SetSomePriority
<1>4. CASE SpawnSome \/ ExplorerSome
  BY <1>4, SpawnStep
<1>5. CASE WaitSome
  BY <1>5, WaitMsgRefusedStep, SysWaitMsgStep DEF WaitSome
<1>6. CASE PollSome
  BY <1>6, SysPollMsgStep DEF PollSome
<1>7. CASE CreateSome
  BY <1>7, SysWindowCreateStep DEF CreateSome
<1>8. CASE SysWindowUpdate \/ InputInterrupt
  BY <1>8, WindowEventStep
<1>9. CASE SysExit \/ UserFault
  BY <1>9, ExitOrFaultStep
<1>10. CASE KillDone
  BY <1>10, KillDoneStep
<1>11. CASE PostSome
  BY <1>11, PostMessageStep DEF PostSome
<1>12. CASE WakeWaiter
  BY <1>12, WakeWaiterStep
<1>13. CASE WindowManagerDone
  BY <1>13, WindowManagerDoneStep
<1>14. CASE TimerInterrupt
  BY <1>14, TimerInterruptStep
<1>15. CASE WakeSleeper
  BY <1>15, WakeSleeperStep
<1>16. CASE SchedulerTick
  BY <1>16, SchedulerTickStep
<1> QED
  BY <1>1, <1>2, <1>3, <1>4, <1>5, <1>6, <1>7, <1>8, <1>9, <1>10, <1>11, <1>12, <1>13, <1>14,
     <1>15, <1>16 DEF Next

\* A step that changes nothing keeps it.
LEMMA StutterParts == ASSUME Parts, UNCHANGED vars PROVE Parts'
<1>1. UNCHANGED <<schedVars, m_items, windowVars, taskVars, resubmit, phase, dying, waking, cpu, panic>>
  BY DEF vars
<1>2. SchedOK' /\ KeepBlocked
  BY <1>1 DEF Parts, SchedOK, SchedTypeOK, KeepBlocked, schedVars
<1>3. OtherTypes'
  BY <1>1 DEF Parts, OtherTypes, windowVars, taskVars
<1>4. WaitersBlocked'
  BY <1>1, <1>2, WaitFrame DEF windowVars
<1>5. SleepersAsleep' /\ sleepers' = sleepers /\ (delta_due' <=> delta_due)
  BY <1>1, <1>2, SleepFrame
<1>6. FreshTasks'
  BY <1>1, <1>2, <1>5, FreshFrame DEF taskVars
<1>7. InitAlive' /\ CpuState'
  BY <1>1 DEF Parts, InitAlive, CpuState, schedVars
<1>8. HandlerState'
  BY <1>1, <1>5 DEF Parts, HandlerState, schedVars, windowVars
<1> QED
  BY <1>2, <1>3, <1>4, <1>5, <1>6, <1>7, <1>8 DEF Parts

\* IInv is an inductive invariant: whatever sequence of system calls, interrupts and faults.
THEOREM Invariance == Spec => []IInv
<1>1. Init => Parts
  BY InitParts
<1>2. Parts /\ [Next]_vars => Parts'
  BY NextParts, StutterParts
<1>3. Parts => IInv
  BY PartsOfIInv
<1> QED
  BY <1>1, <1>2, <1>3, PTL DEF Spec

\* Type correctness of the process core.
THEOREM TypeCorrect == Spec => []TypeOK
<1>1. IInv => TypeOK
  BY DEF IInv
<1> QED
  BY <1>1, Invariance, PTL

\* The run queues hold every RUNNING task exactly once, in the queue of its priority.
THEOREM RunQueuesCorrect == Spec => []QueueInv
<1>1. IInv => QueueInv
  BY DEF IInv
<1> QED
  BY <1>1, Invariance, PTL

\* No KASSERT of the paths modelled fails, and there is always a task to return to.
THEOREM NeverPanics == Spec => []NoPanic
<1>1. IInv => NoPanic
  BY DEF IInv, CpuState, NoPanic
<1> QED
  BY <1>1, Invariance, PTL

\* The delta queue holds sleeping tasks only, each once, and none that is overdue.
THEOREM DeltaQueueCorrect == Spec => []SleepersQueued
<1>1. IInv => SleepersQueued
  <2> SUFFICES ASSUME IInv PROVE SleepersQueued
    OBVIOUS
  <2>1. Parts
    BY PartsOfIInv
  <2>2. sleepers \subseteq Task
    BY <2>1, SleepersAreTasks DEF Parts
  <2>3. \A t \in Task : t \in sleepers => t < m_next_available_pid
    BY <2>1 DEF Parts, FreshTasks, OtherTypes, Task
  <2> QED
    BY <2>1, <2>2, <2>3 DEF Parts, SleepersAsleep, HandlerState, SleepersQueued
<1> QED
  BY <1>1, Invariance, PTL

\* A killed task is in no run queue, no wait list, not asleep and not on the CPU.
THEOREM KilledIsForgotten == Spec => []TerminatedIsForgotten
<1>1. IInv => TerminatedIsForgotten
  <2> SUFFICES ASSUME IInv, NEW t \in Task, m_state[t] = TERMINATED
               PROVE  /\ t # m_current_task /\ t # cpu /\ t \notin sleepers
                      /\ \A p \in Priority : ~Contains(m_run_queue[p], t)
                      /\ \A w \in Window : ~Contains(m_wait_list[w], t)
    BY DEF TerminatedIsForgotten
  <2>1. Parts
    BY PartsOfIInv
  <2>2. m_state[t] # RUNNING /\ m_state[t] # INTERRUPTIBLE /\ m_state[t] # UNINTERRUPTIBLE
    BY DEF RUNNING, INTERRUPTIBLE, UNINTERRUPTIBLE, TERMINATED
  <2>3. t # m_current_task /\ t # dying
    BY <2>1, <2>2, NoTaskIsNone DEF Parts, SchedOK, Queues, HandlerState
  <2>4. t # cpu
    BY <2>1, <2>3 DEF Parts, CpuState
  <2>5. t \notin sleepers
    BY <2>1, <2>2 DEF Parts, SleepersAsleep
  <2>6. \A p \in Priority : ~Contains(m_run_queue[p], t)
    BY <2>2 DEF IInv, QueueInv, QueuedTasksRunnable, Contains
  <2>7. \A w \in Window : ~Contains(m_wait_list[w], t)
    BY <2>1, <2>2 DEF Parts, WaitersBlocked, Contains
  <2> QED
    BY <2>3, <2>4, <2>5, <2>6, <2>7
<1> QED
  BY <1>1, Invariance, PTL

\* In user mode the CPU holds the registers of the task the scheduler calls current.
THEOREM CpuCorrect == Spec => []CurrentOnCpu
<1>1. IInv => CurrentOnCpu
  BY DEF IInv, CpuState, CurrentOnCpu
<1> QED
  BY <1>1, Invariance, PTL
-----------------------------------------------------------------------------
(***************************************************************************)
(* Messages and wake-ups.                                                  *)
(***************************************************************************)

\* It holds when load_init() has entered the init program.
LEMMA InitMessages == Init => MessageInv
<1> SUFFICES ASSUME Init PROVE MessageInv
  OBVIOUS
<1>1. \A w \in Window : m_wait_list[w] = <<>>
  BY DEF Init
<1>2. \A t \in Task : resubmit[t] = NoWindow /\ m_state[t] # UNINTERRUPTIBLE
  BY DEF Init, RUNNING, INTERRUPTIBLE, UNINTERRUPTIBLE
<1>3. waking = NoWindow
  BY DEF Init
<1> QED
  BY <1>1, <1>2, <1>3
  DEF MessageInv, OwnerWaits, PostedFirst, SleepersSubmitNothing, ResubmitsOwn, BlockedIsFound,
      WokenFindsMessage

\* A handler that touches no window, and changes the state only of tasks that have nothing to
\* resubmit, keeps it.
LEMMA QuietMessages ==
  ASSUME OtherTypes, MessageInv, UNCHANGED <<windowVars, resubmit, waking>>,
         \A t \in Task : m_state'[t] = m_state[t] \/ (resubmit[t] = NoWindow /\ m_state'[t] # UNINTERRUPTIBLE)
  PROVE  MessageInv'
<1>1. /\ UNCHANGED <<m_pending_count, m_wait_list, owner, resubmit, waking>>
      /\ \A t \in Task : resubmit[t] # NoWindow => m_state'[t] = m_state[t]
      /\ \A t \in Task : m_state'[t] = UNINTERRUPTIBLE => m_state[t] = UNINTERRUPTIBLE
  BY DEF windowVars
<1>2. OwnerWaits'
  BY <1>1, NoWindowAssumption DEF MessageInv, OwnerWaits
<1>3. PostedFirst'
  BY <1>1 DEF MessageInv, PostedFirst
<1>4. SleepersSubmitNothing'
  BY <1>1 DEF MessageInv, SleepersSubmitNothing
<1>5. BlockedIsFound'
  BY <1>1 DEF MessageInv, BlockedIsFound, WindowLost
<1>6. WokenFindsMessage'
  BY <1>1 DEF MessageInv, WokenFindsMessage, WindowLost
<1>7. ResubmitsOwn'
  BY <1>1 DEF MessageInv, ResubmitsOwn
<1> QED
  BY <1>2, <1>3, <1>4, <1>5, <1>6, <1>7 DEF MessageInv

\* wake_task() changes at most the state of its task, to RUNNING.
LEMMA WakeTaskStates ==
  ASSUME NEW t \in Task, wake_task(t), m_state \in [Task -> State]
  PROVE  m_state' = [m_state EXCEPT ![t] = RUNNING]
<1>1. CASE is_running(t)
  <2>1. m_state[t] = RUNNING /\ m_state' = m_state
    BY <1>1 DEF wake_task, is_running, schedVars
  <2> QED
    BY <2>1
<1>2. CASE ~is_running(t)
  BY <1>2 DEF wake_task
<1> QED
  BY <1>1, <1>2

\* The handlers that concern no message.
LEMMA OtherHandlersMessages ==
  ASSUME Parts, MessageInv,
         \/ SysYield \/ SleepSome \/ SetSomePriority \/ SpawnSome \/ ExplorerSome
         \/ SysWindowUpdate \/ SysExit \/ UserFault \/ InputInterrupt \/ WindowManagerDone
         \/ TimerInterrupt \/ WakeSleeper \/ SchedulerTick
  PROVE  MessageInv'
<1>0. OtherTypes /\ m_state \in [Task -> State]
  BY DEF Parts, SchedOK, SchedTypeOK
<1>1. CASE SysYield \/ SetSomePriority \/ SchedulerTick
  <2>1. UNCHANGED <<windowVars, resubmit, waking>> /\ m_state' = m_state
    BY <1>1 DEF SysYield, SetSomePriority, SysSetPriority, SchedulerTick
  <2> QED
    BY <1>0, <2>1, QuietMessages
<1>2. CASE SysWindowUpdate \/ InputInterrupt \/ WindowManagerDone \/ TimerInterrupt
  <2>1. UNCHANGED <<windowVars, resubmit, waking>> /\ m_state' = m_state
    BY <1>2 DEF SysWindowUpdate, InputInterrupt, WindowManagerDone, TimerInterrupt, schedVars
  <2> QED
    BY <1>0, <2>1, QuietMessages
<1>3. CASE SysExit \/ UserFault
  <2>1. UNCHANGED <<windowVars, resubmit, waking>> /\ m_state' = m_state
    BY <1>3 DEF SysExit, UserFault, kill_task
  <2> QED
    BY <1>0, <2>1, QuietMessages
<1>4. CASE SleepSome
  <2>1. /\ UNCHANGED <<windowVars, resubmit, waking>> /\ resubmit[m_current_task] = NoWindow
        /\ m_state' = [m_state EXCEPT ![m_current_task] = INTERRUPTIBLE]
    BY <1>4 DEF SleepSome, SysSleep, block, InSyscall
  <2>2. \A t \in Task : m_state'[t] = m_state[t] \/ (resubmit[t] = NoWindow /\ m_state'[t] # UNINTERRUPTIBLE)
    BY <1>0, <2>1 DEF INTERRUPTIBLE, UNINTERRUPTIBLE
  <2> QED
    BY <1>0, <2>1, <2>2, QuietMessages
<1>5. CASE SpawnSome \/ ExplorerSome
  <2>1. PICK parent \in Task \cup {NoTask}, mapped \in BOOLEAN : create_task(parent, mapped)
    BY <1>5 DEF SpawnSome, ExplorerSome, SysSpawn, SpawnExplorer, Parts, SchedOK, SchedTypeOK
  <2> DEFINE t == m_next_available_pid
  <2>2. /\ m_next_available_pid < MaxTasks
        /\ IF mapped THEN wake_task(t) ELSE UNCHANGED schedVars
        /\ UNCHANGED <<windowVars, resubmit, waking>>
    BY <2>1 DEF create_task
  <2>3. t \in Task /\ m_state[t] = INTERRUPTIBLE
    BY <2>2, MaxTasksAssumption DEF Parts, OtherTypes, FreshTasks, Task
  <2>4. resubmit[t] = NoWindow
    BY <2>3 DEF MessageInv, SleepersSubmitNothing
  <2>5. m_state' = m_state \/ m_state' = [m_state EXCEPT ![t] = RUNNING]
    BY <1>0, <2>2, <2>3, WakeTaskStates DEF schedVars
  <2>6. \A x \in Task : m_state'[x] = m_state[x] \/ (resubmit[x] = NoWindow /\ m_state'[x] # UNINTERRUPTIBLE)
    BY <1>0, <2>4, <2>5 DEF RUNNING, UNINTERRUPTIBLE
  <2> QED
    BY <1>0, <2>2, <2>6, QuietMessages
<1>6. CASE WakeSleeper
  <2> DEFINE t == m_items[1].task
  <2>1. UNCHANGED <<windowVars, resubmit, waking>> /\ wake_task(t) /\ m_items # <<>>
    BY <1>6 DEF WakeSleeper, delta_due
  <2>2. t \in Task /\ t \in sleepers
    <3>1. Len(m_items) \in Nat \ {0}
      BY <1>0, <2>1, DeltaMeaning, EmptySeq DEF OtherTypes, IsQueue
    <3> QED
      BY <1>0, <3>1, SleepersAreTasks DEF sleepers
  <2>3. m_state[t] = INTERRUPTIBLE
    BY <2>2 DEF Parts, SleepersAsleep
  <2>4. resubmit[t] = NoWindow
    BY <2>2, <2>3 DEF MessageInv, SleepersSubmitNothing
  <2>5. m_state' = [m_state EXCEPT ![t] = RUNNING]
    BY <1>0, <2>1, <2>2, WakeTaskStates
  <2>6. \A x \in Task : m_state'[x] = m_state[x] \/ (resubmit[x] = NoWindow /\ m_state'[x] # UNINTERRUPTIBLE)
    BY <1>0, <2>4, <2>5 DEF RUNNING, UNINTERRUPTIBLE
  <2> QED
    BY <1>0, <2>1, <2>6, QuietMessages
<1> QED
  BY <1>1, <1>2, <1>3, <1>4, <1>5, <1>6

\* What the lemmas below need of the types and of the task states.
LEMMA MessageTypes ==
  ASSUME Parts
  PROVE  /\ m_state \in [Task -> State] /\ resubmit \in [Task -> Window \cup {NoWindow}]
         /\ m_pending_count \in [Window -> Nat] /\ m_wait_list \in [Window -> Seq(Task)]
         /\ owner \in [Window -> Task \cup {NoTask}]
         /\ NoWindow \notin Window /\ NoTask \notin Task
         /\ RUNNING # INTERRUPTIBLE /\ RUNNING # UNINTERRUPTIBLE /\ RUNNING # TERMINATED
         /\ INTERRUPTIBLE # UNINTERRUPTIBLE /\ INTERRUPTIBLE # TERMINATED /\ UNINTERRUPTIBLE # TERMINATED
<1>1. m_pending_count \in [Window -> Nat]
  BY MaxPendingAssumption DEF Parts, OtherTypes
<1> QED
  BY <1>1, NoWindowAssumption, NoTaskIsNone
  DEF Parts, SchedOK, SchedTypeOK, OtherTypes, RUNNING, INTERRUPTIBLE, UNINTERRUPTIBLE, TERMINATED

\* A wait that is refused is forgotten.
LEMMA WaitMsgRefusedMessages == ASSUME Parts, MessageInv, WaitMsgRefused PROVE MessageInv'
<1> DEFINE t == m_current_task
<1>1. /\ UserMode /\ resubmit' = [resubmit EXCEPT ![t] = NoWindow]
      /\ UNCHANGED <<m_state, m_pending_count, m_wait_list, owner, waking>>
  BY DEF WaitMsgRefused, schedVars, windowVars
<1>2. t \in Task /\ m_state[t] = RUNNING
  BY <1>1, UserModeFacts
<1> HIDE DEF t
<1>3. OwnerWaits' /\ PostedFirst' /\ SleepersSubmitNothing' /\ ResubmitsOwn'
  BY <1>1, <1>2, MessageTypes DEF MessageInv, OwnerWaits, PostedFirst, SleepersSubmitNothing, ResubmitsOwn
<1>4. BlockedIsFound' /\ WokenFindsMessage'
  BY <1>1, <1>2, MessageTypes DEF MessageInv, BlockedIsFound, WokenFindsMessage, WindowLost
<1> QED
  BY <1>3, <1>4 DEF MessageInv

\* A running owner of a window finds nobody in its wait list.
LEMMA NobodyWaits ==
  ASSUME Parts, MessageInv, NEW w \in Window, owner[w] = m_current_task, UserMode
  PROVE  m_wait_list[w] = <<>>
  BY MessageTypes, UserModeFacts DEF MessageInv, OwnerWaits

\* SYS_WAIT_MSG on an empty queue: the task is the only one in the wait list.
LEMMA BlockMessages ==
  ASSUME Parts, MessageInv, NEW w \in Window, SysWaitMsg(w), is_empty(w)
  PROVE  MessageInv'
<1> DEFINE t == m_current_task
<1>1. /\ UserMode /\ owner[w] = t
      /\ m_state' = [m_state EXCEPT ![t] = UNINTERRUPTIBLE]
      /\ m_wait_list' = [m_wait_list EXCEPT ![w] = Append(@, t)]
      /\ resubmit' = [resubmit EXCEPT ![t] = w]
      /\ UNCHANGED <<m_pending_count, owner, waking>>
  BY DEF SysWaitMsg, block, wait_list_add
<1>2. t \in Task /\ m_state[t] = RUNNING /\ waking = NoWindow
  BY <1>1, UserModeFacts
<1>3. m_wait_list' = [m_wait_list EXCEPT ![w] = <<t>>]
  <2>1. Append(<<>>, t) = <<t>>
    BY <1>2
  <2> QED
    BY <1>1, <2>1, NobodyWaits
<1>4. m_pending_count[w] = 0
  BY DEF is_empty
<1> HIDE DEF t
<1>5. OwnerWaits'
  <2> SUFFICES ASSUME NEW v \in Window, m_wait_list'[v] # <<>>
               PROVE  /\ m_wait_list'[v] = <<owner[v]>> /\ owner[v] \in Task
                      /\ m_state'[owner[v]] = UNINTERRUPTIBLE /\ resubmit'[owner[v]] = v
                      /\ m_pending_count[v] = 0 \/ waking = v
    BY <1>1 DEF OwnerWaits
  <2>1. CASE v = w
    BY <1>1, <1>2, <1>3, <1>4, <2>1, MessageTypes
  <2>2. CASE v # w
    <3>1. m_wait_list'[v] = m_wait_list[v]
      BY <1>3, <2>2, MessageTypes
    <3>2. /\ m_wait_list[v] = <<owner[v]>> /\ owner[v] \in Task
          /\ m_state[owner[v]] = UNINTERRUPTIBLE /\ resubmit[owner[v]] = v
          /\ m_pending_count[v] = 0 \/ waking = v
      BY <3>1 DEF MessageInv, OwnerWaits
    <3>3. owner[v] # t
      BY <1>2, <3>2, MessageTypes
    <3> QED
      BY <1>1, <3>1, <3>2, <3>3, MessageTypes
  <2> QED
    BY <2>1, <2>2
<1>6. PostedFirst' /\ SleepersSubmitNothing' /\ ResubmitsOwn'
  BY <1>1, <1>2, MessageTypes DEF MessageInv, PostedFirst, SleepersSubmitNothing, ResubmitsOwn
<1>7. BlockedIsFound'
  <2> SUFFICES ASSUME NEW x \in Task, m_state'[x] = UNINTERRUPTIBLE
               PROVE  resubmit'[x] # NoWindow /\ (m_wait_list'[resubmit'[x]] = <<x>> \/ WindowLost(x)')
    BY DEF BlockedIsFound
  <2>1. CASE x = t
    BY <1>1, <1>2, <1>3, <2>1, MessageTypes
  <2>2. CASE x # t
    <3>1. m_state[x] = UNINTERRUPTIBLE /\ resubmit'[x] = resubmit[x]
      BY <1>1, <1>2, <2>2, MessageTypes
    <3>2. resubmit[x] # NoWindow /\ (m_wait_list[resubmit[x]] = <<x>> \/ WindowLost(x))
      BY <3>1 DEF MessageInv, BlockedIsFound
    <3>3. m_wait_list[w] = <<>>
      BY <1>1, NobodyWaits DEF t
    <3>4. resubmit[x] = w => WindowLost(x)
      <4>1. <<x>> # <<>>
        OBVIOUS
      <4> QED
        BY <3>2, <3>3, <4>1
    <3> QED
      BY <1>1, <1>3, <3>1, <3>2, <3>4, MessageTypes DEF WindowLost
  <2> QED
    BY <2>1, <2>2
<1>8. WokenFindsMessage'
  BY <1>1, <1>2, MessageTypes DEF MessageInv, WokenFindsMessage, WindowLost
<1> QED
  BY <1>5, <1>6, <1>7, <1>8 DEF MessageInv

\* The owner takes a message: nobody else counted on it.
LEMMA TakeMessages ==
  ASSUME Parts, MessageInv, NEW w \in Window, UserMode, owner[w] = m_current_task,
         ~is_empty(w), dequeue(w), resubmit' = [resubmit EXCEPT ![m_current_task] = NoWindow],
         UNCHANGED <<m_state, m_wait_list, owner, waking>>
  PROVE  MessageInv'
<1> DEFINE t == m_current_task
<1>1. t \in Task /\ m_state[t] = RUNNING /\ waking = NoWindow /\ m_wait_list[w] = <<>>
  BY UserModeFacts, NobodyWaits
<1>2. /\ m_pending_count' \in [Window -> Int]
      /\ \A v \in Window : v # w => m_pending_count'[v] = m_pending_count[v]
  BY MessageTypes DEF dequeue
<1>3. OwnerWaits' /\ PostedFirst' /\ SleepersSubmitNothing' /\ ResubmitsOwn'
  BY <1>1, <1>2, MessageTypes DEF MessageInv, OwnerWaits, PostedFirst, SleepersSubmitNothing, ResubmitsOwn
<1>4. BlockedIsFound'
  BY <1>1, MessageTypes DEF MessageInv, BlockedIsFound, WindowLost
<1>5. WokenFindsMessage'
  <2> SUFFICES ASSUME NEW x \in Task, m_state[x] = RUNNING, resubmit'[x] # NoWindow
               PROVE  m_pending_count'[resubmit'[x]] > 0 \/ WindowLost(x)'
    BY DEF WokenFindsMessage
  <2>1. x # t /\ resubmit'[x] = resubmit[x] /\ resubmit[x] \in Window
    BY <1>1, MessageTypes
  <2>2. CASE resubmit[x] = w
    BY <2>1, <2>2 DEF MessageInv, ResubmitsOwn, WindowLost
  <2>3. CASE resubmit[x] # w
    BY <1>2, <2>1, <2>3 DEF MessageInv, WokenFindsMessage, WindowLost
  <2> QED
    BY <2>2, <2>3
<1> QED
  BY <1>3, <1>4, <1>5 DEF MessageInv

\* SYS_WAIT_MSG and SYS_POLL_MSG.
LEMMA WaitOrPollMessages ==
  ASSUME Parts, MessageInv, NEW w \in Window, SysWaitMsg(w) \/ SysPollMsg(w)
  PROVE  MessageInv'
<1>1. CASE SysWaitMsg(w) /\ is_empty(w)
  BY <1>1, BlockMessages
<1>2. CASE SysWaitMsg(w) /\ ~is_empty(w)
  <2>1. /\ UserMode /\ owner[w] = m_current_task /\ dequeue(w)
        /\ resubmit' = [resubmit EXCEPT ![m_current_task] = NoWindow]
        /\ UNCHANGED <<m_state, m_wait_list, owner, waking>>
    BY <1>2 DEF SysWaitMsg, schedVars
  <2> QED
    BY <1>2, <2>1, TakeMessages
<1>3. CASE SysPollMsg(w)
  <2>1. /\ UserMode /\ owner[w] = m_current_task /\ dequeue(w) /\ ~is_empty(w)
        /\ resubmit[m_current_task] = NoWindow /\ resubmit' = resubmit
        /\ UNCHANGED <<m_state, m_wait_list, owner, waking>>
    BY <1>3 DEF SysPollMsg, InSyscall, schedVars
  <2>2. resubmit' = [resubmit EXCEPT ![m_current_task] = NoWindow]
    BY <2>1, MessageTypes
  <2> QED
    BY <2>1, <2>2, TakeMessages
<1> QED
  BY <1>1, <1>2, <1>3

\* A new window has no queue, no wait list and nobody who waits for its messages.
LEMMA CreateMessages ==
  ASSUME Parts, MessageInv, NEW w \in Window, SysWindowCreate(w)
  PROVE  MessageInv'
<1> DEFINE t == m_current_task
<1>1. /\ UserMode /\ resubmit[t] = NoWindow /\ owner[w] = NoTask
      /\ owner' = [owner EXCEPT ![w] = t]
      /\ UNCHANGED <<m_state, m_pending_count, m_wait_list, resubmit, waking>>
  BY DEF SysWindowCreate, InSyscall, schedVars
<1>2. t \in Task /\ m_state[t] = RUNNING
  BY <1>1, UserModeFacts
<1>3. m_wait_list[w] = <<>>
  BY <1>1, MessageTypes DEF MessageInv, OwnerWaits
<1> HIDE DEF t
<1>4. OwnerWaits' /\ PostedFirst' /\ SleepersSubmitNothing'
  BY <1>1, <1>2, <1>3, MessageTypes DEF MessageInv, OwnerWaits, PostedFirst, SleepersSubmitNothing
<1>5. ResubmitsOwn'
  BY <1>1, <1>2, MessageTypes DEF MessageInv, ResubmitsOwn
<1>6. BlockedIsFound' /\ WokenFindsMessage'
  BY <1>1, <1>2, <1>3, MessageTypes DEF MessageInv, BlockedIsFound, WokenFindsMessage, WindowLost
<1> QED
  BY <1>4, <1>5, <1>6 DEF MessageInv

\* enqueue() on a queue somebody waits for is never refused, and its wake_all() follows.
LEMMA PostMessages ==
  ASSUME Parts, MessageInv, NEW w \in Window, PostMessage(w)
  PROVE  MessageInv'
<1>1. /\ waking = NoWindow
      /\ waking' = IF is_full(w) \/ m_wait_list[w] = <<>> THEN NoWindow ELSE w
      /\ UNCHANGED <<m_state, m_wait_list, owner, resubmit>>
  BY DEF PostMessage, schedVars
<1>2. /\ m_pending_count'[w] > 0
      /\ \A v \in Window : m_pending_count'[v] >= m_pending_count[v] /\ m_pending_count'[v] \in Nat
      /\ \A v \in Window : v # w => m_pending_count'[v] = m_pending_count[v]
  BY MessageTypes, MaxPendingAssumption DEF PostMessage, enqueue, is_full
<1>3. m_wait_list[w] # <<>> => waking' = w
  BY <1>1, MaxPendingAssumption, MessageTypes DEF MessageInv, OwnerWaits, is_full
<1>4. OwnerWaits'
  BY <1>1, <1>2, <1>3, MessageTypes DEF MessageInv, OwnerWaits
<1>5. PostedFirst' /\ SleepersSubmitNothing' /\ ResubmitsOwn' /\ BlockedIsFound'
  BY <1>1, <1>2
  DEF MessageInv, PostedFirst, SleepersSubmitNothing, ResubmitsOwn, BlockedIsFound, WindowLost
<1>6. WokenFindsMessage'
  BY <1>1, <1>2, MessageTypes DEF MessageInv, WokenFindsMessage, WindowLost
<1> QED
  BY <1>4, <1>5, <1>6 DEF MessageInv

\* The task that wake_all() wakes is the owner, and its message is there.
LEMMA WakeWaiterMessages == ASSUME Parts, MessageInv, WakeWaiter PROVE MessageInv'
<1> DEFINE w == waking
           t == owner[w]
<1>1. /\ w # NoWindow
      /\ IF is_terminated(Head(m_wait_list[w])) THEN UNCHANGED schedVars ELSE wake_task(Head(m_wait_list[w]))
      /\ m_wait_list' = [m_wait_list EXCEPT ![w] = Tail(@)]
      /\ waking' = IF Len(m_wait_list[w]) = 1 THEN NoWindow ELSE w
      /\ UNCHANGED <<m_pending_count, owner, resubmit>>
  BY DEF WakeWaiter, wait_list_next
<1>2. w \in Window /\ m_wait_list[w] # <<>>
  BY <1>1 DEF Parts, OtherTypes, HandlerState
<1>3. /\ m_wait_list[w] = <<t>> /\ t \in Task /\ m_state[t] = UNINTERRUPTIBLE
      /\ resubmit[t] = w /\ m_pending_count[w] > 0
  BY <1>1, <1>2 DEF MessageInv, OwnerWaits, PostedFirst
<1> HIDE DEF t
<1>4. Head(<<t>>) = t /\ Tail(<<t>>) = <<>> /\ Len(<<t>>) = 1
  BY <1>3
<1>5. /\ m_state' = [m_state EXCEPT ![t] = RUNNING]
      /\ m_wait_list' = [m_wait_list EXCEPT ![w] = <<>>]
      /\ waking' = NoWindow
  <2>1. wake_task(t)
    BY <1>1, <1>3, <1>4, MessageTypes DEF is_terminated
  <2>2. m_state' = [m_state EXCEPT ![t] = RUNNING]
    BY <1>3, <2>1, MessageTypes, WakeTaskStates
  <2> QED
    BY <1>1, <1>3, <1>4, <2>2
<1>6. OwnerWaits'
  <2> SUFFICES ASSUME NEW v \in Window, m_wait_list'[v] # <<>>
               PROVE  /\ m_wait_list'[v] = <<owner[v]>> /\ owner[v] \in Task
                      /\ m_state'[owner[v]] = UNINTERRUPTIBLE /\ resubmit[owner[v]] = v
                      /\ m_pending_count[v] = 0 \/ waking' = v
    BY <1>1 DEF OwnerWaits
  <2>1. v # w /\ m_wait_list'[v] = m_wait_list[v]
    BY <1>2, <1>5, MessageTypes
  <2>2. /\ m_wait_list[v] = <<owner[v]>> /\ owner[v] \in Task
        /\ m_state[owner[v]] = UNINTERRUPTIBLE /\ resubmit[owner[v]] = v
        /\ m_pending_count[v] = 0
    BY <2>1 DEF MessageInv, OwnerWaits
  <2>3. owner[v] # t
    BY <1>3, <2>1, <2>2
  <2> QED
    BY <1>3, <1>5, <2>1, <2>2, <2>3, MessageTypes
<1>7. PostedFirst' /\ SleepersSubmitNothing' /\ ResubmitsOwn'
  BY <1>1, <1>3, <1>5, MessageTypes DEF MessageInv, PostedFirst, SleepersSubmitNothing, ResubmitsOwn
<1>8. BlockedIsFound'
  <2> SUFFICES ASSUME NEW x \in Task, m_state'[x] = UNINTERRUPTIBLE
               PROVE  resubmit[x] # NoWindow /\ (m_wait_list'[resubmit[x]] = <<x>> \/ WindowLost(x)')
    BY <1>1 DEF BlockedIsFound
  <2>1. x # t /\ m_state[x] = UNINTERRUPTIBLE
    BY <1>3, <1>5, MessageTypes
  <2>2. resubmit[x] # NoWindow /\ (m_wait_list[resubmit[x]] = <<x>> \/ WindowLost(x))
    BY <2>1 DEF MessageInv, BlockedIsFound
  <2>3. resubmit[x] = w => WindowLost(x)
    <3>1. <<x>> # <<t>>
      BY <2>1
    <3> QED
      BY <1>3, <2>2, <3>1
  <2> QED
    BY <1>1, <1>2, <1>5, <2>2, <2>3, MessageTypes DEF WindowLost
<1>9. WokenFindsMessage'
  BY <1>1, <1>3, <1>5, MessageTypes DEF MessageInv, WokenFindsMessage, WindowLost
<1> QED
  BY <1>6, <1>7, <1>8, <1>9 DEF MessageInv

\* The end of a kill: a window is lost by a living task only if the walk left its list.
LEMMA KillDoneMessages == ASSUME Parts, MessageInv, KillDone PROVE MessageInv'
<1>1. PICK D \in destroyed_windows :
        /\ owner' = [w \in Window |-> IF w \in D THEN NoTask ELSE owner[w]]
        /\ m_pending_count' = [w \in Window |-> IF w \in D THEN 0 ELSE m_pending_count[w]]
        /\ m_wait_list' = [w \in Window |-> IF w \in D THEN <<>> ELSE m_wait_list[w]]
  BY DEF KillDone
<1>2. D \subseteq Window /\ (FreedNodeReused \/ \A w \in D : owner[w] = dying)
  BY FreedNodeReusedAssumption DEF destroyed_windows
<1>3. dying \in Task /\ m_state[dying] = RUNNING
  BY DEF KillDone, Parts, HandlerState, SchedOK
<1>4. /\ m_state' = [m_state EXCEPT ![dying] = TERMINATED]
      /\ resubmit' = [resubmit EXCEPT ![dying] = NoWindow]
      /\ waking = NoWindow /\ waking' = waking
  BY MessageTypes DEF KillDone, killed_children
<1>5. OwnerWaits'
  BY <1>1, <1>3, <1>4, MessageTypes DEF MessageInv, OwnerWaits
<1>6. PostedFirst' /\ SleepersSubmitNothing'
  BY <1>3, <1>4, MessageTypes DEF MessageInv, PostedFirst, SleepersSubmitNothing
<1>7. ResubmitsOwn'
  BY <1>1, <1>2, <1>3, <1>4, MessageTypes DEF MessageInv, ResubmitsOwn
<1>8. ASSUME NEW x \in Task, x # dying, resubmit[x] \in D PROVE WindowLost(x)'
  <2>1. owner'[resubmit[x]] = NoTask /\ resubmit'[x] = resubmit[x] /\ resubmit[x] \in Window
    BY <1>1, <1>2, <1>3, <1>4, <1>8, MessageTypes
  <2>2. FreedNodeReused
    BY <1>2, <1>8, <2>1, MessageTypes DEF MessageInv, ResubmitsOwn
  <2> QED
    BY <2>1, <2>2, MessageTypes DEF WindowLost
<1>9. ASSUME NEW x \in Task, x # dying, resubmit[x] \notin D, resubmit[x] # NoWindow
      PROVE  /\ m_wait_list'[resubmit[x]] = m_wait_list[resubmit[x]]
             /\ m_pending_count'[resubmit[x]] = m_pending_count[resubmit[x]]
             /\ WindowLost(x)' <=> WindowLost(x)
  BY <1>1, <1>3, <1>4, <1>9, MessageTypes DEF WindowLost
<1>10. BlockedIsFound' /\ WokenFindsMessage'
  BY <1>3, <1>4, <1>8, <1>9, MessageTypes DEF MessageInv, BlockedIsFound, WokenFindsMessage
<1> QED
  BY <1>5, <1>6, <1>7, <1>10 DEF MessageInv

\* Every handler keeps it.
LEMMA NextMessages == ASSUME Parts, MessageInv, [Next]_vars PROVE MessageInv'
<1>1. CASE WaitSome
  BY <1>1, WaitMsgRefusedMessages, WaitOrPollMessages DEF WaitSome
<1>2. CASE PollSome
  BY <1>2, WaitOrPollMessages DEF PollSome
<1>3. CASE CreateSome
  BY <1>3, CreateMessages DEF CreateSome
<1>4. CASE PostSome
  BY <1>4, PostMessages DEF PostSome
<1>5. CASE WakeWaiter
  BY <1>5, WakeWaiterMessages
<1>6. CASE KillDone
  BY <1>6, KillDoneMessages
<1>7. CASE \/ SysYield \/ SleepSome \/ SetSomePriority \/ SpawnSome \/ ExplorerSome
           \/ SysWindowUpdate \/ SysExit \/ UserFault \/ InputInterrupt \/ WindowManagerDone
           \/ TimerInterrupt \/ WakeSleeper \/ SchedulerTick
  BY <1>7, OtherHandlersMessages
<1>8. CASE UNCHANGED vars
  <2>1. UNCHANGED <<windowVars, resubmit, waking>> /\ m_state' = m_state
    BY <1>8 DEF vars, schedVars
  <2> QED
    BY <2>1, QuietMessages DEF Parts
<1> QED
  BY <1>1, <1>2, <1>3, <1>4, <1>5, <1>6, <1>7, <1>8 DEF Next

\* The wait lists, the message counts and the system calls to resubmit stay consistent.
LEMMA MessagesCorrect == Spec => []MessageInv
<1>1. Init => Parts /\ MessageInv
  BY InitParts, InitMessages
<1>2. Parts /\ MessageInv /\ [Next]_vars => (Parts /\ MessageInv)'
  BY NextParts, StutterParts, NextMessages
<1> QED
  BY <1>1, <1>2, PTL DEF Spec

\* A task blocked in SYS_WAIT_MSG is in the wait list of its own window, whose queue is empty, so
\* that the next message finds it.
THEOREM NoWakeupIsLost == Spec => []NoLostWakeup
<1>1. IInv /\ MessageInv => NoLostWakeup
  <2> SUFFICES ASSUME IInv, MessageInv PROVE NoLostWakeup
    OBVIOUS
  <2>1. Parts
    BY PartsOfIInv
  <2>2. ASSUME NEW w \in Window, m_wait_list[w] # <<>>, NEW i \in 1 .. Len(m_wait_list[w])
        PROVE  resubmit[m_wait_list[w][i]] = w
    <3>1. m_wait_list[w] = <<owner[w]>> /\ resubmit[owner[w]] = w
      BY <2>2 DEF MessageInv, OwnerWaits
    <3>2. i = 1
      BY <2>2, <3>1
    <3> QED
      BY <3>1, <3>2
  <2> QED
    BY <2>2 DEF MessageInv, OwnerWaits, BlockedIsFound, NoLostWakeup
<1> QED
  BY <1>1, Invariance, MessagesCorrect, PTL

\* A task woken out of SYS_WAIT_MSG finds its message when the call is resubmitted.
THEOREM WokenTaskHasMessage == Spec => []WokenFindsMessage
<1>1. MessageInv => WokenFindsMessage
  BY DEF MessageInv
<1> QED
  BY <1>1, MessagesCorrect, PTL
-----------------------------------------------------------------------------
\* The refinement mapping's value for status.
status == [t \in Task |-> life_status(t)]

\* A TERMINATED task stays TERMINATED.
TerminatedKept == \A t \in Task : m_state[t] = TERMINATED => m_state'[t] = TERMINATED

\* What a step of the process core has to be, for both theorems on the life cycle.
LifeStep == Life!Next /\ TerminatedKept

\* The four states of a task are different.
LEMMA StatesDiffer ==
  /\ RUNNING # INTERRUPTIBLE /\ RUNNING # UNINTERRUPTIBLE /\ RUNNING # TERMINATED
  /\ INTERRUPTIBLE # UNINTERRUPTIBLE /\ INTERRUPTIBLE # TERMINATED /\ UNINTERRUPTIBLE # TERMINATED
  BY DEF RUNNING, INTERRUPTIBLE, UNINTERRUPTIBLE, TERMINATED

\* The task that is current after a step is runnable then.
LEMMA HolderRunnable ==
  ASSUME Parts'
  PROVE  m_current_task' \in Task /\ status'[m_current_task'] = "runnable"
<1>1. m_current_task' \in Task
  BY DEF Parts, SchedOK, SchedTypeOK, InitAlive
<1>2. m_state'[m_current_task'] = RUNNING /\ m_current_task' # dying'
  BY <1>1 DEF Parts, SchedOK, Queues
<1>3. ~(m_current_task' >= m_next_available_pid')
  BY <1>1, <1>2, StatesDiffer DEF Parts, FreshTasks
<1> QED
  BY <1>1, <1>2, <1>3, StatesDiffer DEF status, life_status

\* A step that changes no status gives the CPU to a runnable task.
LEMMA SameStatus ==
  ASSUME Parts', \A t \in Task : life_status(t)' = life_status(t), TerminatedKept
  PROVE  LifeStep
<1>1. status' = status
  BY DEF status
<1>2. m_current_task' \in Task /\ status[m_current_task'] = "runnable"
  BY <1>1, HolderRunnable
<1>3. Life!Dispatch
  BY <1>1, <1>2 DEF Life!Dispatch, Life!Runnable, status
<1> QED
  BY <1>3 DEF Life!Next, LifeStep

\* A step in which the current task blocks or dies leaves the CPU to another runnable task.
LEMMA HolderLeaves ==
  ASSUME Parts', m_current_task \in Task, NEW s \in {"blocked", "dead"},
         \A t \in Task : life_status(t)' = IF t = m_current_task THEN s ELSE life_status(t),
         TerminatedKept
  PROVE  LifeStep
<1>1. status' = [status EXCEPT ![m_current_task] = s]
  BY DEF status
<1>2. /\ m_current_task' \in Task /\ m_current_task' # m_current_task
      /\ status[m_current_task'] = "runnable"
  BY <1>1, HolderRunnable DEF status
<1>3. Life!Leave
  BY <1>1, <1>2 DEF Life!Leave, Life!Runnable, status
<1> QED
  BY <1>3 DEF Life!Next, LifeStep

\* A step in which one other task is created or woken.
LEMMA OtherTaskStep ==
  ASSUME NEW t \in Task, m_current_task' = m_current_task,
         \/ life_status(t) = "absent" /\ life_status(t)' \in {"blocked", "runnable"}
         \/ life_status(t) = "blocked" /\ life_status(t)' = "runnable",
         \A u \in Task : u # t => life_status(u)' = life_status(u),
         TerminatedKept
  PROVE  LifeStep
<1>1. status' = [status EXCEPT ![t] = life_status(t)']
  BY DEF status
<1>2. Life!Create(t) \/ Life!Unblock(t)
  BY <1>1 DEF Life!Create, Life!Unblock, status
<1> QED
  BY <1>2 DEF Life!Next, LifeStep

\* A blocked task is woken.
LEMMA WokenStep ==
  ASSUME NEW t \in Task, m_current_task' = m_current_task,
         m_state[t] \in {INTERRUPTIBLE, UNINTERRUPTIBLE}, t # dying, ~(t >= m_next_available_pid),
         m_state' = [m_state EXCEPT ![t] = RUNNING], m_state \in [Task -> State],
         dying' = dying, m_next_available_pid' = m_next_available_pid
  PROVE  LifeStep
<1>1. life_status(t) = "blocked" /\ life_status(t)' = "runnable"
  BY StatesDiffer DEF life_status
<1>2. \A u \in Task : u # t => life_status(u)' = life_status(u)
  BY DEF life_status
<1>3. TerminatedKept
  BY StatesDiffer DEF TerminatedKept
<1> QED
  BY <1>1, <1>2, <1>3, OtherTaskStep
-----------------------------------------------------------------------------
\* The handlers that touch the state of no task.
LEMMA QuietStep ==
  ASSUME Parts', UNCHANGED <<m_state, dying, m_next_available_pid>>
  PROVE  LifeStep
<1>1. \A t \in Task : life_status(t)' = life_status(t)
  BY DEF life_status
<1> QED
  BY <1>1, SameStatus DEF TerminatedKept

\* sleep_task() and pause_task() block the current task.
LEMMA BlockStep ==
  ASSUME Parts, Parts', UserMode, NEW s \in {INTERRUPTIBLE, UNINTERRUPTIBLE}, block(m_current_task, s),
         UNCHANGED <<dying, m_next_available_pid>>
  PROVE  LifeStep
<1>1. m_current_task \in Task /\ m_state[m_current_task] = RUNNING /\ dying = NoTask
  BY UserModeFacts
<1>2. m_state \in [Task -> State] /\ m_state' = [m_state EXCEPT ![m_current_task] = s]
  BY DEF Parts, SchedOK, SchedTypeOK, block
<1>3. ~(m_current_task >= m_next_available_pid)
  BY <1>1, StatesDiffer DEF Parts, FreshTasks
<1>4. \A t \in Task : life_status(t)' = IF t = m_current_task THEN "blocked" ELSE life_status(t)
  BY <1>1, <1>2, <1>3, NoTaskIsNone, StatesDiffer DEF life_status
<1>5. TerminatedKept
  BY <1>1, <1>2, StatesDiffer DEF TerminatedKept
<1> QED
  BY <1>1, <1>4, <1>5, HolderLeaves

\* kill_task() takes the current task off the CPU.
LEMMA KillStep ==
  ASSUME Parts, Parts', UserMode, NEW ph, kill_task(ph)
  PROVE  LifeStep
<1>1. m_current_task \in Task /\ m_state[m_current_task] = RUNNING /\ dying = NoTask
  BY UserModeFacts
<1>2. UNCHANGED <<m_state, m_next_available_pid>> /\ dying' = m_current_task
  BY DEF kill_task, taskVars
<1>3. ~(m_current_task >= m_next_available_pid)
  BY <1>1, StatesDiffer DEF Parts, FreshTasks
<1>4. \A t \in Task : life_status(t)' = IF t = m_current_task THEN "dead" ELSE life_status(t)
  BY <1>1, <1>2, <1>3, NoTaskIsNone DEF life_status
<1> QED
  BY <1>1, <1>2, <1>4, HolderLeaves DEF TerminatedKept

\* kill_task() ends: the task that counted as dead already becomes TERMINATED.
LEMMA KillDoneLife == ASSUME Parts, Parts', KillDone PROVE LifeStep
<1>1. dying \in Task
  BY DEF KillDone, Parts, HandlerState, SchedOK
<1>2. /\ m_state' = [t \in Task |->
                       IF t = dying \/ t \in killed_children(dying) THEN TERMINATED ELSE m_state[t]]
      /\ dying' = NoTask /\ m_next_available_pid' = m_next_available_pid
  BY DEF KillDone, taskVars
<1>3. \A t \in Task : life_status(t)' = life_status(t)
  BY <1>1, <1>2, NoTaskIsNone DEF life_status, killed_children
<1>4. TerminatedKept
  BY <1>2 DEF TerminatedKept
<1> QED
  BY <1>3, <1>4, SameStatus

\* create_task(): a new task appears, started or not.
LEMMA CreateLife ==
  ASSUME Parts, Parts', NEW parent, NEW mapped \in BOOLEAN, create_task(parent, mapped),
         dying = NoTask
  PROVE  LifeStep
<1>0. m_next_available_pid \in Task
  BY MaxTasksAssumption DEF create_task, Parts, OtherTypes, Task
<1> PICK t \in Task : t = m_next_available_pid
  BY <1>0
<1>1. /\ m_next_available_pid' = t + 1 /\ dying' = dying
      /\ IF mapped THEN wake_task(t) ELSE UNCHANGED schedVars
  BY DEF create_task
<1>2. t \in Task /\ m_state \in [Task -> State] /\ SchedOK
  BY DEF Parts, SchedOK, SchedTypeOK
<1>3. m_state[t] = INTERRUPTIBLE
  BY <1>2 DEF Parts, FreshTasks, Task
<1>4. /\ m_current_task' = m_current_task
      /\ m_state' = IF mapped THEN [m_state EXCEPT ![t] = RUNNING] ELSE m_state
  BY <1>1, <1>2, WakeTask DEF schedVars
<1>5. t # dying /\ ~(t >= t + 1) /\ t >= t
  BY <1>2, NoTaskIsNone DEF Task
<1>6. life_status(t) = "absent" /\ life_status(t)' \in {"blocked", "runnable"}
  BY <1>1, <1>2, <1>3, <1>4, <1>5, StatesDiffer DEF life_status
<1>7. \A u \in Task : u # t => (u >= t <=> u >= t + 1)
  BY <1>2 DEF Task
<1>8. \A u \in Task : u # t => life_status(u)' = life_status(u)
  BY <1>1, <1>2, <1>4, <1>7 DEF life_status
<1>9. TerminatedKept
  BY <1>2, <1>3, <1>4, StatesDiffer DEF TerminatedKept
<1> QED
  BY <1>2, <1>4, <1>6, <1>8, <1>9, OtherTaskStep

\* wake_all() wakes a task that waits for a message.
LEMMA WakeWaiterLife == ASSUME Parts, Parts', WakeWaiter PROVE LifeStep
<1> DEFINE q == m_wait_list[waking]
           t == Head(q)
<1>1. /\ waking # NoWindow /\ UNCHANGED <<m_next_available_pid, dying>>
      /\ IF is_terminated(t) THEN UNCHANGED schedVars ELSE wake_task(t)
  BY DEF WakeWaiter, taskVars
<1>2. q \in Seq(Task) /\ q # <<>> /\ waking \in Window
  BY <1>1 DEF Parts, OtherTypes, HandlerState
<1>3. t \in Task /\ t = q[1] /\ 1 \in 1 .. Len(q)
  <2> HIDE DEF q
  <2> QED
    BY <1>2, EmptySeq, HeadTailProperties
<1>4. m_state[t] = UNINTERRUPTIBLE
  BY <1>2, <1>3 DEF Parts, WaitersBlocked
<1>5. wake_task(t)
  BY <1>1, <1>4, StatesDiffer DEF is_terminated
<1> HIDE DEF t
<1>6. m_current_task' = m_current_task /\ m_state' = [m_state EXCEPT ![t] = RUNNING]
  BY <1>1, <1>3, <1>5, WakeTask DEF Parts, HandlerState
<1>7. m_state \in [Task -> State] /\ t # dying /\ ~(t >= m_next_available_pid)
  BY <1>3, <1>4, StatesDiffer, NoTaskIsNone DEF Parts, SchedOK, SchedTypeOK, HandlerState, FreshTasks
<1> QED
  BY <1>1, <1>3, <1>4, <1>6, <1>7, WokenStep

\* DeltaQueue::tick() wakes a task that is due.
LEMMA WakeSleeperLife == ASSUME Parts, Parts', WakeSleeper PROVE LifeStep
<1> DEFINE t == m_items[1].task
<1>1. delta_due /\ wake_task(t) /\ UNCHANGED <<m_next_available_pid, dying>>
  BY DEF WakeSleeper, taskVars
<1>2. 1 \in 1 .. Len(m_items) /\ t \in Task
  BY <1>1, SleepersAreTasks, EmptySeq DEF Parts, delta_due
<1>3. t \in sleepers /\ m_state[t] = INTERRUPTIBLE
  BY <1>2 DEF Parts, SleepersAsleep, sleepers
<1> HIDE DEF t
<1>4. m_current_task' = m_current_task /\ m_state' = [m_state EXCEPT ![t] = RUNNING]
  BY <1>1, <1>2, WakeTask DEF Parts, HandlerState
<1>5. m_state \in [Task -> State] /\ t # dying /\ ~(t >= m_next_available_pid)
  BY <1>2, <1>3, StatesDiffer, NoTaskIsNone DEF Parts, SchedOK, SchedTypeOK, HandlerState, FreshTasks
<1> QED
  BY <1>1, <1>2, <1>3, <1>4, <1>5, WokenStep

\* Every handler takes a step of the life cycle.
LEMMA NextLife == ASSUME Parts, Parts', Next PROVE LifeStep
<1>1. CASE SysYield \/ SetSomePriority \/ WaitMsgRefused \/ PollSome \/ CreateSome
  BY <1>1, QuietStep DEF SysYield, SetSomePriority, SysSetPriority, WaitMsgRefused, PollSome,
     SysPollMsg, CreateSome, SysWindowCreate, schedVars, taskVars
<1>2. CASE SysWindowUpdate \/ InputInterrupt \/ PostSome \/ WindowManagerDone
  BY <1>2, QuietStep DEF SysWindowUpdate, InputInterrupt, PostSome, PostMessage, WindowManagerDone,
     schedVars, taskVars
<1>3. CASE TimerInterrupt \/ SchedulerTick
  BY <1>3, QuietStep DEF TimerInterrupt, SchedulerTick, schedVars, taskVars
<1>4. CASE SleepSome
  <2>1. UserMode /\ block(m_current_task, INTERRUPTIBLE) /\ UNCHANGED <<dying, m_next_available_pid>>
    BY <1>4 DEF SleepSome, SysSleep, InSyscall, taskVars
  <2> QED
    BY <2>1, BlockStep
<1>5. ASSUME NEW w \in Window, SysWaitMsg(w)
      PROVE  LifeStep
  <2>1. UserMode /\ UNCHANGED <<dying, m_next_available_pid>>
    BY <1>5 DEF SysWaitMsg, taskVars
  <2>2. block(m_current_task, UNINTERRUPTIBLE) \/ UNCHANGED m_state
    BY <1>5 DEF SysWaitMsg, schedVars
  <2> QED
    BY <2>1, <2>2, BlockStep, QuietStep
<1>6. CASE SpawnSome \/ ExplorerSome
  <2>1. UserMode
    BY <1>6 DEF SpawnSome, ExplorerSome, SysSpawn, SpawnExplorer, InSyscall
  <2>2. PICK mapped \in BOOLEAN : \E parent : create_task(parent, mapped)
    BY <1>6 DEF SpawnSome, ExplorerSome, SysSpawn, SpawnExplorer
  <2> QED
    BY <2>1, <2>2, UserModeFacts, CreateLife
<1>7. CASE SysExit \/ UserFault
  BY <1>7, KillStep DEF SysExit, UserFault, InSyscall
<1> QED
  BY <1>1, <1>2, <1>3, <1>4, <1>5, <1>6, <1>7, KillDoneLife, WakeWaiterLife, WakeSleeperLife
     DEF Next, WaitSome

\* The handlers together implement the life cycle of tasks, and never leave the CPU to nobody.
THEOREM ImplementsLifecycle == Spec => LifeSpec
<1>1. Init => Life!Init
  <2> SUFFICES ASSUME Init PROVE Life!Init
    OBVIOUS
  <2>1. m_current_task = 0 /\ m_current_task \in Task /\ dying = NoTask
    BY NoTaskIsNone DEF Init, InitTask
  <2>2. \A t \in Task : life_status(t) = IF t = m_current_task THEN "runnable" ELSE "absent"
    BY <2>1, NoTaskIsNone, StatesDiffer DEF Init, InitTask, life_status, Task
  <2> QED
    BY <2>1, <2>2 DEF Life!Init
<1>2. Parts /\ Parts' /\ [Next]_vars => [Life!Next]_Life!lifeVars
  <2>1. ASSUME UNCHANGED vars
        PROVE  UNCHANGED Life!lifeVars
    BY <2>1 DEF vars, schedVars, taskVars, Life!lifeVars, life_status
  <2> QED
    BY <2>1, NextLife DEF LifeStep
<1>3. IInv => Parts
  BY PartsOfIInv
<1> QED
  BY <1>1, <1>2, <1>3, Invariance, PTL DEF Spec, LifeSpec, Life!Spec

\* A TERMINATED task never changes its state again and never gets the CPU.
THEOREM DeadTasksStayDead == Spec => DeadStaysDead
<1>1. ASSUME Parts, Parts', [Next]_vars
      PROVE  [\A t \in Task :
                m_state[t] = TERMINATED => m_state'[t] = TERMINATED /\ m_current_task' # t]_vars
  <2>1. CASE UNCHANGED vars
    BY <2>1
  <2>2. CASE Next
    <3>1. TerminatedKept
      BY <1>1, <2>2, NextLife DEF LifeStep
    <3>2. m_current_task' \in Task /\ m_state'[m_current_task'] = RUNNING
      BY <1>1 DEF Parts, SchedOK, SchedTypeOK, InitAlive, Queues
    <3> QED
      BY <3>1, <3>2, StatesDiffer DEF TerminatedKept
  <2> QED
    BY <1>1, <2>1, <2>2
<1>2. IInv => Parts
  BY PartsOfIInv
<1> QED
  BY <1>1, <1>2, Invariance, PTL DEF Spec, DeadStaysDead
-----------------------------------------------------------------------------
\* tick() from what it finds: nothing of a higher priority is left behind in the queues, and a task
\* stays on the CPU only if it has no peer that waits or time left.
LEMMA TickFair ==
  ASSUME SchedOK, m_current_task \in Task, m_priority' = m_priority, tick
  PROVE  /\ \A p \in Priority : p > m_priority[m_current_task'] => m_run_queue'[p] = <<>>
         /\ m_current_task' = m_current_task =>
              \/ m_run_queue[m_priority[m_current_task]] = <<>>
              \/ m_elapsed_ticks'[m_current_task]
                   < get_time_slice_for_priority(m_priority[m_current_task])
<1> DEFINE old == m_current_task
           c == m_priority[m_current_task]
           e == charge(m_current_task)
           slice == get_time_slice_for_priority(m_priority[m_current_task])
           higher == NonEmpty(higher_priorities)
           peers == NonEmpty(round_robin_priorities)
<1>1. /\ c \in Priority /\ get_current_priority = c /\ e \in [Task -> 0 .. TIME_SLICE]
      /\ m_run_queue \in [Priority -> Seq(Task)] /\ old \in Task /\ old # NoTask
  BY ChargeType, NoTaskIsNone DEF get_current_priority, SchedOK, SchedTypeOK
<1>2. /\ higher = {p \in Priority : p > c /\ m_run_queue[p] # <<>>}
      /\ peers = {} <=> m_run_queue[c] = <<>>
      /\ peers \subseteq {c}
  BY <1>1 DEF NonEmpty, higher_priorities, round_robin_priorities
<1>3. \/ higher # {} /\ switch_to(Highest(higher), old, e)
      \/ higher = {} /\ peers # {} /\ switch_to(Highest(peers), old, e)
      \/ higher = {} /\ (e[old] >= slice => peers = {}) /\ no_switch(old, e)
  <2>1. CASE higher # {}
    BY <2>1 DEF tick
  <2>2. CASE higher = {} /\ e[old] >= slice /\ peers # {}
    BY <1>1, <2>2 DEF tick
  <2>3. CASE higher = {} /\ ~(e[old] >= slice /\ peers # {})
    BY <2>3 DEF tick
  <2> QED
    BY <2>1, <2>2, <2>3
<1>4. slice \in Nat /\ \A x \in 0 .. TIME_SLICE : x >= slice \/ x < slice
  BY <1>1, TimeSliceAssumption DEF get_time_slice_for_priority
<1>5. Priority \subseteq Nat
  BY DEF Priority
<1> HIDE DEF higher, peers, e, c, slice, old
<1>6. ASSUME NEW p \in Priority, m_run_queue[p] # <<>>, switch_to(p, old, e), p = c \/ p > c,
             \A q \in Priority : q > p => m_run_queue[q] = <<>>
      PROVE  /\ m_current_task' # old
             /\ \A q \in Priority : q > m_priority[m_current_task'] => m_run_queue'[q] = <<>>
  <2>1. m_priority[Head(m_run_queue[p])] = p /\ Head(m_run_queue[p]) # old
    BY <1>6, HeadRunnable DEF SchedOK, old
  <2>2. /\ m_current_task' = Head(m_run_queue[p])
        /\ m_run_queue' = [[m_run_queue EXCEPT ![p] = Tail(@)] EXCEPT ![c] = Append(@, old)]
    BY <1>1, <1>6 DEF switch_to, c, old
  <2>3. ASSUME NEW q \in Priority, q > p PROVE m_run_queue'[q] = <<>>
    <3>1. q # p /\ q # c /\ m_run_queue[q] = <<>>
      BY <1>1, <1>5, <1>6, <2>3
    <3> QED
      BY <1>1, <2>2, <3>1
  <2> QED
    BY <2>1, <2>2, <2>3
<1>7. CASE higher # {} /\ switch_to(Highest(higher), old, e)
  <2>1. Highest(higher) \in higher /\ \A q \in higher : q <= Highest(higher)
    BY <1>2, <1>7, HighestIsHighest
  <2>2. ASSUME NEW q \in Priority, q > Highest(higher) PROVE m_run_queue[q] = <<>>
    <3>1. Highest(higher) \in Priority /\ Highest(higher) > c
      BY <1>2, <2>1
    <3>2. \A x \in Nat, y \in Nat, z \in Nat : x > y /\ y > z => x > z /\ ~(x <= y)
      OBVIOUS
    <3>3. q > c /\ ~(q <= Highest(higher))
      BY <1>1, <1>5, <2>2, <3>1, <3>2
    <3> QED
      BY <1>2, <2>1, <3>3
  <2>3. Highest(higher) \in Priority /\ Highest(higher) > c /\ m_run_queue[Highest(higher)] # <<>>
    BY <1>2, <2>1
  <2> QED
    BY <1>6, <1>7, <2>2, <2>3 DEF old
<1>8. CASE higher = {} /\ peers # {} /\ switch_to(Highest(peers), old, e)
  <2>1. Highest(peers) = c
    BY <1>1, <1>2, <1>8, HighestIsHighest
  <2>2. \A q \in Priority : q > c => m_run_queue[q] = <<>>
    BY <1>2, <1>8
  <2> QED
    BY <1>1, <1>2, <1>6, <1>8, <2>1, <2>2 DEF old
<1>9. CASE higher = {} /\ (e[old] >= slice => peers = {}) /\ no_switch(old, e)
  <2>1. m_current_task' = old /\ m_run_queue' = m_run_queue /\ m_elapsed_ticks' = e
    BY <1>9 DEF no_switch
  <2>2. \A q \in Priority : q > c => m_run_queue'[q] = <<>>
    BY <1>2, <1>9, <2>1
  <2>3. m_run_queue[c] = <<>> \/ e[old] < slice
    BY <1>1, <1>2, <1>4, <1>9
  <2> QED
    BY <2>1, <2>2, <2>3 DEF old, c, slice
<1> QED
  BY <1>3, <1>7, <1>8, <1>9

\* Scheduler::tick() is fair between the tasks it finds, in every state the kernel reaches.
THEOREM TicksAreFair == Spec => TickIsFair
<1>1. ASSUME Parts
      PROVE  [SchedulerTick =>
                /\ \A p \in Priority : p > m_priority[m_current_task'] => m_run_queue'[p] = <<>>
                /\ m_current_task' = m_current_task =>
                     \/ m_run_queue[m_priority[m_current_task]] = <<>>
                     \/ m_elapsed_ticks'[m_current_task]
                          < get_time_slice_for_priority(m_priority[m_current_task])]_vars
  <2> SUFFICES ASSUME SchedulerTick
               PROVE  /\ \A p \in Priority : p > m_priority[m_current_task'] => m_run_queue'[p] = <<>>
                      /\ m_current_task' = m_current_task =>
                           \/ m_run_queue[m_priority[m_current_task]] = <<>>
                           \/ m_elapsed_ticks'[m_current_task]
                                < get_time_slice_for_priority(m_priority[m_current_task])
    OBVIOUS
  <2>1. SchedOK /\ m_current_task \in Task /\ m_priority' = m_priority /\ tick
    BY <1>1 DEF SchedulerTick, Parts, SchedOK, SchedTypeOK, InitAlive
  <2> QED
    BY <2>1, TickFair
<1>2. IInv => Parts
  BY PartsOfIInv
<1> QED
  BY <1>1, <1>2, Invariance, PTL DEF TickIsFair
====
