----------------------------- MODULE Scheduler -----------------------------
(***************************************************************************)
(* The multilevel-queue scheduler of kernel/task/scheduler.cpp: one FIFO   *)
(* run queue per priority, the task that owns the CPU is in no queue.      *)
(*                                                                         *)
(* The operators below are the member functions of class Scheduler,        *)
(* written as relations between the state before and the state after the   *)
(* call. The interrupt handlers of TaskManager conjoin them with the rest  *)
(* of what the handler does. No code of the repository disables            *)
(* preemption (Task::disable_preempt has no caller), so can_preempt() is   *)
(* always true and is left out.                                            *)
(***************************************************************************)
EXTENDS Naturals, Sequences, FiniteSetsExt, SequencesExt

CONSTANTS MaxTasks,      \* process identifiers are 0 .. MaxTasks - 1 (bound on m_next_available_pid)
          MAX_PRIORITY,  \* the highest priority (MIN_PRIORITY is 0)
          TIME_SLICE     \* ticks of a time slice above the lowest priority

ASSUME MaxTasksAssumption == MaxTasks \in Nat \ {0}
ASSUME MaxPriorityAssumption == MAX_PRIORITY \in Nat
ASSUME TimeSliceAssumption == TIME_SLICE \in Nat \ {0}

Task == 0 .. MaxTasks - 1
NoTask == MaxTasks                 \* the null TaskPtr
Priority == 0 .. MAX_PRIORITY
DEFAULT_PRIORITY == MAX_PRIORITY \div 2

RUNNING == "RUNNING"
INTERRUPTIBLE == "INTERRUPTIBLE"
UNINTERRUPTIBLE == "UNINTERRUPTIBLE"
TERMINATED == "TERMINATED"
State == {RUNNING, INTERRUPTIBLE, UNINTERRUPTIBLE, TERMINATED}

VARIABLES m_run_queue,      \* one sequence of tasks per priority
          m_current_task,   \* the task being run, or NoTask
          m_state,          \* Task::m_state of every task
          m_priority,       \* Task::m_priority of every task
          m_elapsed_ticks   \* Task::m_elapsed_ticks, saturating at TIME_SLICE

schedVars == <<m_run_queue, m_current_task, m_state, m_priority, m_elapsed_ticks>>

SchedTypeOK ==
  /\ m_run_queue \in [Priority -> Seq(Task)]
  /\ m_current_task \in Task \cup {NoTask}
  /\ m_state \in [Task -> State]
  /\ m_priority \in [Task -> Priority]
  /\ m_elapsed_ticks \in [Task -> 0 .. TIME_SLICE]
-----------------------------------------------------------------------------
is_running(t) == m_state[t] = RUNNING
is_terminated(t) == m_state[t] = TERMINATED

get_time_slice_for_priority(p) == IF p = 0 THEN 1 ELSE TIME_SLICE

get_current_priority == IF m_current_task = NoTask THEN 0 ELSE m_priority[m_current_task]

\* The non-empty run queues among the priorities P.
NonEmpty(P) == {p \in P : m_run_queue[p] # <<>>}

\* The highest priority of a non-empty set of priorities.
Highest(P) == CHOOSE p \in P : \A q \in P : q <= p

\* Mutant of switch_to: the old task is not queued again.
switch_to_forgets(p, old, elapsed) ==
  /\ m_current_task' = Head(m_run_queue[p])
  /\ m_run_queue' = [m_run_queue EXCEPT ![p] = Tail(@)]
  /\ m_elapsed_ticks' = [elapsed EXCEPT ![m_current_task'] = 0]

\* Mutant of switch_to: the old task is queued in front of its peers.
switch_to_front(p, old, elapsed) ==
  LET popped == [m_run_queue EXCEPT ![p] = Tail(@)]
  IN /\ m_current_task' = Head(m_run_queue[p])
     /\ m_run_queue' = IF old = NoTask THEN popped
                       ELSE [popped EXCEPT ![m_priority[old]] = <<old>> \o @]
     /\ m_elapsed_ticks' = [elapsed EXCEPT ![m_current_task'] = 0]

(***************************************************************************)
(* switch_to(new_task) for the task popped from the run queue of priority  *)
(* p. The old task is queued again behind the tasks of its priority, the   *)
(* new one starts a time slice. `elapsed` is m_elapsed_ticks at the call.  *)
(***************************************************************************)
switch_to(p, old, elapsed) ==
  LET new == Head(m_run_queue[p])
      popped == [m_run_queue EXCEPT ![p] = Tail(@)]
  IN /\ m_current_task' = new
     /\ m_run_queue' = IF old = NoTask THEN popped
                       ELSE [popped EXCEPT ![m_priority[old]] = Append(@, old)]
     /\ m_elapsed_ticks' = [elapsed EXCEPT ![new] = 0]

\* switch_to(nullptr): nothing to switch to.
no_switch(old, elapsed) ==
  /\ m_current_task' = old
  /\ m_run_queue' = m_run_queue
  /\ m_elapsed_ticks' = elapsed

(***************************************************************************)
(* schedule(), called when the current task is `old` (remove_task clears   *)
(* m_current_task first): take the head of the highest non-empty queue.    *)
(***************************************************************************)
schedule(old) ==
  IF NonEmpty(Priority) # {}
  THEN switch_to(Highest(NonEmpty(Priority)), old, m_elapsed_ticks)
  ELSE no_switch(old, m_elapsed_ticks)

\* add_task(task): join the queue of the task's priority.
add_task(t) ==
  /\ m_run_queue' = [m_run_queue EXCEPT ![m_priority[t]] = Append(@, t)]
  /\ UNCHANGED m_current_task

\* Mutant of remove_task: the case of the current task is missing.
remove_only_queued(t) ==
  /\ m_run_queue' = [m_run_queue EXCEPT ![m_priority[t]] = RemoveFirst(@, t)]
  /\ UNCHANGED <<m_current_task, m_elapsed_ticks>>

\* remove_task(task): the current task gives the CPU up, any other is erased from its queue.
remove_task(t) ==
  IF m_current_task = t
  THEN schedule(NoTask)
  ELSE /\ m_run_queue' = [m_run_queue EXCEPT ![m_priority[t]] = RemoveFirst(@, t)]
       /\ UNCHANGED <<m_current_task, m_elapsed_ticks>>

\* update_task_priority(task, old_priority), with m_priority' already the new priorities.
update_task_priority(t, old_priority) ==
  /\ m_run_queue' =
       IF \/ m_current_task = t
          \/ m_priority'[t] = old_priority
          \/ ~Contains(m_run_queue[old_priority], t)
       THEN m_run_queue
       ELSE [m_run_queue EXCEPT ![old_priority] = RemoveFirst(@, t),
                                ![m_priority'[t]] = Append(@, t)]
  /\ UNCHANGED m_current_task

\* The tick is charged to the task that was running.
charge(old) ==
  IF old = NoTask THEN m_elapsed_ticks
  ELSE [m_elapsed_ticks EXCEPT ![old] = IF @ < TIME_SLICE THEN @ + 1 ELSE @]

higher_priorities == {p \in Priority : p > get_current_priority}

(***************************************************************************)
(* The round-robin loop of tick(): it counts i down from the current       *)
(* priority but looks at the queue of the current priority every time, so  *)
(* that queue is the only one the loop ever takes a task from.             *)
(***************************************************************************)
round_robin_priorities == {get_current_priority}

\* Mutant of tick: the time slice ends one tick late, which the saturated counter never reaches.
tick_slice_late ==
  LET old == m_current_task
      elapsed == charge(old)
      expired == old # NoTask /\ elapsed[old] > get_time_slice_for_priority(m_priority[old])
      higher == NonEmpty(higher_priorities)
      peers == NonEmpty(round_robin_priorities)
  IN CASE higher # {} -> switch_to(Highest(higher), old, elapsed)
       [] higher = {} /\ expired /\ peers # {} -> switch_to(Highest(peers), old, elapsed)
       [] OTHER -> no_switch(old, elapsed)

\* tick(): preempt for a higher priority, or at the end of the time slice.
tick ==
  LET old == m_current_task
      elapsed == charge(old)
      expired == /\ old # NoTask
                 /\ elapsed[old] >= get_time_slice_for_priority(m_priority[old])
      higher == NonEmpty(higher_priorities)
      peers == NonEmpty(round_robin_priorities)
  IN CASE higher # {} -> switch_to(Highest(higher), old, elapsed)
       [] higher = {} /\ expired /\ peers # {} -> switch_to(Highest(peers), old, elapsed)
       [] OTHER -> no_switch(old, elapsed)

\* KASSERT of switch_to: whichever queue is popped, its head is RUNNING.
switch_to_assert == \A p \in NonEmpty(Priority) : is_running(Head(m_run_queue[p]))
-----------------------------------------------------------------------------
(***************************************************************************)
(* What the run queues promise, with `dying` the task whose kill is under  *)
(* way (removed from the scheduler, not yet TERMINATED), or NoTask.        *)
(***************************************************************************)
\* A queued task is RUNNING, in the queue of its own priority, and does not also own the CPU.
QueuedTasksRunnable(dying) ==
  \A p \in Priority : \A i \in 1 .. Len(m_run_queue[p]) :
    LET t == m_run_queue[p][i]
    IN m_state[t] = RUNNING /\ m_priority[t] = p /\ t # m_current_task /\ t # dying

\* No task is queued twice.
QueuedOnce ==
  \A p \in Priority : \A i, j \in 1 .. Len(m_run_queue[p]) :
    m_run_queue[p][i] = m_run_queue[p][j] => i = j

\* The task that owns the CPU is RUNNING.
CurrentRunnable(dying) ==
  m_current_task # NoTask => m_state[m_current_task] = RUNNING /\ m_current_task # dying

\* No RUNNING task is lost: it owns the CPU or waits in the queue of its priority.
NoTaskLost(dying) ==
  \A t \in Task :
    m_state[t] = RUNNING =>
      \/ t = m_current_task
      \/ t = dying
      \/ \E i \in 1 .. Len(m_run_queue[m_priority[t]]) : m_run_queue[m_priority[t]][i] = t
=============================================================================
