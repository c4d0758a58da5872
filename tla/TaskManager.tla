---------------------------- MODULE TaskManager ----------------------------
(***************************************************************************)
(* The process core of the kernel: the tasks and their life cycle          *)
(* (kernel/task/task_manager.cpp), scheduled by Scheduler, put to sleep in *)
(* DeltaQueue and blocked on the message queues of MessageQueue, driven by *)
(* the exceptions of kernel/hardware/interrupts.cpp.                       *)
(*                                                                         *)
(* There is one core and every exception handler runs with interrupts      *)
(* masked, so a handler is never interleaved with another one. A handler   *)
(* that is straight-line code is one action. A handler that loops over     *)
(* tasks to wake is one action per iteration: `phase` says which handler   *)
(* is under way, and while it is not "user" only its own actions are       *)
(* enabled. The last action of every handler includes the destructor of    *)
(* ContextSwitcher (return_from_exception).                                *)
(***************************************************************************)
EXTENDS Scheduler, DeltaQueue, MessageQueue

CONSTANTS MaxSleepTicks,   \* bound: the longest sleep, in ticks
          FreedNodeReused  \* may kmalloc() hand a freed list node out again while free_resources()
                           \* still walks over it?

ASSUME MaxSleepTicksAssumption == MaxSleepTicks \in Nat \ {0}
ASSUME FreedNodeReusedAssumption == FreedNodeReused \in BOOLEAN

VARIABLES m_next_available_pid,  \* identifiers handed out so far; m_tasks holds 0 .. this - 1
          m_parent,              \* Task::m_parent, or NoTask
          owner,                 \* the task whose m_windows holds the window, or NoTask
          resubmit,              \* the window whose wait_msg the saved pc of a task stepped back to
          phase,                 \* the handler under way
          dying,                 \* the task kill_task() is freeing the resources of, or NoTask
          waking,                \* the window whose wait list wake_all() is walking, or NoWindow
          cpu,                   \* the task whose registers are on the CPU
          panic                  \* why the kernel has panicked, or "none"

taskVars == <<m_next_available_pid, m_parent>>
windowVars == <<m_pending_count, m_wait_list, owner>>
vars == <<schedVars, m_items, windowVars, taskVars, resubmit, phase, dying, waking, cpu, panic>>

Phase == {"user",    \* the current task runs at EL0
          "tick",    \* timer interrupt: in the wake-up loop of DeltaQueue::tick
          "wm",      \* in the window manager, posting messages
          "exit",    \* SYS_EXIT: kill_task() is freeing the task's resources
          "fault"}   \* the same, for a task killed because of a fault

InitTask == 0
m_tasks == {t \in Task : t < m_next_available_pid}

TypeOK ==
  /\ SchedTypeOK
  /\ m_items \in Seq([task : Task, remaining_ticks : Nat])
  /\ m_pending_count \in [Window -> 0 .. MAX_PENDING_MESSAGES]
  /\ m_wait_list \in [Window -> Seq(Task)]
  /\ owner \in [Window -> Task \cup {NoTask}]
  /\ m_next_available_pid \in 0 .. MaxTasks
  /\ m_parent \in [Task -> Task \cup {NoTask}]
  /\ resubmit \in [Task -> Window \cup {NoWindow}]
  /\ phase \in Phase
  /\ dying \in Task \cup {NoTask}
  /\ waking \in Window \cup {NoWindow}
  /\ cpu \in Task
  /\ panic \in {"none", "kassert", "no task"}

(***************************************************************************)
(* load_init() has created and woken the init program and entered it.      *)
(***************************************************************************)
Init ==
  /\ m_run_queue = [p \in Priority |-> <<>>]
  /\ m_current_task = InitTask
  /\ m_state = [t \in Task |-> IF t = InitTask THEN RUNNING ELSE INTERRUPTIBLE]
  /\ m_priority = [t \in Task |-> DEFAULT_PRIORITY]
  /\ m_elapsed_ticks = [t \in Task |-> 0]
  /\ m_items = <<>>
  /\ m_pending_count = [w \in Window |-> 0]
  /\ m_wait_list = [w \in Window |-> <<>>]
  /\ owner = [w \in Window |-> NoTask]
  /\ m_next_available_pid = 1
  /\ m_parent = [t \in Task |-> NoTask]
  /\ resubmit = [t \in Task |-> NoWindow]
  /\ phase = "user"
  /\ dying = NoTask
  /\ waking = NoWindow
  /\ cpu = InitTask
  /\ panic = "none"
-----------------------------------------------------------------------------
(***************************************************************************)
(* The end of a handler: the context switch of ~ContextSwitcher, or its    *)
(* panic when no task is current. A handler whose KASSERTs fail panics.    *)
(***************************************************************************)
return_from_exception(asserts) ==
  /\ phase' = "user"
  /\ cpu' = IF m_current_task' = NoTask THEN cpu ELSE m_current_task'
  /\ panic' = CASE ~asserts -> "kassert"
                [] asserts /\ m_current_task' = NoTask -> "no task"
                [] OTHER -> "none"

\* A handler goes on in the phase ph.
continue_in(ph, asserts) ==
  /\ phase' = ph
  /\ panic' = IF asserts THEN "none" ELSE "kassert"
  /\ UNCHANGED cpu

\* The CPU is in user mode: an exception may be taken.
UserMode == phase = "user" /\ panic = "none"

\* The current task, at an instruction of its own choice, issues a system call.
InSyscall == UserMode /\ m_current_task # NoTask /\ resubmit[m_current_task] = NoWindow

\* init spawns its children and then spins (binuser/init): it never blocks nor exits.
MayBlock == m_current_task # InitTask

\* wake_task(): a task that is RUNNING is left alone.
wake_task(t) ==
  IF is_running(t)
  THEN UNCHANGED schedVars
  ELSE /\ m_elapsed_ticks' = [m_elapsed_ticks EXCEPT ![t] = 0]
       /\ add_task(t)
       /\ m_state' = [m_state EXCEPT ![t] = RUNNING]
       /\ UNCHANGED m_priority

\* The part sleep_task() and pause_task() share: leave the scheduler in the state s.
block(t, s) ==
  /\ remove_task(t)
  /\ m_state' = [m_state EXCEPT ![t] = s]
  /\ UNCHANGED m_priority
-----------------------------------------------------------------------------
(***************************************************************************)
(* System calls of the current task.                                       *)
(***************************************************************************)

\* SYS_YIELD
SysYield ==
  /\ InSyscall
  /\ schedule(m_current_task)
  /\ UNCHANGED <<m_state, m_priority, m_items, windowVars, taskVars, resubmit, dying, waking>>
  /\ return_from_exception(switch_to_assert)

\* SYS_SLEEP for a time that rounds up to `ticks` ticks.
SysSleep(ticks) ==
  /\ InSyscall /\ MayBlock
  /\ LET t == m_current_task
     IN /\ block(t, INTERRUPTIBLE)
        /\ delta_add_task(t, ticks)
        /\ return_from_exception(is_running(t) /\ switch_to_assert)
  /\ UNCHANGED <<windowVars, taskVars, resubmit, dying, waking>>

\* SYS_SCHED_SET_PRIORITY: priorities out of range are refused without any effect.
SysSetPriority(p) ==
  /\ InSyscall
  /\ LET t == m_current_task
     IN /\ m_priority' = [m_priority EXCEPT ![t] = p]
        /\ update_task_priority(t, m_priority[t])
        /\ return_from_exception(~is_terminated(t))
  /\ UNCHANGED <<m_state, m_elapsed_ticks, m_items, windowVars, taskVars, resubmit, dying, waking>>

(***************************************************************************)
(* create_task(): the task gets an identifier and joins m_tasks before its *)
(* segments (or, in SYS_SPAWN, its arguments) are mapped. When a mapping   *)
(* fails the task stays there, INTERRUPTIBLE, and is never woken.          *)
(***************************************************************************)
create_task(parent, mapped) ==
  LET t == m_next_available_pid
  IN /\ m_next_available_pid < MaxTasks
     /\ m_next_available_pid' = t + 1
     /\ m_parent' = [m_parent EXCEPT ![t] = parent]
     /\ IF mapped THEN wake_task(t) ELSE UNCHANGED schedVars
     /\ UNCHANGED <<m_items, windowVars, resubmit, dying, waking>>
     /\ return_from_exception(mapped => ~is_terminated(t))

\* SYS_SPAWN
SysSpawn(mapped) == InSyscall /\ create_task(m_current_task, mapped)

\* Alt+E: the keyboard interrupt spawns the file explorer, a task without a parent.
SpawnExplorer(mapped) == UserMode /\ create_task(NoTask, mapped)

\* A system call on a window the task does not own (any more) returns SYS_ERR_INVALID_WINDOW.
WaitMsgRefused ==
  /\ UserMode /\ m_current_task # NoTask
  /\ \E w \in Window : resubmit[m_current_task] = w /\ owner[w] # m_current_task
  /\ resubmit' = [resubmit EXCEPT ![m_current_task] = NoWindow]
  /\ UNCHANGED <<schedVars, m_items, windowVars, taskVars, dying, waking>>
  /\ return_from_exception(TRUE)

\* SYS_WAIT_MSG: take a message, or block and step the program counter back to the SVC.
SysWaitMsg(w) ==
  /\ UserMode /\ m_current_task # NoTask /\ MayBlock
  /\ resubmit[m_current_task] \in {w, NoWindow}
  /\ owner[w] = m_current_task
  /\ LET t == m_current_task
     IN IF is_empty(w)
        THEN /\ block(t, UNINTERRUPTIBLE)
             /\ wait_list_add(w, t)
             /\ resubmit' = [resubmit EXCEPT ![t] = w]
             /\ UNCHANGED m_pending_count
             /\ return_from_exception(is_running(t) /\ switch_to_assert)
        ELSE /\ dequeue(w)
             /\ resubmit' = [resubmit EXCEPT ![t] = NoWindow]
             /\ UNCHANGED <<schedVars, m_wait_list>>
             /\ return_from_exception(TRUE)
  /\ UNCHANGED <<m_items, owner, taskVars, dying, waking>>

\* SYS_POLL_MSG, when there is a message. An empty queue is reported and nothing changes.
SysPollMsg(w) ==
  /\ InSyscall
  /\ owner[w] = m_current_task /\ ~is_empty(w)
  /\ dequeue(w)
  /\ UNCHANGED <<schedVars, m_items, m_wait_list, owner, taskVars, resubmit, dying, waking>>
  /\ return_from_exception(TRUE)

\* SYS_WINDOW_CREATE: the window joins m_windows of the task, then the focus moves to it.
SysWindowCreate(w) ==
  /\ InSyscall
  /\ owner[w] = NoTask
  /\ owner' = [owner EXCEPT ![w] = m_current_task]
  /\ continue_in("wm", TRUE)
  /\ UNCHANGED <<schedVars, m_items, m_pending_count, m_wait_list, taskVars, resubmit, dying, waking>>

\* The window system calls that post messages: SYS_WINDOW_SET_VISIBILITY and SET_GEOMETRY.
SysWindowUpdate ==
  /\ InSyscall
  /\ \E w \in Window : owner[w] = m_current_task
  /\ continue_in("wm", TRUE)
  /\ UNCHANGED <<schedVars, m_items, windowVars, taskVars, resubmit, dying, waking>>
-----------------------------------------------------------------------------
(***************************************************************************)
(* Killing the current task: SYS_EXIT, or an exception at EL0 that has no  *)
(* handler. remove_task() gives the CPU up first, then free_resources()    *)
(* destroys the windows, which moves the focus and posts messages, then    *)
(* the task becomes TERMINATED.                                            *)
(***************************************************************************)
\* The range kill_task() walks to kill the children: children_end() is m_children.begin().
killed_children(t) == {}

kill_task(ph) ==
  /\ MayBlock
  /\ remove_task(m_current_task)
  /\ dying' = m_current_task
  /\ continue_in(ph, is_running(m_current_task) /\ switch_to_assert)
  /\ UNCHANGED <<m_state, m_priority, m_items, windowVars, taskVars, resubmit, waking>>

SysExit == InSyscall /\ kill_task("exit")

\* A fault may be taken at any instruction, also when a system call is about to be resubmitted.
UserFault == UserMode /\ m_current_task # NoTask /\ kill_task("fault")

(***************************************************************************)
(* The windows free_resources() destroys. The loop over m_windows erases   *)
(* the node it stands on before it reads the node's next pointer. While    *)
(* the freed node keeps its contents these are the windows of the task;    *)
(* once it is allocated again the walk may stop early or go on in another  *)
(* list, the one of all windows included.                                  *)
(***************************************************************************)
destroyed_windows ==
  LET own == {w \in Window : owner[w] = dying}
      existing == {w \in Window : owner[w] # NoTask}
  IN IF FreedNodeReused /\ own # {}
     THEN {D \in SUBSET existing : D \cap own # {}}
     ELSE {own}

\* The end of kill_task(); do_userspace_interrupt() then calls schedule() once more.
KillDone ==
  /\ phase \in {"exit", "fault"} /\ panic = "none" /\ waking = NoWindow
  /\ \E D \in destroyed_windows :
       /\ owner' = [w \in Window |-> IF w \in D THEN NoTask ELSE owner[w]]
       /\ m_pending_count' = [w \in Window |-> IF w \in D THEN 0 ELSE m_pending_count[w]]
       /\ m_wait_list' = [w \in Window |-> IF w \in D THEN <<>> ELSE m_wait_list[w]]
  /\ m_state' = [t \in Task |->
                   IF t = dying \/ t \in killed_children(dying) THEN TERMINATED ELSE m_state[t]]
  /\ resubmit' = [resubmit EXCEPT ![dying] = NoWindow]
  /\ dying' = NoTask
  /\ IF phase = "fault" THEN schedule(m_current_task)
     ELSE no_switch(m_current_task, m_elapsed_ticks)
  /\ UNCHANGED <<m_priority, m_items, taskVars, waking>>
  /\ return_from_exception(phase = "fault" => switch_to_assert)
-----------------------------------------------------------------------------
(***************************************************************************)
(* The window manager. Which windows a focus change, a key or a mouse      *)
(* event posts to is left open here: any finite number of messages to any  *)
(* existing windows.                                                       *)
(***************************************************************************)
\* A keyboard or mouse interrupt enters WindowManager::post_message.
InputInterrupt ==
  /\ UserMode
  /\ continue_in("wm", TRUE)
  /\ UNCHANGED <<schedVars, m_items, windowVars, taskVars, resubmit, dying, waking>>

\* Mutant of PostMessage: enqueue() does not wake the tasks that wait.
PostMessageSilently(w) ==
  /\ phase \in {"wm", "exit", "fault"} /\ panic = "none" /\ waking = NoWindow
  /\ owner[w] # NoTask
  /\ enqueue(w)
  /\ UNCHANGED <<schedVars, m_items, m_wait_list, owner, taskVars, resubmit, phase, dying, waking, cpu, panic>>

\* post_message(window, message): enqueue(), whose wake_all() goes on in WakeWaiter.
PostMessage(w) ==
  /\ phase \in {"wm", "exit", "fault"} /\ panic = "none" /\ waking = NoWindow
  /\ owner[w] # NoTask
  /\ enqueue(w)
  /\ waking' = IF is_full(w) \/ m_wait_list[w] = <<>> THEN NoWindow ELSE w
  /\ UNCHANGED <<schedVars, m_items, m_wait_list, owner, taskVars, resubmit, phase, dying, cpu, panic>>

\* One iteration of wake_all(): a terminated task is skipped.
WakeWaiter ==
  /\ waking # NoWindow /\ panic = "none"
  /\ LET t == Head(m_wait_list[waking])
     IN IF is_terminated(t) THEN UNCHANGED schedVars ELSE wake_task(t)
  /\ wait_list_next(waking)
  /\ waking' = IF Len(m_wait_list[waking]) = 1 THEN NoWindow ELSE waking
  /\ UNCHANGED <<m_items, m_pending_count, owner, taskVars, resubmit, phase, dying, cpu, panic>>

\* The window manager is done.
WindowManagerDone ==
  /\ phase = "wm" /\ panic = "none" /\ waking = NoWindow
  /\ UNCHANGED <<schedVars, m_items, windowVars, taskVars, resubmit, dying, waking>>
  /\ return_from_exception(TRUE)
-----------------------------------------------------------------------------
(***************************************************************************)
(* The timer interrupt: TaskManager::tick().                               *)
(***************************************************************************)
\* DeltaQueue::tick() counts down ...
TimerInterrupt ==
  /\ UserMode
  /\ delta_count_down
  /\ continue_in("tick", TRUE)
  /\ UNCHANGED <<schedVars, windowVars, taskVars, resubmit, dying, waking>>

\* ... wakes the sleepers that are due, one after the other ...
WakeSleeper ==
  /\ phase = "tick" /\ panic = "none"
  /\ delta_due
  /\ delta_pop_front
  /\ wake_task(m_items[1].task)
  /\ continue_in("tick", ~is_terminated(m_items[1].task))
  /\ UNCHANGED <<windowVars, taskVars, resubmit, dying, waking>>

\* ... and Scheduler::tick() follows.
SchedulerTick ==
  /\ phase = "tick" /\ panic = "none"
  /\ ~delta_due
  /\ tick
  /\ UNCHANGED <<m_state, m_priority, m_items, windowVars, taskVars, resubmit, dying, waking>>
  /\ return_from_exception(switch_to_assert)
-----------------------------------------------------------------------------
SleepSome == \E n \in 1 .. MaxSleepTicks : SysSleep(n)
SetSomePriority == \E p \in Priority : SysSetPriority(p)
SpawnSome == \E mapped \in BOOLEAN : SysSpawn(mapped)
ExplorerSome == \E mapped \in BOOLEAN : SpawnExplorer(mapped)
WaitSome == WaitMsgRefused \/ \E w \in Window : SysWaitMsg(w)
PollSome == \E w \in Window : SysPollMsg(w)
CreateSome == \E w \in Window : SysWindowCreate(w)
PostSome == \E w \in Window : PostMessage(w)

Next ==
  \/ SysYield \/ SleepSome \/ SetSomePriority \/ SpawnSome \/ ExplorerSome
  \/ WaitSome \/ PollSome \/ CreateSome \/ SysWindowUpdate
  \/ SysExit \/ UserFault \/ KillDone
  \/ InputInterrupt \/ PostSome \/ WakeWaiter \/ WindowManagerDone
  \/ TimerInterrupt \/ WakeSleeper \/ SchedulerTick

(***************************************************************************)
(* A handler runs to its end. The timer interrupt stays pending while      *)
(* interrupts are masked and is taken as soon as they are not, so it is    *)
(* never postponed for ever by system calls: strong fairness.              *)
(***************************************************************************)
HandlerStep == KillDone \/ WakeWaiter \/ WindowManagerDone \/ WakeSleeper \/ SchedulerTick

Spec == Init /\ [][Next]_vars
FairSpec == Spec /\ WF_vars(HandlerStep) /\ SF_vars(TimerInterrupt)
-----------------------------------------------------------------------------
(***************************************************************************)
(* Safety.                                                                 *)
(***************************************************************************)

\* Scheduler::m_run_queue and m_current_task hold every RUNNING task exactly once, in the queue
\* of its priority, and no other task, whatever sequence of handlers moved it there.
QueueInv ==
  /\ QueuedTasksRunnable(dying)
  /\ QueuedOnce
  /\ CurrentRunnable(dying)
  /\ NoTaskLost(dying)

\* No KASSERT on the paths modelled fails (wake_task of a TERMINATED task, add_task of a queued
\* one, switch_to a blocked one), and ~ContextSwitcher never finds the scheduler without a task.
NoPanic == panic = "none"

\* The window whose message task t waits for was destroyed by another task's kill_task().
WindowLost(t) == FreedNodeReused /\ owner[resubmit[t]] # t

\* A task blocked by pause_task() is in one wait list, of its own window, whose queue is empty:
\* enqueue() will find it, so the wake-up is not lost, unless the window itself is.
NoLostWakeup ==
  /\ \A t \in Task : m_state[t] = UNINTERRUPTIBLE =>
       /\ resubmit[t] # NoWindow
       /\ m_wait_list[resubmit[t]] = <<t>> \/ WindowLost(t)
  /\ \A w \in Window : m_wait_list[w] # <<>> =>
       /\ m_pending_count[w] = 0 \/ waking = w
       /\ \A i \in 1 .. Len(m_wait_list[w]) : resubmit[m_wait_list[w][i]] = w

\* A task woken out of wait_msg finds a message when its system call is resubmitted: between the
\* wake-up and the resubmission nobody else empties the queue.
WokenFindsMessage ==
  \A t \in Task : m_state[t] = RUNNING /\ resubmit[t] # NoWindow =>
    m_pending_count[resubmit[t]] > 0 \/ WindowLost(t)

\* The delta queue holds each sleeping task once and no other; a task that is INTERRUPTIBLE and
\* not in it was created and never started. Outside the timer handler no sleeper is due, so
\* --remaining_ticks never wraps around.
SleepersQueued ==
  /\ SleepsOnce
  /\ \A t \in sleepers : m_state[t] = INTERRUPTIBLE /\ t < m_next_available_pid
  /\ phase # "tick" => ~delta_due

\* A killed task is gone from everything that could run or wake it again.
TerminatedIsForgotten ==
  \A t \in Task : m_state[t] = TERMINATED =>
    /\ t # m_current_task /\ t # cpu /\ t \notin sleepers
    /\ \A p \in Priority : ~Contains(m_run_queue[p], t)
    /\ \A w \in Window : ~Contains(m_wait_list[w], t)

\* The registers on the CPU are those of the task the scheduler calls current.
CurrentOnCpu == phase = "user" /\ panic = "none" => cpu = m_current_task

\* After Scheduler::tick no queued task has a higher priority than the current one, and a task
\* that used its time slice up while another of its priority waits has left the CPU.
TickIsFair ==
  [][SchedulerTick =>
       /\ \A p \in Priority : p > m_priority[m_current_task'] => m_run_queue'[p] = <<>>
       /\ m_current_task' = m_current_task =>
            \/ m_run_queue[m_priority[m_current_task]] = <<>>
            \/ m_elapsed_ticks'[m_current_task]
                 < get_time_slice_for_priority(m_priority[m_current_task])]_vars

\* A TERMINATED task never changes its state again, and no handler gives the CPU back to the
\* task it has just killed.
DeadStaysDead ==
  [][\A t \in Task : m_state[t] = TERMINATED => m_state'[t] = TERMINATED /\ m_current_task' # t]_vars
-----------------------------------------------------------------------------
(***************************************************************************)
(* The inductive invariant behind the theorems of TaskManagerProofs.       *)
(***************************************************************************)
\* init is alive, so there is always a task to give the CPU to.
InitAlive ==
  /\ m_state[InitTask] = RUNNING /\ dying # InitTask
  /\ m_current_task # NoTask

\* A task that was not created is in no structure, and create_task() finds it as new.
FreshTasks ==
  /\ m_next_available_pid > 0
  /\ \A t \in Task : t >= m_next_available_pid => m_state[t] = INTERRUPTIBLE /\ t \notin sleepers

\* What each handler has under way.
HandlerState ==
  /\ phase \in {"exit", "fault"} <=> dying # NoTask
  /\ dying # NoTask => m_state[dying] = RUNNING
  /\ waking # NoWindow => phase \in {"wm", "exit", "fault"} /\ m_wait_list[waking] # <<>>
  /\ phase # "tick" => ~delta_due

\* A task in a wait list is blocked by pause_task() and waits there only.
WaitersBlocked ==
  /\ \A w \in Window : \A i \in 1 .. Len(m_wait_list[w]) :
       m_state[m_wait_list[w][i]] = UNINTERRUPTIBLE
  /\ \A v, w \in Window : \A i \in 1 .. Len(m_wait_list[v]), j \in 1 .. Len(m_wait_list[w]) :
       m_wait_list[v][i] = m_wait_list[w][j] => v = w /\ i = j

\* A task in the delta queue is asleep and has one item.
SleepersAsleep == SleepsOnce /\ \A t \in sleepers : m_state[t] = INTERRUPTIBLE

\* The processor's view: while a handler runs, cpu is the task that was interrupted.
CpuState ==
  /\ cpu # m_current_task => phase \in {"exit", "fault"} /\ cpu = dying
  /\ panic = "none"

\* All of them: the inductive invariant of the handlers (task_manager.cpp, scheduler.cpp,
\* delta_queue.cpp, wait_list.cpp): every list of tasks agrees with the states of its tasks.
IInv ==
  /\ TypeOK /\ QueueInv /\ InitAlive /\ FreshTasks
  /\ HandlerState /\ WaitersBlocked /\ SleepersAsleep /\ CpuState

(***************************************************************************)
(* The invariant behind NoLostWakeup and WokenFindsMessage, inductive      *)
(* together with IInv.                                                     *)
(***************************************************************************)
\* Only the owner of a window waits for its messages, and only while there is none.
OwnerWaits ==
  \A w \in Window : m_wait_list[w] # <<>> =>
    /\ m_wait_list[w] = <<owner[w]>> /\ owner[w] \in Task
    /\ m_state[owner[w]] = UNINTERRUPTIBLE /\ resubmit[owner[w]] = w
    /\ m_pending_count[w] = 0 \/ waking = w

\* wake_all() runs after the message was queued.
PostedFirst == waking # NoWindow => m_pending_count[waking] > 0

\* A task that is asleep, or was never started, has no system call to resubmit.
SleepersSubmitNothing == \A t \in Task : m_state[t] = INTERRUPTIBLE => resubmit[t] = NoWindow

\* As long as the walk over freed nodes stays in its list, nobody loses a window but its killer.
ResubmitsOwn ==
  FreedNodeReused \/ \A t \in Task : resubmit[t] # NoWindow => owner[resubmit[t]] = t

\* A task blocked by pause_task() is where enqueue() looks for it.
BlockedIsFound ==
  \A t \in Task : m_state[t] = UNINTERRUPTIBLE =>
    resubmit[t] # NoWindow /\ (m_wait_list[resubmit[t]] = <<t>> \/ WindowLost(t))

\* All of them: whoever waits for a message will be found, and finds it (message_queue.cpp).
MessageInv ==
  /\ OwnerWaits /\ PostedFirst /\ SleepersSubmitNothing /\ ResubmitsOwn
  /\ BlockedIsFound /\ WokenFindsMessage
-----------------------------------------------------------------------------
(***************************************************************************)
(* Liveness, under FairSpec.                                               *)
(***************************************************************************)

\* Tasks of the highest priority share the CPU round-robin, whatever the others do: each one that
\* is RUNNING and not being killed gets the CPU again. (Lower priorities may starve, by design.)
RoundRobin ==
  \A t \in Task :
    m_state[t] = RUNNING /\ t # dying /\ m_priority[t] = MAX_PRIORITY ~> m_current_task = t

\* A sleeping task is woken.
SleepersWake == \A t \in Task : t \in sleepers ~> m_state[t] = RUNNING
-----------------------------------------------------------------------------
(***************************************************************************)
(* Refinement. The task being killed counts as dead from the moment        *)
(* kill_task() takes it off the CPU.                                       *)
(***************************************************************************)
life_status(t) ==
  IF t >= m_next_available_pid THEN "absent"
  ELSE IF m_state[t] = TERMINATED \/ t = dying THEN "dead"
  ELSE IF m_state[t] = RUNNING THEN "runnable" ELSE "blocked"

Life == INSTANCE TaskLifecycle WITH status <- [t \in Task |-> life_status(t)], holder <- m_current_task

\* The handlers together implement the life cycle of tasks, and never leave the CPU to nobody.
LifeSpec == Life!Spec
-----------------------------------------------------------------------------
(***************************************************************************)
(* What comments in the code claim and the code does not do.               *)
(***************************************************************************)

\* kill_task: "Propagate the kill to children. This is done recursively."
KillReachesChildren ==
  \A c \in Task : m_parent[c] # NoTask /\ m_state[m_parent[c]] = TERMINATED => m_state[c] = TERMINATED

\* Scheduler::tick: "If there are no more tasks with the same priority, we fall back to use
\* lower priority tasks."
ExpiredSliceFallsBack ==
  [][SchedulerTick
     /\ m_elapsed_ticks'[m_current_task] >= get_time_slice_for_priority(m_priority[m_current_task])
     /\ NonEmpty(Priority) # {}
     => m_current_task' # m_current_task]_vars
=============================================================================
