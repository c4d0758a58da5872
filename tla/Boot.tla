-------------------------------- MODULE Boot --------------------------------
(***************************************************************************)
(* The end of the boot: kmain() and load_init() of kernel/kernel.cpp and   *)
(* the constructor of TaskManager, which run with interrupts enabled. The  *)
(* steps are those statements between which an interrupt matters; an       *)
(* interrupt handler runs with interrupts masked and is one step. The      *)
(* scheduler is that of module Scheduler, with init, task 0, as the only   *)
(* task: no other one is created before init runs.                         *)
(***************************************************************************)
EXTENDS Scheduler

VARIABLES boot_pc,         \* the statement that is next; "el0": init runs
          g_instance,      \* TaskManager::g_instance is not null
          m_scheduler,     \* TaskManager::m_scheduler is not null
          timer_runs,      \* the tick is armed
          keyboard_on,     \* the handler of the input line is registered
          new_task,        \* the task schedule() has popped
          activated,       \* the address space of init is the active one
          m_is_ready,      \* TaskManager::is_ready()
          halted_at        \* the statement interrupted or done when the kernel stopped, or "no"

objects == <<g_instance, m_scheduler, timer_runs, keyboard_on>>
bootVars == <<schedVars, boot_pc, objects, new_task, activated, m_is_ready, halted_at>>

init_task == 0

BootInit ==
  /\ m_run_queue = [p \in Priority |-> <<>>]
  /\ m_current_task = NoTask
  /\ m_state = [t \in Task |-> INTERRUPTIBLE]
  /\ m_priority = [t \in Task |-> DEFAULT_PRIORITY]
  /\ m_elapsed_ticks = [t \in Task |-> 0]
  /\ boot_pc = "keyboard"
  /\ g_instance = FALSE /\ m_scheduler = FALSE /\ timer_runs = FALSE /\ keyboard_on = FALSE
  /\ new_task = NoTask
  /\ activated = FALSE /\ m_is_ready = FALSE
  /\ halted_at = "no"

\* The boot code goes from one statement to the next.
goes(from, to) == boot_pc = from /\ halted_at = "no" /\ boot_pc' = to
-----------------------------------------------------------------------------
\* UARTKeyboard::init().
InitKeyboard ==
  /\ goes("keyboard", "instance")
  /\ keyboard_on' = TRUE
  /\ UNCHANGED <<schedVars, g_instance, m_scheduler, timer_runs, new_task, activated, m_is_ready, halted_at>>

\* new TaskManager: g_instance is set first, then the scheduler is made.
SetInstance ==
  /\ goes("instance", "scheduler")
  /\ g_instance' = TRUE
  /\ UNCHANGED <<schedVars, m_scheduler, timer_runs, keyboard_on, new_task, activated, m_is_ready, halted_at>>

MakeScheduler ==
  /\ goes("scheduler", "timer")
  /\ m_scheduler' = TRUE
  /\ UNCHANGED <<schedVars, g_instance, timer_runs, keyboard_on, new_task, activated, m_is_ready, halted_at>>

\* The end of the constructor: a timer is found and started, or LOG_CRITICAL() panics.
StartTimer ==
  /\ \/ goes("timer", "create") /\ timer_runs' = TRUE /\ UNCHANGED halted_at
     \/ goes("timer", "timer") /\ halted_at' = "timer" /\ UNCHANGED timer_runs
  /\ UNCHANGED <<schedVars, g_instance, m_scheduler, keyboard_on, new_task, activated, m_is_ready>>

\* create_task("/bin/init"); without the file the kernel panics.
CreateInit ==
  /\ \/ goes("create", "wake") /\ UNCHANGED halted_at
     \/ goes("create", "create") /\ halted_at' = "create"
  /\ UNCHANGED <<schedVars, objects, new_task, activated, m_is_ready>>
-----------------------------------------------------------------------------
\* wake_task(), up to the end of add_task().
WakeInit ==
  /\ goes("wake", "running")
  /\ m_elapsed_ticks' = [m_elapsed_ticks EXCEPT ![init_task] = 0]
  /\ add_task(init_task)
  /\ UNCHANGED <<m_state, m_priority, objects, new_task, activated, m_is_ready, halted_at>>

\* The last statement of wake_task().
InitIsRunning ==
  /\ goes("running", "while")
  /\ m_state' = [m_state EXCEPT ![init_task] = RUNNING]
  /\ UNCHANGED <<m_run_queue, m_current_task, m_priority, m_elapsed_ticks, objects, new_task, activated,
                 m_is_ready, halted_at>>

\* Mutant of While: the loop is left at once.
WhileNever ==
  /\ goes("while", "activate")
  /\ UNCHANGED <<schedVars, objects, new_task, activated, m_is_ready, halted_at>>

\* The condition of the loop around schedule().
While ==
  /\ goes("while", IF m_current_task = init_task THEN "activate" ELSE "find")
  /\ UNCHANGED <<schedVars, objects, new_task, activated, m_is_ready, halted_at>>

\* schedule(): the loop over the run queues stops at one that is not empty, or finds none.
Find ==
  /\ goes("find", IF NonEmpty(Priority) = {} THEN "while" ELSE "pop")
  /\ UNCHANGED <<schedVars, objects, new_task, activated, m_is_ready, halted_at>>

\* pop_front() of the run queue that was found: KASSERT(!is_empty()) if a tick was faster.
Pop ==
  /\ goes("pop", "switch")
  /\ IF NonEmpty(Priority) = {}
     THEN halted_at' = "pop" /\ UNCHANGED <<m_run_queue, new_task>>
     ELSE LET p == Highest(NonEmpty(Priority))
          IN /\ new_task' = Head(m_run_queue[p])
             /\ m_run_queue' = [m_run_queue EXCEPT ![p] = Tail(@)]
             /\ UNCHANGED halted_at
  /\ UNCHANGED <<m_current_task, m_state, m_priority, m_elapsed_ticks, objects, activated, m_is_ready>>

\* Mutant of Switch: the task that was popped is dropped.
SwitchDrop ==
  /\ goes("switch", "while")
  /\ UNCHANGED <<schedVars, objects, new_task, activated, m_is_ready, halted_at>>

\* schedule(): switch_to(new_task). A task that is current already is not queued.
Switch ==
  /\ goes("switch", "while")
  /\ halted_at' = IF is_running(new_task) THEN "no" ELSE "switch"
  /\ m_run_queue' = IF m_current_task \in {NoTask, new_task} THEN m_run_queue
                    ELSE [m_run_queue EXCEPT ![m_priority[m_current_task]] = Append(@, m_current_task)]
  /\ m_current_task' = new_task
  /\ m_elapsed_ticks' = [m_elapsed_ticks EXCEPT ![new_task] = 0]
  /\ UNCHANGED <<m_state, m_priority, objects, new_task, activated, m_is_ready>>

\* The rest of load_init(): memory->activate(), mark_as_ready(), jump_to_el0().
ActivateMemory ==
  /\ goes("activate", "ready")
  /\ activated' = TRUE
  /\ UNCHANGED <<schedVars, objects, new_task, m_is_ready, halted_at>>

MarkAsReady ==
  /\ goes("ready", "jump")
  /\ m_is_ready' = TRUE
  /\ UNCHANGED <<schedVars, objects, new_task, activated, halted_at>>

JumpToEl0 ==
  /\ goes("jump", "el0")
  /\ UNCHANGED <<schedVars, objects, new_task, activated, m_is_ready, halted_at>>
-----------------------------------------------------------------------------
(***************************************************************************)
(* exception_handler(): ContextSwitcher asks TaskManager::get() for the    *)
(* current task, which is a null dereference as long as there is no        *)
(* instance or no scheduler: the fault is taken by the same handler, which *)
(* faults again. Its destructor switches only when the kernel is ready.    *)
(***************************************************************************)
may_ask_current_task == g_instance /\ m_scheduler

\* The tick: nothing sleeps yet, so that it is the scheduler's. KASSERT of switch_to().
BootTick ==
  /\ timer_runs /\ halted_at = "no"
  /\ IF may_ask_current_task
     THEN /\ tick
          /\ halted_at' = IF m_current_task' = NoTask \/ is_running(m_current_task') THEN "no" ELSE boot_pc
          /\ boot_pc' = IF m_is_ready /\ m_current_task' # m_current_task THEN "el0" ELSE boot_pc
     ELSE halted_at' = boot_pc /\ UNCHANGED <<m_run_queue, m_current_task, m_elapsed_ticks, boot_pc>>
  /\ UNCHANGED <<m_state, m_priority, objects, new_task, activated, m_is_ready>>

\* A byte on the input line: there are no windows, so that no message is posted.
BootInput ==
  /\ keyboard_on /\ halted_at = "no"
  /\ halted_at' = IF may_ask_current_task THEN "no" ELSE boot_pc
  /\ UNCHANGED <<schedVars, boot_pc, objects, new_task, activated, m_is_ready>>

BootStep ==
  \/ InitKeyboard \/ SetInstance \/ MakeScheduler \/ StartTimer \/ CreateInit
  \/ WakeInit \/ InitIsRunning \/ While \/ Find \/ Pop \/ Switch
  \/ ActivateMemory \/ MarkAsReady \/ JumpToEl0

BootNext == BootStep \/ BootTick \/ BootInput

\* The processor goes on with the boot code after each interrupt.
BootSpec == BootInit /\ [][BootNext]_bootVars /\ WF_bootVars(BootStep)
-----------------------------------------------------------------------------
\* Wherever ticks and input hit the boot, init is entered as the current, RUNNING task, queued
\* nowhere, in its own address space and with context switches on: the state TaskManager starts in.
InitIsEntered ==
  boot_pc = "el0" =>
    /\ m_current_task = init_task /\ is_running(init_task)
    /\ NonEmpty(Priority) = {}
    /\ activated /\ m_is_ready

\* The kernel stops during the boot in six places only: without a timer or an init program, for
\* input before the scheduler exists, and for a tick that pops init while wake_task() or schedule()
\* is at work on the same run queue: before init is RUNNING, or before the pop_front() of the queue
\* that was found not empty. A tick anywhere else, the one that switches to init included, is harmless.
BootGaps == halted_at \in {"no", "timer", "create", "instance", "scheduler", "running", "pop"}

\* Both: whatever interrupts the boot of kernel.cpp, it ends in a sound state or in a known place.
BootIsSafe == InitIsEntered /\ BootGaps

\* The loop of load_init() ends: once begun, the boot reaches userspace or stops, however often it is
\* interrupted.
BootEnds == boot_pc # "keyboard" ~> boot_pc = "el0" \/ halted_at # "no"
=============================================================================
