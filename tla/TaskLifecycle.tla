--------------------------- MODULE TaskLifecycle ---------------------------
(***************************************************************************)
(* What the process core promises of the life of its tasks, without queues *)
(* or handlers: exactly one task holds the CPU, it is a runnable one, only *)
(* the holder can block or die, and nobody leaves death.                   *)
(***************************************************************************)
CONSTANT Task

VARIABLES status,   \* of each task: "absent", "blocked", "runnable" or "dead"
          holder    \* the task that holds the CPU

lifeVars == <<status, holder>>

Runnable == {t \in Task : status[t] = "runnable"}

\* One task exists, and runs.
Init ==
  /\ holder \in Task
  /\ status = [t \in Task |-> IF t = holder THEN "runnable" ELSE "absent"]

\* A task is created, ready to run or not; the holder goes on.
Create(t) ==
  /\ status[t] = "absent"
  /\ \E s \in {"blocked", "runnable"} : status' = [status EXCEPT ![t] = s]
  /\ UNCHANGED holder

\* A blocked task becomes runnable; the holder goes on.
Unblock(t) ==
  /\ status[t] = "blocked"
  /\ status' = [status EXCEPT ![t] = "runnable"]
  /\ UNCHANGED holder

\* The CPU is given to a runnable task.
Dispatch ==
  /\ holder' \in Runnable
  /\ UNCHANGED status

\* The holder blocks or dies, and leaves the CPU to another runnable task.
Leave ==
  /\ \E s \in {"blocked", "dead"} : status' = [status EXCEPT ![holder] = s]
  /\ holder' \in Runnable \ {holder}

Next == Dispatch \/ Leave \/ \E t \in Task : Create(t) \/ Unblock(t)

Spec == Init /\ [][Next]_lifeVars
=============================================================================
