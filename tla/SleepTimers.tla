---------------------------- MODULE SleepTimers ----------------------------
(***************************************************************************)
(* What the delta queue promises: one independent countdown per sleeping   *)
(* task. A tick counts every one of them down, never passes a sleeper that *)
(* is due, and nothing else moves a countdown.                             *)
(***************************************************************************)
EXTENDS Naturals

CONSTANT Sleeper    \* the tasks

VARIABLE timer      \* the ticks each sleeping task has left, a function on the sleeping tasks

Sleeping == DOMAIN timer

Init == timer = [t \in {} |-> 0]

\* A task that is awake goes to sleep for at least one tick.
Sleep(t) ==
  /\ t \notin Sleeping
  /\ DOMAIN timer' = Sleeping \cup {t}
  /\ timer'[t] > 0
  /\ \A s \in Sleeping : timer'[s] = timer[s]

\* A tick passes for all of them, and none of them is due.
Tick ==
  /\ \A t \in Sleeping : timer[t] > 0
  /\ timer' = [t \in Sleeping |-> timer[t] - 1]

\* A task that is due is woken.
Wake(t) ==
  /\ t \in Sleeping /\ timer[t] = 0
  /\ timer' = [s \in Sleeping \ {t} |-> timer[s]]

Next == Tick \/ \E t \in Sleeper : Sleep(t) \/ Wake(t)

Spec == Init /\ [][Next]_timer
=============================================================================
