----------------------------- MODULE SleepClock -----------------------------
(***************************************************************************)
(* How long SYS_SLEEP really sleeps: the delta queue driven by the system  *)
(* timer of kernel/hardware/system_timer.cpp. The timer is a counter of    *)
(* COUNTER values (2^32 in the hardware) that runs freely and sets a match *)
(* bit when it equals a compare register; the handler of the interrupt     *)
(* reads the counter, writes the compare register and clears the bit. The  *)
(* low word of get_tick_count() is the counter's, whatever the two reads   *)
(* it makes see of the high word.                                          *)
(***************************************************************************)
EXTENDS DeltaQueue

CONSTANTS Sleeper,       \* the tasks
          COUNTER,       \* the counter counts modulo this
          TICK_PERIOD,   \* TICK_TIME, in units of the counter
          MaxLatency,    \* bound: the time from the match to the end of the handler
          MaxRequest     \* bound: the longest time a task asks to sleep, in units of the counter

ASSUME PeriodAssumption == TICK_PERIOD \in Nat \ {0} /\ COUNTER \in Nat /\ TICK_PERIOD < COUNTER
ASSUME LatencyAssumption == MaxLatency \in Nat /\ MaxLatency < TICK_PERIOD
ASSUME MaxRequestAssumption == MaxRequest \in Nat

VARIABLES clo,       \* the counter (register CLO)
          compare,   \* the compare register of the scheduler's timer
          match,     \* its bit of the status register CS: the interrupt is requested
          handler,   \* the interrupt handler: "idle", "arm" or "tick"
          read_clo,  \* the counter as setup_next_period() read it
          late,      \* time since the match, until the handler is done
          asked,     \* time_in_us of the SYS_SLEEP of each sleeping task
          slept      \* the time that has passed since (asked and slept only observe)

timerVars == <<clo, compare, match, handler, read_clo, late>>
clockVars == <<m_items, timerVars, asked, slept>>

\* The ticks sleep_task() converts a duration to: div_round_up(), and at least one.
ticks_count(time) == IF time = 0 THEN 1 ELSE (time + TICK_PERIOD - 1) \div TICK_PERIOD

\* bound: `slept` saturates one unit above the longest sleep SleepDuration allows.
SleptCap == ticks_count(MaxRequest) * (TICK_PERIOD + MaxLatency) + 1

ClockTypeOK ==
  /\ m_items \in Seq([task : Sleeper, remaining_ticks : Nat])
  /\ clo \in 0 .. COUNTER - 1 /\ compare \in 0 .. COUNTER - 1 /\ read_clo \in 0 .. COUNTER - 1
  /\ match \in BOOLEAN
  /\ handler \in {"idle", "arm", "tick"}
  /\ late \in 0 .. MaxLatency
  /\ asked \in [Sleeper -> 0 .. MaxRequest]
  /\ slept \in [Sleeper -> 0 .. SleptCap]

\* The handler is under way, or about to be.
Busy == match \/ handler # "idle"

ClockInit ==
  /\ m_items = <<>>
  /\ clo \in 0 .. COUNTER - 1
  /\ compare = (clo + TICK_PERIOD) % COUNTER
  /\ match = FALSE
  /\ handler = "idle"
  /\ read_clo = clo
  /\ late = 0
  /\ asked = [t \in Sleeper |-> 0]
  /\ slept = [t \in Sleeper |-> 0]

\* The hardware: a unit of time passes.
Count ==
  /\ Busy => late < MaxLatency
  /\ clo' = (clo + 1) % COUNTER
  /\ match' = (match \/ clo' = compare)
  /\ late' = IF Busy THEN late + 1 ELSE 0
  /\ slept' = [t \in Sleeper |-> IF t \in sleepers /\ slept[t] < SleptCap THEN slept[t] + 1 ELSE slept[t]]
  /\ UNCHANGED <<m_items, compare, handler, read_clo, asked>>

\* SYS_SLEEP; a duration of 0 returns at once.
Sleep(t, time) ==
  /\ handler = "idle" /\ t \notin sleepers
  /\ time > 0
  /\ delta_add_task(t, ticks_count(time))
  /\ asked' = [asked EXCEPT ![t] = time]
  /\ UNCHANGED <<slept, timerVars>>

\* process_interrupt(), up to the read of the counter in setup_next_period().
ReadCounter ==
  /\ handler = "idle" /\ match
  /\ read_clo' = clo
  /\ handler' = "arm"
  /\ UNCHANGED <<m_items, clo, compare, match, late, asked, slept>>

\* Mutant of setup_next_period: the next match is one unit too far.
setup_late_period == compare' = (read_clo + TICK_PERIOD + 1) % COUNTER

\* The rest of setup_next_period(): the next match, in 32-bit arithmetic.
setup_next_period == compare' = (read_clo + TICK_PERIOD) % COUNTER

\* The timer is armed, the bit is cleared, and the callback starts DeltaQueue::tick().
ArmAndTick ==
  /\ handler = "arm"
  /\ setup_next_period
  /\ match' = FALSE
  /\ delta_count_down
  /\ handler' = "tick"
  /\ UNCHANGED <<clo, read_clo, late, asked, slept>>

\* One iteration of the wake-up loop of DeltaQueue::tick().
Wake(t) ==
  /\ handler = "tick" /\ delta_due
  /\ t = m_items[1].task
  /\ delta_pop_front
  /\ asked' = [asked EXCEPT ![t] = 0]
  /\ slept' = [slept EXCEPT ![t] = 0]
  /\ UNCHANGED timerVars

\* The handler returns.
TickDone ==
  /\ handler = "tick" /\ ~delta_due
  /\ handler' = "idle"
  /\ late' = 0
  /\ UNCHANGED <<m_items, clo, compare, match, read_clo, asked, slept>>

SleepSome == \E t \in Sleeper, time \in 0 .. MaxRequest : Sleep(t, time)
WakeSome == \E t \in Sleeper : Wake(t)

ClockNext == Count \/ SleepSome \/ ReadCounter \/ ArmAndTick \/ WakeSome \/ TickDone

ClockSpec == ClockInit /\ [][ClockNext]_clockVars
-----------------------------------------------------------------------------
\* Between two interrupts the compare register is ahead of the counter by at most a period, also
\* across the wrap-around of the counter and after a late interrupt: no tick is skipped.
TimerArmed ==
  /\ ClockTypeOK
  /\ ~Busy => (compare + COUNTER - clo) % COUNTER \in 1 .. TICK_PERIOD

\* SYS_SLEEP wakes a task at most one tick too early, and at most one period and the latency of
\* each tick late.
SleepDuration ==
  [][\A t \in Sleeper : Wake(t) =>
       /\ slept[t] + TICK_PERIOD >= asked[t]
       /\ slept[t] <= ticks_count(asked[t]) * (TICK_PERIOD + MaxLatency)]_clockVars

\* The delta queue implements one independent countdown per sleeper.
Timers == INSTANCE SleepTimers WITH timer <- [t \in sleepers |-> ticks_left(t)]
\* A sleeper's time does not depend on the others (delta_queue.cpp add_task(), tick()): inserting one
\* and waking one leave the countdowns of the rest alone.
TimersSpec == Timers!Spec
=============================================================================
