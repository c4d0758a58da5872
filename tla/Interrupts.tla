----------------------------- MODULE Interrupts -----------------------------
(***************************************************************************)
(* From the interrupt line to the callback: IRQManager with the drivers of *)
(* the two interrupt controllers (kernel/hardware/irq), and the timers of  *)
(* SystemTimer. The controllers, the lines and the counter of the timers   *)
(* are external.                                                           *)
(*                                                                         *)
(* The BCM2837's controller shows the lines that are enabled and active.   *)
(* The BCM2711's GIC hands an interrupt out when its IAR is read, the      *)
(* lowest number first, and does not show it again before the write of     *)
(* EOIR. The timers count together; a timer is "armed" while its compare   *)
(* register lies ahead of the counter. After a lap of the 32-bit counter   *)
(* it does so again, also when nobody has written the register.            *)
(***************************************************************************)
EXTENDS Naturals, FiniteSets, FiniteSetsExt

CONSTANTS SysTimer,      \* the timers, by their interrupt number
          VC_UART,       \* the interrupt of the input line
          MaxWaiting     \* bound: packets waiting on the input line

ASSUME IrqAssumption == SysTimer \subseteq 0 .. 3 /\ VC_UART \in Nat \ 0 .. 3

Irq == SysTimer \cup {VC_UART}
NoIrq == VC_UART + 1

VARIABLES chip,           \* the controller found in the device tree
          _tim_reserved,  \* the timers the firmware uses
          _tim_used, _tick_period, _callbacks,
          armed,          \* the timers whose compare register is ahead of the counter
          CS,             \* the match bits, which drive the lines of the timers
          waiting,        \* packets on the input line, which drive the line of the UART
          vc_handler,     \* the interrupts that have a handler
          irq_enabled,    \* the interrupts enabled at the controller
          in_service,     \* the interrupts the GIC has handed out
          registering,    \* the interrupt between the two statements of register_irq_handler()
          irq_pc,         \* "code": the handler does not run
          irq,            \* the interrupt that is being handled
          irq_panic       \* "IRQ Handler Missing"

timers == <<_tim_reserved, _tim_used, _tick_period, _callbacks>>
controller == <<chip, vc_handler, irq_enabled, registering>>
irqVars == <<chip, timers, armed, CS, waiting, vc_handler, irq_enabled, in_service, registering, irq_pc,
             irq, irq_panic>>

IrqInit ==
  /\ chip \in {"BCM2837", "BCM2711"}
  /\ _tim_reserved \in SUBSET SysTimer
  /\ _tim_used = {} /\ _callbacks = {} /\ _tick_period = [t \in SysTimer |-> 0]
  /\ armed = {} /\ CS = {} /\ waiting = 0
  /\ vc_handler = {} /\ irq_enabled = {} /\ in_service = {}
  /\ registering = NoIrq
  /\ irq_pc = "code" /\ irq = NoIrq /\ irq_panic = FALSE

\* Kernel code runs, with interrupts enabled.
InCode == irq_pc = "code" /\ ~irq_panic
-----------------------------------------------------------------------------
(***************************************************************************)
(* Registration, at the boot (SystemTimer::init, UARTKeyboard::init).      *)
(***************************************************************************)
\* register_irq_handler(): the handler is stored,
RegisterHandler(i) ==
  /\ InCode /\ registering = NoIrq /\ i \notin vc_handler \cup _tim_reserved
  /\ vc_handler' = vc_handler \cup {i} /\ registering' = i
  /\ UNCHANGED <<chip, timers, armed, CS, waiting, irq_enabled, in_service, irq_pc, irq, irq_panic>>

\* then the interrupt is enabled.
ActivateIrq ==
  /\ InCode /\ registering # NoIrq
  /\ irq_enabled' = irq_enabled \cup {registering} /\ registering' = NoIrq
  /\ UNCHANGED <<chip, timers, armed, CS, waiting, vc_handler, in_service, irq_pc, irq, irq_panic>>

\* unregister_irq_handle(): disabled; the entry of the handler stays.
UnregisterHandler(i) ==
  /\ InCode /\ registering = NoIrq /\ i \in vc_handler
  /\ irq_enabled' = irq_enabled \ {i}
  /\ UNCHANGED <<chip, timers, armed, CS, waiting, vc_handler, in_service, registering, irq_pc, irq, irq_panic>>

is_used(t) == t \in _tim_reserved \cup _tim_used

\* set_recurrent_tick() with a period of 1, set_oneshot_tick() with 0: refused for a reserved timer.
\* The kernel has one recurrent timer, the first one the task manager finds unused.
SetTimer(t, period) ==
  /\ InCode /\ t \notin _tim_reserved
  /\ period = 1 => /\ \A u \in SysTimer : _tick_period[u] = 0
                   /\ ~is_used(t) /\ \A u \in SysTimer : u < t => is_used(u)
  /\ _tick_period' = [_tick_period EXCEPT ![t] = period]
  /\ _callbacks' = _callbacks \cup {t} /\ _tim_used' = _tim_used \cup {t}
  /\ armed' = armed \cup {t}
  /\ UNCHANGED <<_tim_reserved, controller, CS, waiting, in_service, irq_pc, irq, irq_panic>>
-----------------------------------------------------------------------------
(***************************************************************************)
(* The hardware.                                                           *)
(***************************************************************************)
lines == CS \cup (IF waiting > 0 THEN {VC_UART} ELSE {})
asserted == (lines \cap irq_enabled) \ in_service

Match(t) ==
  /\ t \in armed
  /\ armed' = armed \ {t} /\ CS' = CS \cup {t}
  /\ UNCHANGED <<controller, timers, waiting, in_service, irq_pc, irq, irq_panic>>

\* The counter begins a new lap; a lap is much longer than what a handler takes.
Lap ==
  /\ InCode /\ lines \cap irq_enabled = {}
  /\ armed' = SysTimer
  /\ UNCHANGED <<controller, timers, CS, waiting, in_service, irq_pc, irq, irq_panic>>

Packet ==
  /\ waiting < MaxWaiting
  /\ waiting' = waiting + 1
  /\ UNCHANGED <<controller, timers, armed, CS, in_service, irq_pc, irq, irq_panic>>

\* The exception: the handler runs with interrupts masked.
TakeInterrupt ==
  /\ InCode /\ asserted # {}
  /\ irq_pc' = "ask"
  /\ UNCHANGED <<controller, timers, armed, CS, waiting, in_service, irq, irq_panic>>
-----------------------------------------------------------------------------
(***************************************************************************)
(* IRQManager::handle_interrupts().                                        *)
(***************************************************************************)
\* The bits of the BCM2837 are looked at in an order in which the UART comes before the timers.
next_irq(S) == IF chip = "BCM2837" /\ VC_UART \in S THEN VC_UART ELSE Min(S)

\* has_pending_interrupt().
HasPending ==
  /\ irq_pc = "ask"
  /\ IF asserted = {}
     THEN irq_pc' = "code" /\ irq' = NoIrq /\ UNCHANGED in_service
     ELSE /\ irq_pc' = "call" /\ irq' = next_irq(asserted)
          /\ in_service' = IF chip = "BCM2711" THEN in_service \cup {irq'} ELSE in_service
  /\ UNCHANGED <<controller, timers, armed, CS, waiting, irq_panic>>

\* Mutant of process_interrupt: a one-shot timer and a recurrent one are not told apart.
process_interrupt_once(t) ==
  /\ CS' = CS \ {t}
  /\ UNCHANGED <<armed, waiting>>

\* SystemTimer::process_interrupt(), up to the callback: a recurrent timer is armed for its next
\* period, and the match bit is cleared.
process_interrupt(t) ==
  /\ armed' = IF t \in CS /\ _tick_period[t] # 0 THEN armed \cup {t} ELSE armed
  /\ CS' = CS \ {t}
  /\ UNCHANGED waiting

\* The callback, or the panic.
CallHandler ==
  /\ irq_pc = "call" /\ ~irq_panic
  /\ IF irq \notin vc_handler
     THEN irq_panic' = TRUE /\ UNCHANGED <<armed, CS, waiting, irq_pc>>
     ELSE /\ irq_pc' = "processed"
          /\ IF irq \in SysTimer THEN process_interrupt(irq)
             ELSE waiting' = waiting - 1 /\ UNCHANGED <<armed, CS>>
          /\ UNCHANGED irq_panic
  /\ UNCHANGED <<controller, timers, in_service, irq>>

\* mask_as_processed(): EOIR.
MaskAsProcessed ==
  /\ irq_pc = "processed"
  /\ irq_pc' = "ask" /\ in_service' = in_service \ {irq}
  /\ UNCHANGED <<controller, timers, armed, CS, waiting, irq, irq_panic>>

HandlerStep == TakeInterrupt \/ HasPending \/ CallHandler \/ MaskAsProcessed

IrqNext ==
  \/ \E i \in Irq : RegisterHandler(i) \/ UnregisterHandler(i)
  \/ ActivateIrq
  \/ \E t \in SysTimer, period \in 0 .. 1 : SetTimer(t, period)
  \/ \E t \in SysTimer : Match(t)
  \/ Lap \/ Packet
  \/ HandlerStep

\* The counter runs, an interrupt is taken, and its handler runs to its end.
IrqSpec ==
  /\ IrqInit /\ [][IrqNext]_irqVars
  /\ WF_irqVars(HandlerStep) /\ WF_irqVars(ActivateIrq)
  /\ \A t \in SysTimer : WF_irqVars(Match(t))
-----------------------------------------------------------------------------
\* The timer t is recurrent and enabled.
Ticks(t) == _tick_period[t] # 0 /\ t \in irq_enabled

\* A recurrent timer ticks for ever on either chip: it is always armed again and its interrupt
\* handled, and "IRQ Handler Missing" does not stop it, whenever an interrupt hits its own
\* registration or its removal (irq_manager.cpp register_irq_handler()). On the BCM2837, whose driver looks at the UART first, an input line that always has
\* another packet keeps the timer waiting.
TicksForEver ==
  \A t \in SysTimer :
    []<>~Ticks(t) \/ []<><<CallHandler /\ irq = t>>_irqVars \/ (chip = "BCM2837" /\ []<>(waiting > 0))
=============================================================================
