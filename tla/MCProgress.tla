---------------------------- MODULE MCProgress ----------------------------
(***************************************************************************)
(* The parts of the kernel that must make progress, for model checking:    *)
(* the clock of the sleepers, the boot, the input line, the interrupt      *)
(* controllers, and the loops of the two page allocators. They share no    *)
(* variable, each is explored on its own with the others at rest; the      *)
(* variable `part` says which one it is.                                   *)
(***************************************************************************)
EXTENDS SleepClock, Boot, Input, Interrupts, PageAlloc, ContiguousPages

VARIABLE part

Parts == {"clock", "boot", "input", "interrupts", "pages", "ranges"}

\* A movement to the right and upwards: both signs of a packet.
MCMoves == {<<2, -1>>}

ProgressInit ==
  /\ part \in Parts
  /\ ClockInit /\ BootInit /\ InputInit /\ IrqInit /\ PageInit /\ RangeInit
  /\ part # "clock" => clo = 0
  /\ part # "interrupts" => chip = "BCM2711" /\ _tim_reserved = {}

Only(p) ==
  /\ part = p /\ UNCHANGED part
  /\ p # "clock" => UNCHANGED clockVars
  /\ p # "boot" => UNCHANGED bootVars
  /\ p # "input" => UNCHANGED inputVars
  /\ p # "interrupts" => UNCHANGED irqVars
  /\ p # "pages" => UNCHANGED pageVars
  /\ p # "ranges" => UNCHANGED rangeVars

ProgressNext ==
  \/ Only("clock") /\ ClockNext
  \/ Only("boot") /\ BootNext
  \/ Only("input") /\ InputNext
  \/ Only("interrupts") /\ IrqNext
  \/ Only("pages") /\ PageNext
  \/ Only("ranges") /\ RangeNext

partVars == <<part, clockVars, bootVars, inputVars, irqVars, pageVars, rangeVars>>

\* The fairness of the component that moves.
ProgressSpec ==
  /\ ProgressInit /\ [][ProgressNext]_partVars
  /\ WF_clockVars(part = "clock" /\ Count)
  /\ WF_clockVars(part = "clock" /\ (ReadCounter \/ ArmAndTick \/ WakeSome \/ TickDone))
  /\ WF_bootVars(part = "boot" /\ BootStep)
  /\ WF_inputVars(~disturbed /\ OnKeyRest) /\ WF_inputVars(~disturbed /\ Receive)
  /\ WF_inputVars(~disturbed /\ ReadOne)
  /\ WF_irqVars(HandlerStep) /\ WF_irqVars(ActivateIrq)
  /\ \A t \in SysTimer : WF_irqVars(Match(t))
  /\ WF_pageVars(FreshStep \/ MarkStep \/ FreeStep)
  /\ WF_rangeVars(SearchPage \/ EndOfPass)

\* The loops over the tree of pages (page_alloc.cpp) and over the ranges (contiguous_page_alloc.cpp)
\* come to an end, whatever the calls before have left behind.
LoopsEnd == CallsReturn /\ SearchEnds
=============================================================================
