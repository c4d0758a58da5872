--------------------------- MODULE ProcessMemory ---------------------------
(***************************************************************************)
(* The memory of the user programs: ProcessMemory, MemoryChunk and the     *)
(* HeapManager of a process (kernel/memory), as create_task(), SYS_SPAWN,  *)
(* SYS_GET_FRAMEBUFFER and SYS_SBRK use them, and the TLB they must keep   *)
(* up to date.                                                             *)
(*                                                                         *)
(* A translation table is the function that MMUTable shows it to be, from  *)
(* virtual to physical page numbers. The code runs with interrupts masked, *)
(* but the MMU may walk the table that TTBR0 names at any moment, also     *)
(* speculatively: where the code leaves it a gap, the step ends, and `pc`  *)
(* says where. TTBR0 is written without an ASID, so that every translation *)
(* in the TLB is good for whatever program runs.                           *)
(***************************************************************************)
EXTENDS Integers, Sequences, FiniteSets, SequencesExt

CONSTANTS Process,          \* the programs, present and to come
          NB_FRAMES,        \* the number of physical pages of the page allocator
          PROC_PAGE_SIZE,   \* PAGE_SIZE, in bytes of the heap's break
          STACK_PAGES,      \* pages of a stack
          LowPages,         \* pages below the heap, for segments and arguments
          MaxHeapPages,     \* bound: pages of heap a program asks for
          Amounts,          \* bound: by how many bytes SYS_SBRK moves the break
          NoProcess, NoFrame

ASSUME FrameAssumption == NB_FRAMES \in Nat
ASSUME SizeAssumption == /\ PROC_PAGE_SIZE \in Nat \ {0} /\ STACK_PAGES \in Nat \ {0}
                         /\ LowPages \in Nat /\ MaxHeapPages \in Nat /\ Amounts \subseteq Nat
ASSUME NoneAssumption == NoProcess \notin Process /\ NoFrame \notin Nat

Frame == 0 .. NB_FRAMES - 1

PROCESS_HEAP_BASE == LowPages
PROCESS_STACK_BASE == LowPages + MaxHeapPages + 1
ProcVA == 0 .. PROCESS_STACK_BASE + STACK_PAGES - 1

VARIABLES free_frames,      \* what the page allocator has left
          tables,           \* _tbl of each program: virtual page |-> physical page, or NoFrame
          owned,            \* the frames of its chunks and of its heap
          proc_heap_byte_size,  \* of each program; negative: the unsigned size has wrapped around
          proc_heap_va_end,     \* the first page behind the heap's mapped pages
          _allocated_pa,    \* the frames of the heap, the last one first to go
          created,          \* the programs that exist
          unchecked,        \* the programs that have mapped a chunk that has no memory
          ttbr0,            \* the program whose table the MMU walks, or NoProcess
          tlb,              \* the translations the MMU has cached
          running,          \* the program that runs, or that has called the kernel
          pc,               \* where the kernel is; "user": in the program
          crashed           \* the kernel has panicked

procVars == <<free_frames, tables, owned, proc_heap_byte_size, proc_heap_va_end, _allocated_pa, created,
              unchecked, ttbr0, tlb, running, pc, crashed>>
heapOf == <<proc_heap_byte_size, proc_heap_va_end, _allocated_pa>>

ProcInit ==
  /\ free_frames = Frame
  /\ tables = [p \in Process |-> [va \in ProcVA |-> NoFrame]]
  /\ owned = [p \in Process |-> {}]
  /\ proc_heap_byte_size = [p \in Process |-> 0]
  /\ proc_heap_va_end = [p \in Process |-> PROCESS_HEAP_BASE]
  /\ _allocated_pa = [p \in Process |-> <<>>]
  /\ created = {} /\ unchecked = {}
  /\ ttbr0 = NoProcess /\ tlb = {} /\ running = NoProcess
  /\ pc = "user" /\ crashed = FALSE

InProgram == pc = "user" /\ ~crashed

\* The MMU walks the table and caches what it finds. The translations in a TLB do not depend on each
\* other, so that one of them is enough.
Walk(va) ==
  /\ ttbr0 # NoProcess
  /\ tables[ttbr0][va] # NoFrame
  /\ tlb' = {<<va, tables[ttbr0][va]>>}
  /\ UNCHANGED <<free_frames, tables, owned, heapOf, created, unchecked, ttbr0, running, pc, crashed>>
-----------------------------------------------------------------------------
\* The next n frames of fresh_page(), the first free ones first; fewer if there are not so many.
Fresh(n) ==
  LET count == IF n < Cardinality(free_frames) THEN n ELSE Cardinality(free_frames)
  IN [i \in 1 .. count |->
        CHOOSE f \in free_frames : Cardinality({g \in free_frames : g < f}) = i - 1]

\* map_chunk(): each page is mapped over whatever was mapped at its address; replacing a valid entry
\* reloads the TLB.
map_chunk(p, va, pas) ==
  /\ tables' = [tables EXCEPT ![p] = [v \in ProcVA |-> IF v - va + 1 \in DOMAIN pas THEN pas[v - va + 1] ELSE @[v]]]
  /\ tlb' = IF \E i \in DOMAIN pas : tables[p][va + i - 1] # NoFrame THEN {} ELSE tlb

\* create_task_common(): the table, and a stack whose memory is checked.
CreateProcess(p) ==
  /\ InProgram /\ p \notin created
  /\ LET pas == Fresh(STACK_PAGES) IN
     IF Len(pas) < STACK_PAGES
     THEN crashed' = TRUE /\ UNCHANGED <<free_frames, tables, owned, created, tlb>>
     ELSE /\ free_frames' = free_frames \ Range(pas)
          /\ owned' = [owned EXCEPT ![p] = Range(pas)]
          /\ created' = created \cup {p}
          /\ map_chunk(p, PROCESS_STACK_BASE, pas)
          /\ UNCHANGED crashed
  /\ UNCHANGED <<heapOf, unchecked, ttbr0, running, pc>>

\* A segment of create_task(), the arguments of SYS_SPAWN, the pixels of SYS_GET_FRAMEBUFFER: the
\* callers do not ask is_status_okay(). allocate_pages_section() that fails half
\* way gives nothing back, and what map_chunk() finds in _pas for the pages that were not allocated is
\* whatever the array's memory held. Writing into such a chunk fails, which
\* create_task() asserts it does not for a segment with data.
MapChunk(p, va, n, has_data) ==
  /\ InProgram /\ p \in created
  /\ LET got == Fresh(n)
         enough == Len(got) = n
     IN /\ \E rest \in [Len(got) + 1 .. n -> Frame] :
             map_chunk(p, va, [i \in 1 .. n |-> IF i <= Len(got) THEN got[i] ELSE rest[i]])
        /\ free_frames' = free_frames \ Range(got)
        /\ owned' = [owned EXCEPT ![p] = @ \cup Range(got)]
        /\ unchecked' = IF enough THEN unchecked ELSE unchecked \cup {p}
        /\ crashed' = (~enough /\ has_data)
  /\ UNCHANGED <<heapOf, created, ttbr0, running, pc>>
-----------------------------------------------------------------------------
\* The first page that lies behind get_heap_end().
FirstPageBehind(size) == PROCESS_HEAP_BASE + ((size + PROC_PAGE_SIZE - 1) \div PROC_PAGE_SIZE)

\* SYS_SBRK, the loop of change_heap_end() that grows the heap: page by page, as long as there is
\* one. On failure the size stays, and the program is told the previous break.
SysSbrk(offset) ==
  /\ InProgram /\ running # NoProcess
  /\ LET p == running
         size == proc_heap_byte_size[p] + offset
         va_end == proc_heap_va_end[p]
         wanted == IF FirstPageBehind(size) < va_end THEN 0 ELSE FirstPageBehind(size) - va_end
         pas == Fresh(wanted)
     IN /\ FirstPageBehind(size) <= PROCESS_HEAP_BASE + MaxHeapPages
        /\ proc_heap_byte_size' = [proc_heap_byte_size EXCEPT ![p] = size]
        /\ free_frames' = free_frames \ Range(pas)
        /\ owned' = [owned EXCEPT ![p] = @ \cup Range(pas)]
        /\ map_chunk(p, va_end, pas)
        /\ _allocated_pa' = [_allocated_pa EXCEPT ![p] = @ \o pas]
        /\ proc_heap_va_end' = [proc_heap_va_end EXCEPT ![p] = @ + Len(pas)]
        /\ pc' = IF Len(pas) < wanted THEN "user" ELSE "shrink"
  /\ UNCHANGED <<created, unchecked, ttbr0, running, crashed>>

\* The loop that shrinks it: the last page is cleared through its address (a fault if it is in front
\* of the heap), its frame taken from the list, its entry cleared.
ShrinkHeap ==
  /\ pc = "shrink" /\ ~crashed
  /\ LET p == running
         va_to_del == proc_heap_va_end[p] - 1
         again == va_to_del * PROC_PAGE_SIZE >= PROCESS_HEAP_BASE * PROC_PAGE_SIZE + proc_heap_byte_size[p]
     IN /\ pc' = IF again THEN "unmapped" ELSE "user"
        /\ crashed' = (again /\ va_to_del < PROCESS_HEAP_BASE)
        /\ tables' = IF again /\ ~crashed' THEN [tables EXCEPT ![p][va_to_del] = NoFrame] ELSE tables
  /\ UNCHANGED <<free_frames, owned, heapOf, created, unchecked, ttbr0, tlb, running>>

\* Mutant of FreeHeapPage: unmap_range() does not reload the TLB.
FreeHeapPageNoReload ==
  /\ pc = "unmapped" /\ ~crashed
  /\ LET p == running
         frame == Last(_allocated_pa[p])
     IN /\ _allocated_pa' = [_allocated_pa EXCEPT ![p] = Front(@)]
        /\ free_frames' = free_frames \cup {frame}
        /\ owned' = [owned EXCEPT ![p] = @ \ {frame}]
        /\ proc_heap_va_end' = [proc_heap_va_end EXCEPT ![p] = @ - 1]
  /\ pc' = "shrink"
  /\ UNCHANGED <<tables, proc_heap_byte_size, created, unchecked, ttbr0, tlb, running, crashed>>

\* Mutant of FreeHeapPage: the first frame of the list is freed.
FreeHeapPageFirst ==
  /\ pc = "unmapped" /\ ~crashed
  /\ LET p == running
         frame == Head(_allocated_pa[p])
     IN /\ _allocated_pa' = [_allocated_pa EXCEPT ![p] = Tail(@)]
        /\ free_frames' = free_frames \cup {frame}
        /\ owned' = [owned EXCEPT ![p] = @ \ {frame}]
        /\ proc_heap_va_end' = [proc_heap_va_end EXCEPT ![p] = @ - 1]
  /\ tlb' = {} /\ pc' = "shrink"
  /\ UNCHANGED <<tables, proc_heap_byte_size, created, unchecked, ttbr0, running, crashed>>

\* The rest of unmap_range(), which reloads the TLB, and of the loop's body.
FreeHeapPage ==
  /\ pc = "unmapped" /\ ~crashed
  /\ LET p == running
         frame == Last(_allocated_pa[p])
     IN /\ _allocated_pa' = [_allocated_pa EXCEPT ![p] = Front(@)]
        /\ free_frames' = free_frames \cup {frame}
        /\ owned' = [owned EXCEPT ![p] = @ \ {frame}]
        /\ proc_heap_va_end' = [proc_heap_va_end EXCEPT ![p] = @ - 1]
  /\ tlb' = {} /\ pc' = "shrink"
  /\ UNCHANGED <<tables, proc_heap_byte_size, created, unchecked, ttbr0, running, crashed>>
-----------------------------------------------------------------------------
\* activate(), at the switch to program p: TTBR0 is cleared, the TLB reloaded, TTBR0 set, the TLB
\* reloaded again; then the program runs.
Activate(p) ==
  /\ InProgram /\ p \in created /\ p # running
  /\ ttbr0' = NoProcess /\ running' = p /\ pc' = "reload"
  /\ UNCHANGED <<free_frames, tables, owned, heapOf, created, unchecked, tlb, crashed>>

Reload ==
  /\ pc \in {"reload", "reload again"} /\ ~crashed
  /\ tlb' = {} /\ ttbr0' = running
  /\ pc' = IF pc = "reload" THEN "reload again" ELSE "user"
  /\ UNCHANGED <<free_frames, tables, owned, heapOf, created, unchecked, running, crashed>>

ProcNext ==
  \/ \E va \in ProcVA : Walk(va)
  \/ \E p \in Process : CreateProcess(p) \/ Activate(p)
  \/ \E p \in Process, va \in 0 .. LowPages - 1, has_data \in BOOLEAN : \E n \in 1 .. LowPages - va :
       MapChunk(p, va, n, has_data)
  \/ \E n \in Amounts : SysSbrk(n) \/ SysSbrk(-n)
  \/ ShrinkHeap \/ FreeHeapPage \/ Reload

ProcSpec == ProcInit /\ [][ProcNext]_procVars
-----------------------------------------------------------------------------
\* While a program runs, the TLB holds its own translations only, and no outdated one: not the ones
\* of the program before it, which has the same ASID, and not the ones of a page it gave back or
\* mapped over (process_memory.cpp activate(), mmu_table.cpp reload_tlb()).
TlbIsCurrent == InProgram => \A e \in tlb : running # NoProcess /\ tables[running][e[1]] = e[2]

\* A program reaches the frames of its own chunks and heap only, each frame is owned once or free,
\* and the heap's pages are mapped to the heap's frames in the order of the list. Programs that have
\* mapped a chunk without memory are excepted.
NoSharedFrame ==
  /\ \A p, q \in Process : p # q => owned[p] \cap owned[q] = {}
  /\ \A p \in Process :
       /\ owned[p] \cap free_frames = {}
       /\ p \notin unchecked => \A va \in ProcVA : tables[p][va] \in owned[p] \cup {NoFrame}
       /\ ~(p = running /\ pc = "unmapped") =>
            \A va \in PROCESS_HEAP_BASE .. PROCESS_STACK_BASE - 1 :
              tables[p][va] = IF va < proc_heap_va_end[p] THEN _allocated_pa[p][va - PROCESS_HEAP_BASE + 1]
                              ELSE NoFrame
=============================================================================
