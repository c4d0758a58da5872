------------------------ MODULE ProcessMemoryProofs ------------------------
(***************************************************************************)
(* The memory of the programs. The TLB is up to date whenever a program    *)
(* runs, for any number of programs and frames and any sizes, although all *)
(* programs share one ASID and the MMU may walk a table in every gap the   *)
(* kernel leaves; and no frame is shared.                                  *)
(* The loader (at the end): a program finds the data of its file and its   *)
(* arguments, for any files, any arguments, any address space and any      *)
(* sizes of pages and words.                                               *)
(***************************************************************************)
EXTENDS ProcessMemory, Loader, OrderTheorems, FiniteSetTheorems, TLAPS

\* A table for every program, of pages to anything.
IsTables(t) == t = [p \in Process |-> [v \in ProcVA |-> t[p][v]]]

\* The TLB holds translations of the running program only, and they are in its table.
Current == \A e \in tlb : running # NoProcess /\ tables[running][e[1]] = e[2]

\* TTBR0 names the running program or none. The TLB may be behind its table only between the clearing
\* of an entry and the reload, and may hold another program's translations only while TTBR0 names none.
TlbInv ==
  /\ IsTables(tables)
  /\ IsFiniteSet(free_frames)
  /\ proc_heap_byte_size \in [Process -> Int] /\ proc_heap_va_end \in [Process -> Int]
  /\ created \subseteq Process /\ running \in created \cup {NoProcess}
  /\ ttbr0 \in {NoProcess, running}
  /\ \A e \in tlb : e[1] \in ProcVA /\ e[2] # NoFrame
  /\ pc \in {"user", "shrink", "unmapped", "reload", "reload again"}
  /\ pc # "user" => running # NoProcess
  /\ pc \in {"user", "shrink"} => Current

\* There are finitely many frames.
LEMMA FramesFinite ==
  ASSUME NEW S, S \subseteq Frame
  PROVE  IsFiniteSet(S)
<1>1. 0 \in Int /\ NB_FRAMES - 1 \in Int
  BY FrameAssumption
<1>2. IsFiniteSet(Frame)
  BY <1>1, FS_Interval DEF Frame
<1> QED
  BY <1>2, FS_Subset

\* What fresh_page() gives is numbered from 1.
LEMMA FreshDomain ==
  ASSUME IsFiniteSet(free_frames), NEW n \in Nat
  PROVE  DOMAIN Fresh(n) \subseteq Int /\ Len(Fresh(n)) \in Nat
<1>1. Cardinality(free_frames) \in Nat
  BY FS_CardinalityType
<1> QED
  BY <1>1 DEF Fresh

\* The first page behind a break is a number.
LEMMA PageBehindInt ==
  ASSUME NEW size \in Int
  PROVE  FirstPageBehind(size) \in Int
<1>1. size + PROC_PAGE_SIZE - 1 \in Int
  BY SizeAssumption
<1>2. (size + PROC_PAGE_SIZE - 1) \div PROC_PAGE_SIZE \in Int
  BY <1>1, SizeAssumption
<1> QED
  BY <1>2, SizeAssumption DEF FirstPageBehind, PROCESS_HEAP_BASE

\* Mapping pages of any program keeps the TLB current: what it replaces is no longer in the TLB, and
\* what was not mapped has never been in it.
LEMMA MapKeepsCurrent ==
  ASSUME TlbInv, pc = "user", NEW p \in Process, NEW va \in Int, NEW pas, DOMAIN pas \subseteq Int,
         map_chunk(p, va, pas), UNCHANGED running
  PROVE  IsTables(tables') /\ (\A e \in tlb' : e[1] \in ProcVA /\ e[2] # NoFrame) /\ Current'
<1>1. \A q \in Process, v \in ProcVA :
        tables'[q][v] = IF q = p /\ v - va + 1 \in DOMAIN pas THEN pas[v - va + 1] ELSE tables[q][v]
  BY DEF map_chunk, TlbInv, IsTables
<1>2. IsTables(tables')
  BY DEF map_chunk, TlbInv, IsTables
<1>3. CASE \E i \in DOMAIN pas : tables[p][va + i - 1] # NoFrame
  <2>1. tlb' = {}
    BY <1>3 DEF map_chunk
  <2> QED
    BY <1>2, <2>1 DEF Current
<1>4. CASE \A i \in DOMAIN pas : tables[p][va + i - 1] = NoFrame
  <2>1. tlb' = tlb
    BY <1>4 DEF map_chunk
  <2>2. ASSUME NEW e \in tlb PROVE running # NoProcess /\ tables'[running][e[1]] = e[2]
    <3>1. /\ running # NoProcess /\ running \in Process /\ e[1] \in ProcVA /\ e[1] \in Int
          /\ tables[running][e[1]] = e[2] /\ e[2] # NoFrame
      BY <2>2, SizeAssumption DEF TlbInv, Current, ProcVA, PROCESS_STACK_BASE
    <3>2. ~(running = p /\ e[1] - va + 1 \in DOMAIN pas)
      <4>1. va + (e[1] - va + 1) - 1 = e[1]
        BY <3>1
      <4> QED
        BY <1>4, <3>1, <4>1
    <3> QED
      BY <1>1, <3>1, <3>2
  <2>3. Current'
    BY <2>1, <2>2 DEF Current
  <2> QED
    BY <1>2, <2>1, <2>3 DEF TlbInv
<1> QED
  BY <1>3, <1>4
-----------------------------------------------------------------------------
\* One step of the programs' memory or of the MMU.
LEMMA TlbStep ==
  ASSUME TlbInv, [ProcNext]_procVars
  PROVE  TlbInv'
<1>1. ASSUME NEW va \in ProcVA, Walk(va) PROVE TlbInv'
  <2>1. /\ UNCHANGED <<free_frames, tables, proc_heap_byte_size, proc_heap_va_end, created, ttbr0, running, pc>>
        /\ ttbr0 # NoProcess /\ tables[ttbr0][va] # NoFrame /\ tlb' = {<<va, tables[ttbr0][va]>>}
    BY <1>1 DEF Walk, heapOf
  <2>2. ttbr0 = running /\ running # NoProcess
    BY <2>1 DEF TlbInv
  <2>3. \A e \in tlb' : e[1] = va /\ e[2] = tables[running][va]
    BY <2>1, <2>2
  <2>4. Current' /\ \A e \in tlb' : e[1] \in ProcVA /\ e[2] # NoFrame
    BY <2>1, <2>2, <2>3 DEF Current
  <2> QED
    BY <2>1, <2>4 DEF TlbInv, IsTables
<1>2. ASSUME NEW p \in Process, CreateProcess(p) PROVE TlbInv'
  <2>1. /\ pc = "user" /\ pc' = "user"
        /\ UNCHANGED <<proc_heap_byte_size, proc_heap_va_end, ttbr0, running>>
    BY <1>2 DEF CreateProcess, InProgram, heapOf
  <2>2. CASE Len(Fresh(STACK_PAGES)) < STACK_PAGES
    <3>1. UNCHANGED <<free_frames, tables, created, tlb>>
      BY <1>2, <2>2 DEF CreateProcess
    <3> QED
      BY <2>1, <3>1 DEF TlbInv, IsTables, Current
  <2>3. CASE ~(Len(Fresh(STACK_PAGES)) < STACK_PAGES)
    <3>1. /\ map_chunk(p, PROCESS_STACK_BASE, Fresh(STACK_PAGES))
          /\ free_frames' \subseteq free_frames /\ created' = created \cup {p}
      BY <1>2, <2>3 DEF CreateProcess
    <3>2. DOMAIN Fresh(STACK_PAGES) \subseteq Int /\ PROCESS_STACK_BASE \in Int
      <4>1. STACK_PAGES \in Nat /\ IsFiniteSet(free_frames)
        BY SizeAssumption DEF TlbInv
      <4>2. DOMAIN Fresh(STACK_PAGES) \subseteq Int
        BY <4>1, FreshDomain
      <4>3. PROCESS_STACK_BASE \in Int
        BY SizeAssumption DEF PROCESS_STACK_BASE
      <4> QED
        BY <4>2, <4>3
    <3>3. IsTables(tables') /\ (\A e \in tlb' : e[1] \in ProcVA /\ e[2] # NoFrame) /\ Current'
      BY <2>1, <3>1, <3>2, MapKeepsCurrent
    <3>4. IsFiniteSet(free_frames')
      BY <3>1, FS_Subset DEF TlbInv
    <3> QED
      BY <2>1, <3>1, <3>3, <3>4 DEF TlbInv
  <2> QED
    BY <2>2, <2>3
<1>3. ASSUME NEW p \in Process, NEW va \in 0 .. LowPages - 1, NEW has_data \in BOOLEAN,
             NEW n \in 1 .. LowPages - va, MapChunk(p, va, n, has_data)
      PROVE  TlbInv'
  <2>1. /\ pc = "user" /\ pc' = "user" /\ free_frames' \subseteq free_frames
        /\ UNCHANGED <<proc_heap_byte_size, proc_heap_va_end, created, ttbr0, running>>
    BY <1>3 DEF MapChunk, InProgram, heapOf
  <2>2. PICK pas : DOMAIN pas = 1 .. n /\ map_chunk(p, va, pas)
    BY <1>3 DEF MapChunk
  <2>3. va \in Int /\ DOMAIN pas \subseteq Int
    BY <2>2, SizeAssumption
  <2>4. IsTables(tables') /\ (\A e \in tlb' : e[1] \in ProcVA /\ e[2] # NoFrame) /\ Current'
    BY <2>1, <2>2, <2>3, MapKeepsCurrent
  <2>5. IsFiniteSet(free_frames')
    BY <2>1, FS_Subset DEF TlbInv
  <2> QED
    BY <2>1, <2>4, <2>5 DEF TlbInv
<1>4. ASSUME NEW offset \in Int, SysSbrk(offset) PROVE TlbInv'
  <2> DEFINE size == proc_heap_byte_size[running] + offset
             va_end == proc_heap_va_end[running]
             wanted == IF FirstPageBehind(size) < va_end THEN 0 ELSE FirstPageBehind(size) - va_end
             pas == Fresh(wanted)
  <2>1. /\ pc = "user" /\ pc' \in {"user", "shrink"} /\ running # NoProcess
        /\ UNCHANGED <<created, ttbr0, running>>
    BY <1>4 DEF SysSbrk, InProgram
  <2>2. running \in Process /\ size \in Int /\ va_end \in Int
    BY <2>1 DEF TlbInv
  <2>3. wanted \in Nat
    BY <2>2, PageBehindInt
  <2>4. DOMAIN pas \subseteq Int /\ Len(pas) \in Nat
    BY <2>3, FreshDomain DEF TlbInv
  <2>5. /\ proc_heap_byte_size' = [proc_heap_byte_size EXCEPT ![running] = size]
        /\ free_frames' \subseteq free_frames
        /\ map_chunk(running, va_end, pas)
        /\ proc_heap_va_end' = [proc_heap_va_end EXCEPT ![running] = @ + Len(pas)]
    BY <1>4 DEF SysSbrk
  <2> HIDE DEF pas, size, va_end
  <2>6. IsTables(tables') /\ (\A e \in tlb' : e[1] \in ProcVA /\ e[2] # NoFrame) /\ Current'
    BY <2>1, <2>2, <2>4, <2>5, MapKeepsCurrent
  <2>7. proc_heap_byte_size' \in [Process -> Int]
    BY <2>2, <2>5 DEF TlbInv
  <2>8. proc_heap_va_end' \in [Process -> Int]
    <3>1. proc_heap_va_end \in [Process -> Int]
      BY DEF TlbInv
    <3>2. proc_heap_va_end[running] \in Int
      BY <2>2, <3>1
    <3>3. proc_heap_va_end[running] + Len(pas) \in Int
      BY <2>4, <3>2
    <3> QED
      BY <2>2, <2>5, <3>1, <3>3
  <2>9. IsFiniteSet(free_frames')
    BY <2>5, FS_Subset DEF TlbInv
  <2> QED
    BY <2>1, <2>6, <2>7, <2>8, <2>9 DEF TlbInv
<1>5. CASE ShrinkHeap
  <2>1. /\ pc = "shrink" /\ pc' \in {"unmapped", "user"}
        /\ UNCHANGED <<free_frames, proc_heap_byte_size, proc_heap_va_end, created, ttbr0, tlb, running>>
        /\ pc' = "user" => tables' = tables
    BY <1>5 DEF ShrinkHeap, heapOf
  <2>2. IsTables(tables')
    BY <1>5 DEF ShrinkHeap, TlbInv, IsTables
  <2> QED
    BY <2>1, <2>2 DEF TlbInv, Current
<1>6. CASE FreeHeapPage
  <2>1. /\ pc = "unmapped" /\ pc' = "shrink" /\ tlb' = {}
        /\ UNCHANGED <<tables, proc_heap_byte_size, created, ttbr0, running>>
    BY <1>6 DEF FreeHeapPage
  <2>2. IsFiniteSet(free_frames')
    BY <1>6, FS_AddElement DEF FreeHeapPage, TlbInv
  <2>3. proc_heap_va_end' \in [Process -> Int]
    <3>1. proc_heap_va_end' = [proc_heap_va_end EXCEPT ![running] = @ - 1]
      BY <1>6 DEF FreeHeapPage
    <3>2. running \in Process /\ proc_heap_va_end \in [Process -> Int]
      BY <2>1 DEF TlbInv
    <3> QED
      BY <3>1, <3>2
  <2>4. Current'
    BY <2>1 DEF Current
  <2> QED
    BY <2>1, <2>2, <2>3, <2>4 DEF TlbInv, IsTables
<1>7. ASSUME NEW p \in Process, Activate(p) PROVE TlbInv'
  <2>1. /\ p \in created /\ running' = p /\ ttbr0' = NoProcess /\ pc' = "reload"
        /\ UNCHANGED <<free_frames, tables, proc_heap_byte_size, proc_heap_va_end, created, tlb>>
    BY <1>7 DEF Activate, heapOf
  <2>2. running' # NoProcess
    BY <2>1, NoneAssumption
  <2> QED
    BY <2>1, <2>2 DEF TlbInv, IsTables
<1>8. CASE Reload
  BY <1>8 DEF Reload, TlbInv, IsTables, heapOf, Current
<1>9. CASE UNCHANGED procVars
  BY <1>9 DEF procVars, TlbInv, IsTables, Current
<1>10. \A n \in Amounts : n \in Int /\ -n \in Int
  BY SizeAssumption
<1> QED
  BY <1>1, <1>2, <1>3, <1>4, <1>5, <1>6, <1>7, <1>8, <1>9, <1>10 DEF ProcNext

\* A program never runs with a translation of another program, of a page it gave back or of a page it
\* mapped over: activate(), map_range() and unmap_range() reload the TLB where it is needed, for any
\* number of programs.
THEOREM TlbCorrect == ProcSpec => []TlbIsCurrent
<1>1. ProcInit => TlbInv
  BY FramesFinite, SizeAssumption DEF ProcInit, TlbInv, IsTables, Current, PROCESS_HEAP_BASE
<1>2. TlbInv /\ [ProcNext]_procVars => TlbInv'
  BY TlbStep
<1>3. TlbInv => TlbIsCurrent
  BY DEF TlbInv, TlbIsCurrent, Current, InProgram
<1> QED
  BY <1>1, <1>2, <1>3, PTL DEF ProcSpec
-----------------------------------------------------------------------------
(***************************************************************************)
(* Frames.                                                                 *)
(***************************************************************************)

\* A program owns frames that nobody else owns and that are not free.
Ownership ==
  /\ free_frames \subseteq Frame
  /\ owned \in [Process -> SUBSET Frame]
  /\ \A p \in Process : owned[p] \cap free_frames = {}
  /\ \A p, q \in Process : p # q => owned[p] \cap owned[q] = {}

\* A table leads to the frames of its program, and to none of them twice: giving one back leaves no
\* other way to it.
OwnTable(p) ==
  /\ \A va \in ProcVA : tables[p][va] \in owned[p] \cup {NoFrame}
  /\ \A v, w \in ProcVA : tables[p][v] = tables[p][w] /\ tables[p][v] # NoFrame => v = w

\* The end of the pages that are mapped for the heap: one less where the last one was just unmapped.
MappedEnd(p) == IF p = running /\ pc = "unmapped" THEN proc_heap_va_end[p] - 1 ELSE proc_heap_va_end[p]

\* The heap's pages are mapped to the heap's frames, in order.
HeapMapped(p) ==
  \A va \in PROCESS_HEAP_BASE .. PROCESS_STACK_BASE - 1 :
    tables[p][va] = IF va < MappedEnd(p) THEN _allocated_pa[p][va - PROCESS_HEAP_BASE + 1] ELSE NoFrame

\* The heap's frames are the program's, each is there once, and they are as many as mapped pages.
HeapList ==
  /\ _allocated_pa \in [Process -> Seq(Frame)]
  /\ \A p \in Process :
       /\ proc_heap_va_end[p] = PROCESS_HEAP_BASE + Len(_allocated_pa[p])
       /\ Len(_allocated_pa[p]) <= MaxHeapPages
       /\ \A i \in 1 .. Len(_allocated_pa[p]) : _allocated_pa[p][i] \in owned[p]
       /\ \A i, j \in 1 .. Len(_allocated_pa[p]) : _allocated_pa[p][i] = _allocated_pa[p][j] => i = j

\* A program that does not exist has nothing.
NotCreated ==
  \A p \in Process : p \notin created =>
    owned[p] = {} /\ p \notin unchecked /\ \A va \in ProcVA : tables[p][va] = NoFrame

\* The frame that the heap is about to give back is no longer mapped anywhere.
GivingBack ==
  pc = "unmapped" /\ ~crashed =>
    /\ Len(_allocated_pa[running]) > 0
    /\ running \notin unchecked =>
         \A va \in ProcVA : tables[running][va] # _allocated_pa[running][Len(_allocated_pa[running])]

\* All of it: who owns a frame, which pages lead to it, and what the heaps hold.
FrameInv ==
  /\ TlbInv /\ Ownership /\ HeapList /\ NotCreated /\ GivingBack
  /\ crashed \in BOOLEAN
  /\ \A p \in Process : p \notin unchecked => OwnTable(p)
  /\ \A p \in Process : HeapMapped(p)

\* Counting the members of a set of numbers from below reaches every number up to its size.
LEMMA RankExists ==
  ASSUME NEW S, S \subseteq Frame, NEW k \in Nat, k < Cardinality(S)
  PROVE  \E f \in S : Cardinality({g \in S : g < f}) = k
<1> DEFINE Below(m) == {g \in S : g < m}
           U == {m \in Nat : k < Cardinality(Below(m))}
<1>0. \A g \in S : g \in Nat /\ g < NB_FRAMES
  BY FrameAssumption DEF Frame
<1>1. IsFiniteSet(S)
  BY FramesFinite
<1>2. \A m \in Nat : IsFiniteSet(Below(m)) /\ Cardinality(Below(m)) \in Nat
  <2> TAKE m \in Nat
  <2>1. Below(m) \in SUBSET S
    OBVIOUS
  <2>2. IsFiniteSet(Below(m))
    BY <1>1, <2>1, FS_Subset
  <2> QED
    BY <2>2, FS_CardinalityType
<1>3. NB_FRAMES \in U
  <2>1. Below(NB_FRAMES) = S
    BY <1>0
  <2> QED
    BY <2>1, FrameAssumption
<1>4. PICK m \in U : \A j \in U : m <= j
  BY <1>3, LeastNatural
<1>5. m # 0
  <2>1. Below(0) = {}
    BY <1>0
  <2>2. Cardinality(Below(0)) = 0
    BY <2>1, FS_EmptySet
  <2> QED
    BY <2>2
<1>6. m - 1 \in Nat /\ m - 1 \notin U
  BY <1>4, <1>5
<1>7. Cardinality(Below(m - 1)) <= k
  BY <1>2, <1>6
<1>8. Below(m) = IF m - 1 \in S THEN Below(m - 1) \cup {m - 1} ELSE Below(m - 1)
  BY <1>0, <1>6
<1>9. k < Cardinality(Below(m))
  BY <1>4
<1>10. m - 1 \in S
  BY <1>2, <1>6, <1>7, <1>8, <1>9
<1>11. Cardinality(Below(m)) = Cardinality(Below(m - 1)) + 1
  <2>1. m - 1 \notin Below(m - 1)
    BY <1>6
  <2> QED
    BY <1>2, <1>6, <1>8, <1>10, <2>1, FS_AddElement
<1>12. Cardinality(Below(m - 1)) \in Nat /\ Cardinality(Below(m)) \in Nat
  BY <1>2, <1>4, <1>6
<1> HIDE DEF Below
<1>13. Cardinality(Below(m - 1)) = k
  BY <1>7, <1>9, <1>11, <1>12
<1> QED
  BY <1>10, <1>13 DEF Below

\* fresh_page(), n times: different frames, all of them free before.
LEMMA FreshFrames ==
  ASSUME free_frames \subseteq Frame, NEW n \in Nat
  PROVE  /\ Fresh(n) \in Seq(Frame) /\ Len(Fresh(n)) <= n
         /\ DOMAIN Fresh(n) = 1 .. Len(Fresh(n)) /\ Len(Fresh(n)) \in Nat
         /\ \A i \in 1 .. Len(Fresh(n)) : Fresh(n)[i] \in free_frames
         /\ \A i, j \in 1 .. Len(Fresh(n)) : Fresh(n)[i] = Fresh(n)[j] => i = j
<1> DEFINE count == IF n < Cardinality(free_frames) THEN n ELSE Cardinality(free_frames)
           Rank(f) == Cardinality({g \in free_frames : g < f})
           F == [i \in 1 .. count |-> CHOOSE f \in free_frames : Rank(f) = i - 1]
<1>1. Cardinality(free_frames) \in Nat
  BY FramesFinite, FS_CardinalityType
<1>2. count \in Nat /\ count <= n /\ count <= Cardinality(free_frames)
  BY <1>1
<1>3. Fresh(n) = F
  BY DEF Fresh
<1> HIDE DEF count
<1>4. ASSUME NEW i \in 1 .. count PROVE F[i] \in free_frames /\ Rank(F[i]) = i - 1
  <2>1. i - 1 \in Nat /\ i - 1 < Cardinality(free_frames)
    BY <1>1, <1>2
  <2>2. \E f \in free_frames : Rank(f) = i - 1
    BY <2>1, RankExists
  <2> QED
    BY <2>2
<1>5. \A i \in 1 .. count : F[i] \in Frame
  BY <1>4
<1>6. F \in [1 .. count -> Frame]
  BY <1>5
<1>8. \A i, j \in 1 .. count : F[i] = F[j] => i = j
  <2> SUFFICES ASSUME NEW i \in 1 .. count, NEW j \in 1 .. count, F[i] = F[j] PROVE i = j
    OBVIOUS
  <2>1. i - 1 = j - 1
    BY <1>4
  <2> QED
    BY <1>2, <2>1
<1> HIDE DEF F
<1>9. F \in Seq(Frame) /\ Len(F) = count /\ DOMAIN F = 1 .. count
  BY <1>2, <1>6
<1> QED
  BY <1>2, <1>3, <1>4, <1>8, <1>9

\* Pages and frames are numbers.
LEMMA FrameTypes ==
  ASSUME FrameInv
  PROVE  /\ IsTables(tables) /\ Ownership /\ HeapList /\ NotCreated /\ GivingBack
         /\ created \subseteq Process /\ running \in created \cup {NoProcess}
         /\ pc # "user" => running # NoProcess
         /\ proc_heap_byte_size \in [Process -> Int] /\ proc_heap_va_end \in [Process -> Int]
         /\ \A p \in Process : p \notin unchecked => OwnTable(p)
         /\ \A p \in Process : HeapMapped(p)
BY DEF FrameInv, TlbInv

\* Where the heap and the stack lie.
LEMMA Layout ==
  /\ PROCESS_HEAP_BASE \in Nat /\ PROCESS_STACK_BASE \in Nat
  /\ PROCESS_HEAP_BASE = LowPages /\ PROCESS_STACK_BASE = LowPages + MaxHeapPages + 1
  /\ ProcVA \subseteq Nat
  /\ \A va \in PROCESS_HEAP_BASE .. PROCESS_STACK_BASE - 1 : va \in ProcVA
BY SizeAssumption DEF PROCESS_HEAP_BASE, PROCESS_STACK_BASE, ProcVA

\* A step that leaves frames, tables and heaps alone.
LEMMA FrameRest ==
  ASSUME FrameInv, TlbInv', crashed' \in BOOLEAN,
         UNCHANGED <<free_frames, tables, owned, heapOf, created, unchecked>>,
         pc' = "unmapped" /\ ~crashed' => pc = "unmapped" /\ ~crashed /\ running' = running,
         \A p \in Process : MappedEnd(p)' = MappedEnd(p)
  PROVE  FrameInv'
<1>1. Ownership' /\ HeapList' /\ NotCreated' /\ GivingBack'
  BY DEF FrameInv, Ownership, HeapList, NotCreated, GivingBack, heapOf
<1>2. \A p \in Process : p \notin unchecked => OwnTable(p)'
  BY DEF FrameInv, OwnTable
<1>3. \A p \in Process : HeapMapped(p)'
  BY DEF FrameInv, HeapMapped, heapOf
<1> QED
  BY <1>1, <1>2, <1>3 DEF FrameInv

\* Frames that were free become a program's.
LEMMA TakeFrames ==
  ASSUME Ownership, NEW p \in Process, NEW T, T \subseteq free_frames,
         free_frames' = free_frames \ T, owned' = [owned EXCEPT ![p] = @ \cup T]
  PROVE  /\ Ownership'
         /\ owned'[p] = owned[p] \cup T
         /\ \A q \in Process : q # p => owned'[q] = owned[q]
<1>1. owned'[p] = owned[p] \cup T /\ \A q \in Process : q # p => owned'[q] = owned[q]
  BY DEF Ownership
<1>2. owned' \in [Process -> SUBSET Frame] /\ free_frames' \subseteq Frame
  BY DEF Ownership
<1>3. \A q \in Process : owned'[q] \cap free_frames' = {}
  BY <1>1 DEF Ownership
<1>4. \A q, r \in Process : q # r => owned'[q] \cap owned'[r] = {}
  BY <1>1 DEF Ownership
<1> QED
  BY <1>1, <1>2, <1>3, <1>4 DEF Ownership

\* What map_chunk() does to a table.
LEMMA MapTables ==
  ASSUME IsTables(tables), NEW p \in Process, NEW va \in Int, NEW pas, map_chunk(p, va, pas)
  PROVE  /\ \A v \in ProcVA :
              tables'[p][v] = IF v - va + 1 \in DOMAIN pas THEN pas[v - va + 1] ELSE tables[p][v]
         /\ \A q \in Process, v \in ProcVA : q # p => tables'[q][v] = tables[q][v]
BY DEF map_chunk, IsTables

\* A chunk of frames that were free keeps a table one to one.
LEMMA MapOwn ==
  ASSUME IsTables(tables), Ownership, NEW p \in Process, NEW va \in Int, NEW pas, DOMAIN pas \subseteq Int,
         map_chunk(p, va, pas), OwnTable(p),
         \A i \in DOMAIN pas : pas[i] \in free_frames /\ pas[i] \in owned'[p],
         \A i, j \in DOMAIN pas : pas[i] = pas[j] => i = j,
         owned[p] \subseteq owned'[p]
  PROVE  OwnTable(p)'
<1>1. \A v \in ProcVA :
        tables'[p][v] = IF v - va + 1 \in DOMAIN pas THEN pas[v - va + 1] ELSE tables[p][v]
  BY MapTables
<1>2. \A v \in ProcVA : tables'[p][v] \in owned'[p] \cup {NoFrame}
  BY <1>1 DEF OwnTable
<1>3. ASSUME NEW v \in ProcVA, NEW w \in ProcVA, tables'[p][v] = tables'[p][w], tables'[p][v] # NoFrame
      PROVE  v = w
  <2>1. v \in Int /\ w \in Int
    BY Layout
  <2>2. CASE v - va + 1 \in DOMAIN pas /\ w - va + 1 \in DOMAIN pas
    <3>1. v - va + 1 = w - va + 1
      BY <1>1, <1>3, <2>2
    <3> QED
      BY <2>1, <3>1
  <2>3. CASE v - va + 1 \in DOMAIN pas /\ w - va + 1 \notin DOMAIN pas
    <3>1. tables'[p][v] \in free_frames /\ tables'[p][w] \in owned[p] \cup {NoFrame}
      BY <1>1, <2>3 DEF OwnTable
    <3> QED
      BY <1>3, <3>1 DEF Ownership
  <2>4. CASE v - va + 1 \notin DOMAIN pas /\ w - va + 1 \in DOMAIN pas
    <3>1. tables'[p][w] \in free_frames /\ tables'[p][v] \in owned[p] \cup {NoFrame}
      BY <1>1, <2>4 DEF OwnTable
    <3> QED
      BY <1>3, <3>1 DEF Ownership
  <2>5. CASE v - va + 1 \notin DOMAIN pas /\ w - va + 1 \notin DOMAIN pas
    BY <1>1, <1>3, <2>5 DEF OwnTable
  <2> QED
    BY <2>2, <2>3, <2>4, <2>5
<1> QED
  BY <1>2, <1>3 DEF OwnTable

\* A chunk that is mapped outside of the heap, with all the memory it asked for or without.
LEMMA ChunkFrames ==
  ASSUME FrameInv, TlbInv', pc = "user", pc' = "user", crashed' \in BOOLEAN,
         UNCHANGED <<heapOf, running>>,
         NEW p \in Process, NEW va \in Int, NEW pas, DOMAIN pas \subseteq Int, map_chunk(p, va, pas),
         \A v \in PROCESS_HEAP_BASE .. PROCESS_STACK_BASE - 1 : v - va + 1 \notin DOMAIN pas,
         NEW T, T \subseteq free_frames, free_frames' = free_frames \ T,
         owned' = [owned EXCEPT ![p] = @ \cup T],
         created \subseteq created', p \in created', unchecked \subseteq unchecked',
         unchecked' \subseteq unchecked \cup {p},
         p \notin unchecked' => /\ \A i \in DOMAIN pas : pas[i] \in T
                                /\ \A i, j \in DOMAIN pas : pas[i] = pas[j] => i = j
  PROVE  FrameInv'
<1>1. /\ IsTables(tables) /\ Ownership /\ HeapList /\ NotCreated
      /\ \A q \in Process : q \notin unchecked => OwnTable(q)
      /\ \A q \in Process : HeapMapped(q)
  BY FrameTypes
<1>2. /\ Ownership' /\ owned'[p] = owned[p] \cup T
      /\ \A q \in Process : q # p => owned'[q] = owned[q]
  BY <1>1, TakeFrames
<1>3. /\ \A v \in ProcVA :
           tables'[p][v] = IF v - va + 1 \in DOMAIN pas THEN pas[v - va + 1] ELSE tables[p][v]
      /\ \A q \in Process, v \in ProcVA : q # p => tables'[q][v] = tables[q][v]
  BY <1>1, MapTables
<1>4. HeapList'
  <2>1. UNCHANGED <<_allocated_pa, proc_heap_va_end>>
    BY DEF heapOf
  <2>2. \A q \in Process : owned[q] \subseteq owned'[q]
    BY <1>2
  <2> QED
    BY <1>1, <2>1, <2>2 DEF HeapList
<1>5. NotCreated'
  BY <1>1, <1>2, <1>3 DEF NotCreated
<1>6. GivingBack'
  BY DEF GivingBack
<1>7. ASSUME NEW q \in Process, q \notin unchecked' PROVE OwnTable(q)'
  <2>1. OwnTable(q)
    BY <1>1, <1>7
  <2>2. CASE q = p
    BY <1>1, <1>2, <1>7, <2>1, <2>2, MapOwn
  <2>3. CASE q # p
    BY <1>2, <1>3, <2>1, <2>3 DEF OwnTable
  <2> QED
    BY <2>2, <2>3
<1>8. ASSUME NEW q \in Process PROVE HeapMapped(q)'
  <2>1. MappedEnd(q)' = MappedEnd(q) /\ _allocated_pa' = _allocated_pa
    BY DEF MappedEnd, heapOf
  <2>2. \A v \in PROCESS_HEAP_BASE .. PROCESS_STACK_BASE - 1 : tables'[q][v] = tables[q][v]
    BY <1>3, Layout
  <2>3. HeapMapped(q)
    BY <1>1
  <2> QED
    BY <2>1, <2>2, <2>3 DEF HeapMapped
<1> QED
  BY <1>2, <1>4, <1>5, <1>6, <1>7, <1>8 DEF FrameInv

\* create_task_common() takes the frames of the stack or gives up.
LEMMA CreateFrames ==
  ASSUME FrameInv, TlbInv', NEW p \in Process, CreateProcess(p)
  PROVE  FrameInv'
<1> DEFINE pas == Fresh(STACK_PAGES)
<1>1. pc = "user" /\ pc' = "user" /\ crashed = FALSE /\ p \notin created
      /\ UNCHANGED <<heapOf, unchecked, running>>
  BY DEF CreateProcess, InProgram, FrameInv
<1>2. CASE Len(pas) < STACK_PAGES
  <2>1. crashed' = TRUE /\ UNCHANGED <<free_frames, tables, owned, created>>
    BY <1>2 DEF CreateProcess
  <2>2. \A q \in Process : MappedEnd(q)' = MappedEnd(q)
    BY <1>1 DEF MappedEnd, heapOf
  <2> QED
    BY <1>1, <2>1, <2>2, FrameRest
<1>3. CASE ~(Len(pas) < STACK_PAGES)
  <2>1. /\ map_chunk(p, PROCESS_STACK_BASE, pas)
        /\ free_frames' = free_frames \ Range(pas)
        /\ owned' = [owned EXCEPT ![p] = Range(pas)]
        /\ created' = created \cup {p} /\ crashed' = crashed
    BY <1>3 DEF CreateProcess
  <2>2. Ownership /\ NotCreated
    BY FrameTypes
  <2>3. /\ DOMAIN pas = 1 .. Len(pas) /\ Len(pas) \in Nat
        /\ \A i \in 1 .. Len(pas) : pas[i] \in free_frames
        /\ \A i, j \in 1 .. Len(pas) : pas[i] = pas[j] => i = j
    BY <2>2, SizeAssumption, FreshFrames DEF Ownership
  <2> HIDE DEF pas
  <2>4. Range(pas) \subseteq free_frames /\ \A i \in DOMAIN pas : pas[i] \in Range(pas)
    BY <2>3 DEF Range
  <2>5. owned' = [owned EXCEPT ![p] = @ \cup Range(pas)]
    <3>1. owned[p] = {}
      BY <1>1, <2>2 DEF NotCreated
    <3> QED
      BY <2>1, <3>1
  <2>6. \A v \in PROCESS_HEAP_BASE .. PROCESS_STACK_BASE - 1 : v - PROCESS_STACK_BASE + 1 \notin DOMAIN pas
    BY <2>3, Layout
  <2>7. PROCESS_STACK_BASE \in Int /\ DOMAIN pas \subseteq Int
    BY <2>3, Layout
  <2>8. /\ UNCHANGED <<heapOf, running>> /\ created \subseteq created' /\ p \in created'
        /\ unchecked \subseteq unchecked' /\ unchecked' \subseteq unchecked \cup {p}
        /\ crashed' \in BOOLEAN
    BY <1>1, <2>1
  <2>9. /\ \A i \in DOMAIN pas : pas[i] \in Range(pas)
        /\ \A i, j \in DOMAIN pas : pas[i] = pas[j] => i = j
    BY <2>3, <2>4
  <2>10. pc = "user" /\ pc' = "user" /\ map_chunk(p, PROCESS_STACK_BASE, pas)
         /\ free_frames' = free_frames \ Range(pas) /\ Range(pas) \subseteq free_frames
    BY <1>1, <2>1, <2>4
  <2> QED
    BY <2>5, <2>6, <2>7, <2>8, <2>9, <2>10, ChunkFrames
<1> QED
  BY <1>2, <1>3

\* A segment, the arguments or the pixels of a window.
LEMMA MapChunkFrames ==
  ASSUME FrameInv, TlbInv', NEW p \in Process, NEW va \in 0 .. LowPages - 1, NEW has_data \in BOOLEAN,
         NEW n \in 1 .. LowPages - va, MapChunk(p, va, n, has_data)
  PROVE  FrameInv'
<1> DEFINE got == Fresh(n)
<1>1. /\ pc = "user" /\ pc' = "user" /\ p \in created
      /\ UNCHANGED <<heapOf, created, running>>
      /\ free_frames' = free_frames \ Range(got)
      /\ owned' = [owned EXCEPT ![p] = @ \cup Range(got)]
      /\ unchecked' = IF Len(got) = n THEN unchecked ELSE unchecked \cup {p}
      /\ crashed' = (Len(got) # n /\ has_data)
  BY DEF MapChunk, InProgram
<1>2. PICK rest : map_chunk(p, va, [i \in 1 .. n |-> IF i <= Len(got) THEN got[i] ELSE rest[i]])
  BY DEF MapChunk
<1>3. n \in Nat /\ va \in Int /\ va + n <= LowPages
  BY SizeAssumption
<1>4. /\ DOMAIN got = 1 .. Len(got) /\ Len(got) \in Nat /\ Len(got) <= n
      /\ \A i \in 1 .. Len(got) : got[i] \in free_frames
      /\ \A i, j \in 1 .. Len(got) : got[i] = got[j] => i = j
  BY <1>3, FrameTypes, FreshFrames DEF Ownership
<1> HIDE DEF got
<1>5. Range(got) \subseteq free_frames /\ \A i \in DOMAIN got : got[i] \in Range(got)
  BY <1>4 DEF Range
<1> DEFINE pas == [i \in 1 .. n |-> IF i <= Len(got) THEN got[i] ELSE rest[i]]
<1>6. DOMAIN pas = 1 .. n /\ DOMAIN pas \subseteq Int
  BY <1>3
<1>7. \A v \in PROCESS_HEAP_BASE .. PROCESS_STACK_BASE - 1 : v - va + 1 \notin 1 .. n
  BY <1>3, Layout, SizeAssumption
<1>8. p \notin unchecked' => /\ \A i \in 1 .. n : pas[i] \in Range(got)
                             /\ \A i, j \in 1 .. n : pas[i] = pas[j] => i = j
  <2> SUFFICES ASSUME p \notin unchecked'
               PROVE  /\ \A i \in 1 .. n : pas[i] \in Range(got)
                      /\ \A i, j \in 1 .. n : pas[i] = pas[j] => i = j
    OBVIOUS
  <2>1. Len(got) = n
    BY <1>1
  <2>2. \A i \in 1 .. n : pas[i] = got[i]
    BY <1>3, <2>1
  <2> QED
    BY <1>4, <1>5, <2>1, <2>2
<1>9. /\ crashed' \in BOOLEAN /\ created \subseteq created' /\ p \in created'
      /\ unchecked \subseteq unchecked' /\ unchecked' \subseteq unchecked \cup {p}
  BY <1>1
<1>10. map_chunk(p, va, pas)
  BY <1>2
<1>11. p \notin unchecked' => /\ \A i \in DOMAIN pas : pas[i] \in Range(got)
                              /\ \A i, j \in DOMAIN pas : pas[i] = pas[j] => i = j
  BY <1>6, <1>8
<1>12. /\ pc = "user" /\ pc' = "user" /\ UNCHANGED <<heapOf, running>>
       /\ free_frames' = free_frames \ Range(got) /\ Range(got) \subseteq free_frames
       /\ owned' = [owned EXCEPT ![p] = @ \cup Range(got)]
       /\ \A v \in PROCESS_HEAP_BASE .. PROCESS_STACK_BASE - 1 : v - va + 1 \notin DOMAIN pas
  BY <1>1, <1>5, <1>6, <1>7
<1> HIDE DEF pas
<1> QED
  BY <1>3, <1>6, <1>9, <1>10, <1>11, <1>12, ChunkFrames

\* SYS_SBRK appends new frames to the heap and maps them behind its end.
LEMMA SbrkFrames ==
  ASSUME FrameInv, TlbInv', NEW offset \in Int, SysSbrk(offset)
  PROVE  FrameInv'
<1> DEFINE p == running
           size == proc_heap_byte_size[p] + offset
           va_end == proc_heap_va_end[p]
           wanted == IF FirstPageBehind(size) < va_end THEN 0 ELSE FirstPageBehind(size) - va_end
           pas == Fresh(wanted)
           old == _allocated_pa[p]
<1>1. /\ pc = "user" /\ pc' # "unmapped" /\ p # NoProcess
      /\ UNCHANGED <<created, unchecked, running, crashed>>
      /\ FirstPageBehind(size) <= PROCESS_HEAP_BASE + MaxHeapPages
      /\ free_frames' = free_frames \ Range(pas)
      /\ owned' = [owned EXCEPT ![p] = @ \cup Range(pas)]
      /\ map_chunk(p, va_end, pas)
      /\ _allocated_pa' = [_allocated_pa EXCEPT ![p] = @ \o pas]
      /\ proc_heap_va_end' = [proc_heap_va_end EXCEPT ![p] = @ + Len(pas)]
  BY DEF SysSbrk, InProgram
<1>2. /\ IsTables(tables) /\ Ownership /\ HeapList /\ NotCreated
      /\ created \subseteq Process /\ p \in created \cup {NoProcess}
      /\ proc_heap_byte_size \in [Process -> Int] /\ proc_heap_va_end \in [Process -> Int]
      /\ \A q \in Process : q \notin unchecked => OwnTable(q)
      /\ \A q \in Process : HeapMapped(q)
  BY FrameTypes
<1>3. p \in created /\ p \in Process
  BY <1>1, <1>2
<1>4. /\ old \in Seq(Frame) /\ Len(old) \in Nat /\ va_end = PROCESS_HEAP_BASE + Len(old)
      /\ Len(old) <= MaxHeapPages
      /\ \A i \in 1 .. Len(old) : old[i] \in owned[p]
      /\ \A i, j \in 1 .. Len(old) : old[i] = old[j] => i = j
  <2>1. old \in Seq(Frame)
    BY <1>2, <1>3 DEF HeapList
  <2>2. Len(old) \in Nat
    BY <2>1
  <2>3. /\ va_end = PROCESS_HEAP_BASE + Len(old) /\ Len(old) <= MaxHeapPages
        /\ \A i \in 1 .. Len(old) : old[i] \in owned[p]
        /\ \A i, j \in 1 .. Len(old) : old[i] = old[j] => i = j
    BY <1>2, <1>3 DEF HeapList
  <2> QED
    BY <2>1, <2>2, <2>3
<1>5. size \in Int /\ va_end \in Int /\ FirstPageBehind(size) \in Int
  BY <1>2, <1>3, PageBehindInt
<1>6. wanted \in Nat /\ (va_end + wanted <= PROCESS_HEAP_BASE + MaxHeapPages)
  BY <1>1, <1>4, <1>5, Layout, SizeAssumption
<1>7. /\ pas \in Seq(Frame) /\ Len(pas) <= wanted /\ Len(pas) \in Nat /\ DOMAIN pas = 1 .. Len(pas)
      /\ \A i \in 1 .. Len(pas) : pas[i] \in free_frames
      /\ \A i, j \in 1 .. Len(pas) : pas[i] = pas[j] => i = j
  BY <1>2, <1>6, FreshFrames DEF Ownership
<1> HIDE DEF pas, wanted, size
<1>8. Range(pas) \subseteq free_frames /\ \A i \in 1 .. Len(pas) : pas[i] \in Range(pas)
  BY <1>7 DEF Range
<1>9. /\ Ownership' /\ owned'[p] = owned[p] \cup Range(pas)
      /\ \A q \in Process : q # p => owned'[q] = owned[q]
  BY <1>1, <1>2, <1>3, <1>8, TakeFrames
<1>10. /\ \A v \in ProcVA :
            tables'[p][v] = IF v - va_end + 1 \in 1 .. Len(pas) THEN pas[v - va_end + 1] ELSE tables[p][v]
       /\ \A q \in Process, v \in ProcVA : q # p => tables'[q][v] = tables[q][v]
  <2>1. va_end \in Int /\ map_chunk(p, va_end, pas)
    BY <1>1, <1>5
  <2> HIDE DEF va_end
  <2> QED
    BY <1>2, <1>3, <1>7, <2>1, MapTables
<1>11. /\ _allocated_pa'[p] = old \o pas /\ Len(old \o pas) = Len(old) + Len(pas)
       /\ old \o pas \in Seq(Frame)
       /\ \A i \in 1 .. Len(old) : (old \o pas)[i] = old[i]
       /\ \A i \in Len(old) + 1 .. Len(old) + Len(pas) : (old \o pas)[i] = pas[i - Len(old)]
       /\ \A q \in Process : q # p => _allocated_pa'[q] = _allocated_pa[q]
  <2>1. _allocated_pa'[p] = old \o pas /\ \A q \in Process : q # p => _allocated_pa'[q] = _allocated_pa[q]
    BY <1>1, <1>2, <1>3 DEF HeapList
  <2> HIDE DEF old
  <2> QED
    BY <1>4, <1>7, <2>1
<1>12. /\ proc_heap_va_end'[p] = va_end + Len(pas)
       /\ \A q \in Process : q # p => proc_heap_va_end'[q] = proc_heap_va_end[q]
  BY <1>1, <1>2, <1>3
<1>13. HeapList'
  <2>1. _allocated_pa' \in [Process -> Seq(Frame)]
    BY <1>1, <1>2, <1>3, <1>11 DEF HeapList
  <2>2. ASSUME NEW q \in Process, q # p
        PROVE  /\ proc_heap_va_end'[q] = PROCESS_HEAP_BASE + Len(_allocated_pa'[q])
               /\ Len(_allocated_pa'[q]) <= MaxHeapPages
               /\ \A i \in 1 .. Len(_allocated_pa'[q]) : _allocated_pa'[q][i] \in owned'[q]
               /\ \A i, j \in 1 .. Len(_allocated_pa'[q]) :
                    _allocated_pa'[q][i] = _allocated_pa'[q][j] => i = j
    BY <1>2, <1>9, <1>11, <1>12, <2>2 DEF HeapList
  <2>3. /\ proc_heap_va_end'[p] = PROCESS_HEAP_BASE + Len(_allocated_pa'[p])
        /\ Len(_allocated_pa'[p]) <= MaxHeapPages
    BY <1>4, <1>6, <1>7, <1>11, <1>12, Layout, SizeAssumption
  <2>4. ASSUME NEW i \in 1 .. Len(old) + Len(pas)
        PROVE  \/ i \in 1 .. Len(old) /\ (old \o pas)[i] \in owned[p]
               \/ i - Len(old) \in 1 .. Len(pas) /\ (old \o pas)[i] = pas[i - Len(old)]
                  /\ (old \o pas)[i] \in free_frames
    BY <1>4, <1>7, <1>11
  <2>5. \A i \in 1 .. Len(old) + Len(pas) : (old \o pas)[i] \in owned'[p]
    BY <1>8, <1>9, <2>4
  <2>6. ASSUME NEW i \in 1 .. Len(old) + Len(pas), NEW j \in 1 .. Len(old) + Len(pas),
               (old \o pas)[i] = (old \o pas)[j]
        PROVE  i = j
    <3>1. owned[p] \cap free_frames = {}
      BY <1>2, <1>3 DEF Ownership
    <3>2. CASE i \in 1 .. Len(old) /\ j \in 1 .. Len(old)
      BY <1>4, <1>11, <2>6, <3>2
    <3>3. CASE i - Len(old) \in 1 .. Len(pas) /\ j - Len(old) \in 1 .. Len(pas)
               /\ (old \o pas)[i] = pas[i - Len(old)] /\ (old \o pas)[j] = pas[j - Len(old)]
      <4>1. i - Len(old) = j - Len(old)
        BY <1>7, <2>6, <3>3
      <4> QED
        BY <1>4, <4>1
    <3>4. \/ i \in 1 .. Len(old) /\ (old \o pas)[i] \in owned[p]
          \/ i - Len(old) \in 1 .. Len(pas) /\ (old \o pas)[i] = pas[i - Len(old)]
             /\ (old \o pas)[i] \in free_frames
      BY <2>4
    <3>5. \/ j \in 1 .. Len(old) /\ (old \o pas)[j] \in owned[p]
          \/ j - Len(old) \in 1 .. Len(pas) /\ (old \o pas)[j] = pas[j - Len(old)]
             /\ (old \o pas)[j] \in free_frames
      BY <2>4
    <3> QED
      BY <2>6, <3>1, <3>2, <3>3, <3>4, <3>5
  <2> QED
    BY <1>11, <2>1, <2>2, <2>3, <2>5, <2>6 DEF HeapList
<1>14. NotCreated'
  <2>1. \A q \in Process : q \notin created' => q # p /\ q \notin created /\ unchecked' = unchecked
    BY <1>1, <1>3
  <2>2. \A q \in Process : q \notin created' => owned'[q] = owned[q] /\ \A v \in ProcVA : tables'[q][v] = tables[q][v]
    BY <1>9, <1>10, <2>1
  <2> QED
    BY <1>2, <2>1, <2>2 DEF NotCreated
<1>15. GivingBack'
  BY <1>1 DEF GivingBack
<1>16. ASSUME NEW q \in Process, q \notin unchecked' PROVE OwnTable(q)'
  <2>1. OwnTable(q)
    BY <1>1, <1>2, <1>16
  <2>2. CASE q = p
    <3>1. /\ \A i \in DOMAIN pas : pas[i] \in free_frames /\ pas[i] \in owned'[p]
          /\ \A i, j \in DOMAIN pas : pas[i] = pas[j] => i = j
          /\ owned[p] \subseteq owned'[p] /\ DOMAIN pas \subseteq Int
      BY <1>7, <1>8, <1>9
    <3>2. map_chunk(p, va_end, pas) /\ va_end \in Int /\ p \in Process
      BY <1>1, <1>3, <1>5
    <3> HIDE DEF va_end, p
    <3> QED
      BY <1>2, <2>1, <2>2, <3>1, <3>2, MapOwn
  <2>3. CASE q # p
    BY <1>9, <1>10, <2>1, <2>3 DEF OwnTable
  <2> QED
    BY <2>2, <2>3
<1>17. ASSUME NEW q \in Process PROVE HeapMapped(q)'
  <2>1. HeapMapped(q)
    BY <1>2
  <2>2. MappedEnd(q) = proc_heap_va_end[q] /\ MappedEnd(q)' = proc_heap_va_end'[q]
    BY <1>1 DEF MappedEnd
  <2>3. CASE q = p
    <3> SUFFICES ASSUME NEW v \in PROCESS_HEAP_BASE .. PROCESS_STACK_BASE - 1
                 PROVE  tables'[p][v] = IF v < va_end + Len(pas)
                                        THEN (old \o pas)[v - PROCESS_HEAP_BASE + 1] ELSE NoFrame
      BY <1>11, <1>12, <2>2, <2>3 DEF HeapMapped
    <3>1. v \in ProcVA /\ v \in Int /\ PROCESS_HEAP_BASE <= v
      BY Layout
    <3>2. /\ va_end = PROCESS_HEAP_BASE + Len(old) /\ PROCESS_HEAP_BASE \in Nat
          /\ Len(old) \in Nat /\ Len(pas) \in Nat /\ va_end \in Int
      BY <1>4, <1>5, <1>7, Layout
    <3>3. tables[p][v] = IF v < va_end THEN old[v - PROCESS_HEAP_BASE + 1] ELSE NoFrame
      BY <2>1, <2>2, <2>3 DEF HeapMapped
    <3>4. tables'[p][v] = IF v - va_end + 1 \in 1 .. Len(pas) THEN pas[v - va_end + 1] ELSE tables[p][v]
      BY <1>10, <3>1
    <3>5. \A i \in Len(old) + 1 .. Len(old) + Len(pas) : (old \o pas)[i] = pas[i - Len(old)]
      BY <1>11, Zenon
    <3> HIDE DEF va_end, old, p
    <3>6. CASE v < va_end
      <4>1. v - va_end + 1 \notin 1 .. Len(pas) /\ v - PROCESS_HEAP_BASE + 1 \in 1 .. Len(old)
            /\ v < va_end + Len(pas)
        BY <3>2, <3>1, <3>6
      <4> QED
        BY <1>11, <3>3, <3>4, <3>6, <4>1
    <3>7. CASE va_end <= v /\ v < va_end + Len(pas)
      <4>1. /\ v - va_end + 1 \in 1 .. Len(pas)
            /\ v - PROCESS_HEAP_BASE + 1 \in Len(old) + 1 .. Len(old) + Len(pas)
        BY <3>2, <3>1, <3>7
      <4>2. (old \o pas)[v - PROCESS_HEAP_BASE + 1] = pas[v - va_end + 1]
        <5>1. PICK k \in Len(old) + 1 .. Len(old) + Len(pas) : k = v - PROCESS_HEAP_BASE + 1
          BY <4>1, Zenon
        <5>2. (old \o pas)[k] = pas[k - Len(old)]
          BY <3>5, <5>1, Zenon
        <5>3. k - Len(old) = v - va_end + 1
          BY <3>1, <3>2, <5>1
        <5> QED
          BY <5>1, <5>2, <5>3, Zenon
      <4>3. tables'[p][v] = pas[v - va_end + 1]
        BY <3>4, <4>1
      <4> QED
        BY <3>7, <4>2, <4>3
    <3>8. CASE va_end + Len(pas) <= v
      <4>1. v - va_end + 1 \notin 1 .. Len(pas) /\ ~(v < va_end) /\ ~(v < va_end + Len(pas))
        BY <3>2, <3>1, <3>8
      <4> QED
        BY <3>3, <3>4, <4>1
    <3> QED
      BY <3>2, <3>1, <3>6, <3>7, <3>8
  <2>4. CASE q # p
    <3>1. \A v \in PROCESS_HEAP_BASE .. PROCESS_STACK_BASE - 1 : tables'[q][v] = tables[q][v]
      BY <1>10, <2>4, Layout
    <3> QED
      BY <1>11, <1>12, <2>1, <2>2, <2>4, <3>1 DEF HeapMapped
  <2> QED
    BY <2>3, <2>4
<1>18. crashed' \in BOOLEAN
  BY <1>1 DEF FrameInv
<1> QED
  BY <1>9, <1>13, <1>14, <1>15, <1>16, <1>17, <1>18 DEF FrameInv

\* The last page of the heap is unmapped; no other page leads to its frame.
LEMMA ShrinkFrames ==
  ASSUME FrameInv, TlbInv', ShrinkHeap
  PROVE  FrameInv'
<1> DEFINE p == running
           old == _allocated_pa[p]
           va_to_del == proc_heap_va_end[p] - 1
           again == va_to_del * PROC_PAGE_SIZE >= PROCESS_HEAP_BASE * PROC_PAGE_SIZE + proc_heap_byte_size[p]
<1>1. /\ pc = "shrink" /\ ~crashed
      /\ UNCHANGED <<free_frames, owned, heapOf, created, unchecked, running>>
      /\ pc' = IF again THEN "unmapped" ELSE "user"
      /\ crashed' = (again /\ va_to_del < PROCESS_HEAP_BASE)
      /\ tables' = IF again /\ ~crashed' THEN [tables EXCEPT ![p][va_to_del] = NoFrame] ELSE tables
  BY DEF ShrinkHeap
<1>2. /\ IsTables(tables) /\ Ownership /\ HeapList /\ NotCreated
      /\ created \subseteq Process /\ p \in created \cup {NoProcess} /\ p # NoProcess
      /\ \A q \in Process : q \notin unchecked => OwnTable(q)
      /\ \A q \in Process : HeapMapped(q)
  BY <1>1, FrameTypes
<1>3. p \in created /\ p \in Process
  BY <1>2
<1>4. /\ proc_heap_va_end[p] = PROCESS_HEAP_BASE + Len(old) /\ Len(old) \in Nat /\ Len(old) <= MaxHeapPages
      /\ PROCESS_HEAP_BASE \in Nat
  BY <1>2, <1>3, Layout DEF HeapList
<1>5. crashed' \in BOOLEAN
  BY <1>1
<1> HIDE DEF again, old
<1>6. CASE ~again
  <2>1. pc' = "user" /\ UNCHANGED <<free_frames, tables, owned, heapOf, created, unchecked>>
    BY <1>1, <1>6
  <2>2. \A q \in Process : MappedEnd(q)' = MappedEnd(q)
    BY <1>1, <2>1 DEF MappedEnd, heapOf
  <2> QED
    BY <1>5, <2>1, <2>2, FrameRest
<1>7. CASE again
  <2>1. pc' = "unmapped" /\ running' = running /\ UNCHANGED <<owned, _allocated_pa, proc_heap_va_end, unchecked>>
    BY <1>1, <1>7 DEF heapOf
  <2>2. /\ \A q \in Process : MappedEnd(q) = proc_heap_va_end[q]
        /\ \A q \in Process : MappedEnd(q)' = IF q = p THEN proc_heap_va_end[q] - 1 ELSE proc_heap_va_end[q]
    BY <1>1, <2>1 DEF MappedEnd
  <2>3. Ownership' /\ HeapList'
    BY <1>1, <1>2 DEF Ownership, HeapList, heapOf
  <2>4. CASE va_to_del < PROCESS_HEAP_BASE
    <3>1. crashed' = TRUE /\ tables' = tables
      BY <1>1, <1>7, <2>4
    <3>2. NotCreated' /\ GivingBack'
      BY <1>1, <1>2, <3>1 DEF NotCreated, GivingBack
    <3>3. \A q \in Process : q \notin unchecked' => OwnTable(q)'
      BY <1>2, <2>1, <3>1 DEF OwnTable
    <3>4. ASSUME NEW q \in Process PROVE HeapMapped(q)'
      <4>1. HeapMapped(q)
        BY <1>2
      <4>2. q # p => HeapMapped(q)'
        BY <2>1, <2>2, <3>1, <4>1 DEF HeapMapped
      <4>3. \A v \in PROCESS_HEAP_BASE .. PROCESS_STACK_BASE - 1 :
              ~(v < proc_heap_va_end[p]) /\ ~(v < proc_heap_va_end[p] - 1)
        BY <1>4, <2>4, Layout
      <4>4. q = p => HeapMapped(q)'
        BY <2>1, <2>2, <3>1, <4>1, <4>3 DEF HeapMapped
      <4> QED
        BY <4>2, <4>4
    <3> QED
      BY <1>5, <2>3, <3>2, <3>3, <3>4 DEF FrameInv
  <2>5. CASE ~(va_to_del < PROCESS_HEAP_BASE)
    <3>1. crashed' = FALSE /\ tables' = [tables EXCEPT ![p][va_to_del] = NoFrame]
      BY <1>1, <1>7, <2>5
    <3>2. /\ va_to_del \in PROCESS_HEAP_BASE .. PROCESS_STACK_BASE - 1
          /\ Len(old) > 0 /\ va_to_del - PROCESS_HEAP_BASE + 1 = Len(old)
      BY <1>4, <2>5, Layout, SizeAssumption
    <3>3. /\ \A q \in Process, v \in ProcVA : q # p => tables'[q][v] = tables[q][v]
          /\ \A v \in ProcVA : tables'[p][v] = IF v = va_to_del THEN NoFrame ELSE tables[p][v]
      BY <1>2, <1>3, <3>1 DEF IsTables
    <3>4. NotCreated'
      BY <1>1, <1>2, <1>3, <3>3 DEF NotCreated
    <3>5. ASSUME NEW q \in Process, q \notin unchecked' PROVE OwnTable(q)'
      <4>1. OwnTable(q) /\ owned' = owned
        BY <1>2, <2>1, <3>5
      <4> QED
        BY <3>3, <4>1 DEF OwnTable
    <3>6. GivingBack'
      <4>1. ASSUME p \notin unchecked, NEW v \in ProcVA PROVE tables'[p][v] # old[Len(old)]
        <5>1. HeapMapped(p) /\ OwnTable(p) /\ va_to_del \in ProcVA
          BY <1>2, <1>3, <3>2, <4>1, Layout
        <5>2. tables[p][va_to_del] = old[Len(old)]
          BY <1>3, <1>4, <2>2, <3>2, <5>1 DEF HeapMapped, old
        <5>3. old[Len(old)] # NoFrame
          <6>1. old \in Seq(Frame)
            BY <1>2, <1>3 DEF HeapList, old
          <6>2. old[Len(old)] \in Frame
            BY <1>4, <3>2, <6>1
          <6> QED
            BY <6>2, NoneAssumption, FrameAssumption DEF Frame
        <5> QED
          BY <3>3, <5>1, <5>2, <5>3 DEF OwnTable
      <4> QED
        BY <2>1, <3>2, <4>1 DEF GivingBack, old
    <3>7. ASSUME NEW q \in Process PROVE HeapMapped(q)'
      <4>1. HeapMapped(q)
        BY <1>2
      <4>2. q # p => HeapMapped(q)'
        BY <2>1, <2>2, <3>3, <4>1, Layout DEF HeapMapped
      <4>3. ASSUME q = p, NEW v \in PROCESS_HEAP_BASE .. PROCESS_STACK_BASE - 1
            PROVE  tables'[p][v] = IF v < va_to_del THEN old[v - PROCESS_HEAP_BASE + 1] ELSE NoFrame
        <5>1. tables[p][v] = IF v < proc_heap_va_end[p] THEN old[v - PROCESS_HEAP_BASE + 1] ELSE NoFrame
          BY <2>2, <4>1, <4>3 DEF HeapMapped, old
        <5>2. v \in ProcVA /\ v \in Int /\ proc_heap_va_end[p] \in Int
          BY <1>4, Layout
        <5>3. tables'[p][v] = IF v = va_to_del THEN NoFrame ELSE tables[p][v]
          BY <3>3, <5>2
        <5> QED
          BY <5>1, <5>2, <5>3
      <4>4. q = p => HeapMapped(q)'
        BY <2>1, <2>2, <4>3 DEF HeapMapped, old
      <4> QED
        BY <4>2, <4>4
    <3> QED
      BY <1>5, <2>3, <3>4, <3>5, <3>6, <3>7 DEF FrameInv
  <2> QED
    BY <2>4, <2>5
<1> QED
  BY <1>6, <1>7

\* The frame of that page goes back to the allocator.
LEMMA FreeFrames ==
  ASSUME FrameInv, TlbInv', FreeHeapPage
  PROVE  FrameInv'
<1> DEFINE p == running
           old == _allocated_pa[p]
           frame == old[Len(old)]
<1>1. /\ pc = "unmapped" /\ ~crashed /\ pc' = "shrink"
      /\ UNCHANGED <<tables, created, unchecked, running, crashed>>
      /\ _allocated_pa' = [_allocated_pa EXCEPT ![p] = SubSeq(@, 1, Len(@) - 1)]
      /\ free_frames' = free_frames \cup {frame}
      /\ owned' = [owned EXCEPT ![p] = @ \ {frame}]
      /\ proc_heap_va_end' = [proc_heap_va_end EXCEPT ![p] = @ - 1]
  BY DEF FreeHeapPage, Last, Front
<1>2. /\ IsTables(tables) /\ Ownership /\ HeapList /\ NotCreated /\ GivingBack
      /\ created \subseteq Process /\ p \in created \cup {NoProcess} /\ p # NoProcess
      /\ proc_heap_va_end \in [Process -> Int]
      /\ \A q \in Process : q \notin unchecked => OwnTable(q)
      /\ \A q \in Process : HeapMapped(q)
  BY <1>1, FrameTypes
<1>3. p \in created /\ p \in Process
  BY <1>2
<1>4. /\ old \in Seq(Frame) /\ Len(old) \in Nat /\ Len(old) > 0 /\ Len(old) <= MaxHeapPages
      /\ proc_heap_va_end[p] = PROCESS_HEAP_BASE + Len(old)
      /\ \A i \in 1 .. Len(old) : old[i] \in owned[p]
      /\ \A i, j \in 1 .. Len(old) : old[i] = old[j] => i = j
      /\ p \notin unchecked => \A va \in ProcVA : tables[p][va] # frame
  BY <1>1, <1>2, <1>3 DEF HeapList, GivingBack
<1>5. frame \in owned[p] /\ frame \in Frame
  BY <1>2, <1>3, <1>4 DEF Ownership
<1>6. /\ owned'[p] = owned[p] \ {frame} /\ \A q \in Process : q # p => owned'[q] = owned[q]
      /\ proc_heap_va_end'[p] = proc_heap_va_end[p] - 1
      /\ \A q \in Process : q # p => proc_heap_va_end'[q] = proc_heap_va_end[q]
      /\ _allocated_pa'[p] = SubSeq(old, 1, Len(old) - 1)
      /\ \A q \in Process : q # p => _allocated_pa'[q] = _allocated_pa[q]
  BY <1>1, <1>2, <1>3 DEF Ownership, HeapList
<1>7. /\ SubSeq(old, 1, Len(old) - 1) \in Seq(Frame) /\ Len(SubSeq(old, 1, Len(old) - 1)) = Len(old) - 1
      /\ \A i \in 1 .. Len(old) - 1 : SubSeq(old, 1, Len(old) - 1)[i] = old[i]
  BY <1>4
<1>8. Ownership'
  <2>1. owned' \in [Process -> SUBSET Frame] /\ free_frames' \subseteq Frame
    BY <1>1, <1>2, <1>5 DEF Ownership
  <2>2. \A q \in Process : q # p => frame \notin owned[q]
    BY <1>2, <1>3, <1>5 DEF Ownership
  <2>3. \A q \in Process : owned'[q] \cap free_frames' = {}
    BY <1>1, <1>2, <1>3, <1>6, <2>2 DEF Ownership
  <2>4. \A q, r \in Process : q # r => owned'[q] \cap owned'[r] = {}
    BY <1>2, <1>3, <1>6 DEF Ownership
  <2> QED
    BY <2>1, <2>3, <2>4 DEF Ownership
<1>9. HeapList'
  <2>1. _allocated_pa' \in [Process -> Seq(Frame)]
    BY <1>1, <1>2, <1>3, <1>7 DEF HeapList
  <2>2. ASSUME NEW q \in Process, q # p
        PROVE  /\ proc_heap_va_end'[q] = PROCESS_HEAP_BASE + Len(_allocated_pa'[q])
               /\ Len(_allocated_pa'[q]) <= MaxHeapPages
               /\ \A i \in 1 .. Len(_allocated_pa'[q]) : _allocated_pa'[q][i] \in owned'[q]
               /\ \A i, j \in 1 .. Len(_allocated_pa'[q]) :
                    _allocated_pa'[q][i] = _allocated_pa'[q][j] => i = j
    BY <1>2, <1>6, <2>2 DEF HeapList
  <2>3. /\ proc_heap_va_end'[p] = PROCESS_HEAP_BASE + Len(_allocated_pa'[p])
        /\ Len(_allocated_pa'[p]) <= MaxHeapPages
    BY <1>4, <1>6, <1>7, Layout, SizeAssumption
  <2>4. \A i \in 1 .. Len(old) - 1 : i \in 1 .. Len(old) /\ i # Len(old)
    BY <1>4
  <2>5. \A i \in 1 .. Len(old) - 1 : old[i] \in owned'[p]
    <3>1. Len(old) \in 1 .. Len(old)
      BY <1>4
    <3> QED
      BY <1>4, <1>6, <2>4, <3>1
  <2>6. \A i, j \in 1 .. Len(old) - 1 : old[i] = old[j] => i = j
    BY <1>4, <2>4
  <2>7. /\ \A i \in 1 .. Len(_allocated_pa'[p]) : _allocated_pa'[p][i] \in owned'[p]
        /\ \A i, j \in 1 .. Len(_allocated_pa'[p]) : _allocated_pa'[p][i] = _allocated_pa'[p][j] => i = j
    BY <1>6, <1>7, <2>5, <2>6
  <2> QED
    BY <2>1, <2>2, <2>3, <2>7 DEF HeapList
<1>10. NotCreated'
  BY <1>1, <1>2, <1>3, <1>6 DEF NotCreated
<1>11. GivingBack'
  BY <1>1 DEF GivingBack
<1>12. ASSUME NEW q \in Process, q \notin unchecked' PROVE OwnTable(q)'
  <2>1. OwnTable(q) /\ q \notin unchecked /\ tables' = tables
    BY <1>1, <1>2, <1>12
  <2>2. \A v \in ProcVA : tables[q][v] \in owned'[q] \cup {NoFrame}
    BY <1>4, <1>6, <2>1 DEF OwnTable
  <2> QED
    BY <2>1, <2>2 DEF OwnTable
<1>13. ASSUME NEW q \in Process PROVE HeapMapped(q)'
  <2>1. HeapMapped(q) /\ tables' = tables
    BY <1>1, <1>2
  <2>2. MappedEnd(q)' = MappedEnd(q) /\ MappedEnd(p) = proc_heap_va_end[p] - 1
    BY <1>1, <1>6 DEF MappedEnd
  <2>3. CASE q # p
    BY <1>6, <2>1, <2>2, <2>3 DEF HeapMapped
  <2>4. CASE q = p
    <3>1. ASSUME NEW v \in PROCESS_HEAP_BASE .. PROCESS_STACK_BASE - 1, v < MappedEnd(p)
          PROVE  _allocated_pa'[p][v - PROCESS_HEAP_BASE + 1] = old[v - PROCESS_HEAP_BASE + 1]
      <4>1. v - PROCESS_HEAP_BASE + 1 \in 1 .. Len(old) - 1
        BY <1>4, <2>2, <3>1, Layout
      <4> QED
        BY <1>6, <1>7, <4>1
    <3> QED
      BY <2>1, <2>2, <2>4, <3>1 DEF HeapMapped
  <2> QED
    BY <2>3, <2>4
<1>14. crashed' \in BOOLEAN
  BY <1>1 DEF FrameInv
<1> QED
  BY <1>8, <1>9, <1>10, <1>11, <1>12, <1>13, <1>14 DEF FrameInv

\* One step of the programs' memory or of the MMU.
LEMMA FrameStep ==
  ASSUME FrameInv, [ProcNext]_procVars
  PROVE  FrameInv'
<1>1. TlbInv'
  BY TlbStep DEF FrameInv
<1>2. ASSUME NEW va \in ProcVA, Walk(va) PROVE FrameInv'
  <2>1. UNCHANGED <<free_frames, tables, owned, heapOf, created, unchecked, running, pc, crashed>>
    BY <1>2 DEF Walk
  <2>2. crashed' \in BOOLEAN /\ \A p \in Process : MappedEnd(p)' = MappedEnd(p)
    BY <2>1 DEF FrameInv, MappedEnd, heapOf
  <2> QED
    BY <1>1, <2>1, <2>2, FrameRest
<1>3. ASSUME NEW p \in Process, CreateProcess(p) PROVE FrameInv'
  BY <1>1, <1>3, CreateFrames
<1>4. ASSUME NEW p \in Process, NEW va \in 0 .. LowPages - 1, NEW has_data \in BOOLEAN,
             NEW n \in 1 .. LowPages - va, MapChunk(p, va, n, has_data)
      PROVE  FrameInv'
  BY <1>1, <1>4, MapChunkFrames
<1>5. ASSUME NEW offset \in Int, SysSbrk(offset) PROVE FrameInv'
  BY <1>1, <1>5, SbrkFrames
<1>6. CASE ShrinkHeap
  BY <1>1, <1>6, ShrinkFrames
<1>7. CASE FreeHeapPage
  BY <1>1, <1>7, FreeFrames
<1>8. ASSUME NEW p \in Process, Activate(p) PROVE FrameInv'
  <2>1. /\ UNCHANGED <<free_frames, tables, owned, heapOf, created, unchecked, crashed>>
        /\ pc = "user" /\ pc' = "reload"
    BY <1>8 DEF Activate, InProgram
  <2>2. crashed' \in BOOLEAN /\ \A q \in Process : MappedEnd(q)' = MappedEnd(q)
    BY <2>1 DEF FrameInv, MappedEnd, heapOf
  <2> QED
    BY <1>1, <2>1, <2>2, FrameRest
<1>9. CASE Reload
  <2>1. /\ UNCHANGED <<free_frames, tables, owned, heapOf, created, unchecked, crashed>>
        /\ pc # "unmapped" /\ pc' # "unmapped"
    BY <1>9 DEF Reload
  <2>2. crashed' \in BOOLEAN /\ \A q \in Process : MappedEnd(q)' = MappedEnd(q)
    BY <2>1 DEF FrameInv, MappedEnd, heapOf
  <2> QED
    BY <1>1, <2>1, <2>2, FrameRest
<1>10. CASE UNCHANGED procVars
  <2>1. UNCHANGED <<free_frames, tables, owned, heapOf, created, unchecked, running, pc, crashed>>
    BY <1>10 DEF procVars, heapOf
  <2>2. crashed' \in BOOLEAN /\ \A p \in Process : MappedEnd(p)' = MappedEnd(p)
    BY <2>1 DEF FrameInv, MappedEnd, heapOf
  <2> QED
    BY <1>1, <2>1, <2>2, FrameRest
<1>11. \A n \in Amounts : n \in Int /\ -n \in Int
  BY SizeAssumption
<1> QED
  BY <1>2, <1>3, <1>4, <1>5, <1>6, <1>7, <1>8, <1>9, <1>10, <1>11 DEF ProcNext

\* For any number of programs and frames: no frame belongs to two programs, or to one and to the
\* allocator, a program whose chunks have got their memory reaches its own frames only, and the pages
\* of its heap are those that SYS_SBRK has given it, however the heap grows, fails to grow and shrinks
\* (heap_manager.cpp change_heap_end(), process_memory.cpp map_chunk(), memory_chunk.cpp).
THEOREM FramesCorrect == ProcSpec => []NoSharedFrame
<1>1. ProcInit => FrameInv
  <2> SUFFICES ASSUME ProcInit PROVE FrameInv
    OBVIOUS
  <2>1. TlbInv
    BY FramesFinite, SizeAssumption DEF ProcInit, TlbInv, IsTables, Current, PROCESS_HEAP_BASE
  <2>2. /\ \A p \in Process : owned[p] = {} /\ _allocated_pa[p] = <<>> /\ proc_heap_va_end[p] = PROCESS_HEAP_BASE
        /\ \A p \in Process, va \in ProcVA : tables[p][va] = NoFrame
        /\ pc = "user" /\ crashed = FALSE /\ unchecked = {} /\ free_frames = Frame
        /\ owned \in [Process -> SUBSET Frame] /\ _allocated_pa \in [Process -> Seq(Frame)]
    BY DEF ProcInit
  <2>3. Ownership /\ NotCreated /\ GivingBack /\ crashed \in BOOLEAN
    BY <2>2 DEF Ownership, NotCreated, GivingBack
  <2>4. HeapList
    BY <2>2, Layout, SizeAssumption DEF HeapList
  <2>5. \A p \in Process : OwnTable(p)
    BY <2>2 DEF OwnTable
  <2>6. \A p \in Process : HeapMapped(p)
    <3>1. \A p \in Process : MappedEnd(p) = PROCESS_HEAP_BASE
      BY <2>2 DEF MappedEnd
    <3>2. \A va \in PROCESS_HEAP_BASE .. PROCESS_STACK_BASE - 1 : va \in ProcVA /\ ~(va < PROCESS_HEAP_BASE)
      BY Layout
    <3> QED
      BY <2>2, <3>1, <3>2 DEF HeapMapped
  <2> QED
    BY <2>1, <2>3, <2>4, <2>5, <2>6 DEF FrameInv
<1>2. FrameInv /\ [ProcNext]_procVars => FrameInv'
  BY FrameStep
<1>3. FrameInv => NoSharedFrame
  <2> SUFFICES ASSUME FrameInv PROVE NoSharedFrame
    OBVIOUS
  <2>1. Ownership /\ (\A p \in Process : p \notin unchecked => OwnTable(p)) /\ \A p \in Process : HeapMapped(p)
    BY FrameTypes
  <2>2. \A p \in Process : ~(p = running /\ pc = "unmapped") => MappedEnd(p) = proc_heap_va_end[p]
    BY DEF MappedEnd
  <2> QED
    BY <2>1, <2>2 DEF NoSharedFrame, Ownership, OwnTable, HeapMapped
<1> QED
  BY <1>1, <1>2, <1>3, PTL DEF ProcSpec
-----------------------------------------------------------------------------
\* The loader. What may hold of a segment, by its number: it is in the file; none of the later ones up to
\* the last shares a page with it; it spares the page of the arguments; its memory holds its data.
InFile(i) ==
  /\ image.segments[i].load /\ image.segments[i].offset + image.segments[i].file_size <= Len(image.file)
Alone(i, last) ==
  \A j \in i + 1 .. last : image.segments[j].load =>
    SegmentPages(image.segments[j]) \cap SegmentPages(image.segments[i]) = {}
SparesArguments(i) == ARGS_PAGE \notin SegmentPages(image.segments[i])
Present(i) ==
  LET s == image.segments[i] IN
    \A k \in 0 .. s.mem_size - 1 :
      memory[s.virtual_addr + k] = IF k < s.file_size THEN Char(image.file[s.offset + k + 1]) ELSE Zero

\* The segments behind which the loop is have been loaded, and stay so.
LoadTypes ==
  /\ image \in Images /\ segment \in Nat \ {0} /\ segment <= Len(image.segments) + 1
  /\ stage \in {"open", "loading", "refused", "panic", "created", "running", "running without arguments"}
  /\ stage \in {"created", "running", "running without arguments"} => segment = Len(image.segments) + 1
LoadInv ==
  /\ LoadTypes
  /\ \A i \in (1 .. segment - 1) \ starved :
       InFile(i) /\ Alone(i, segment - 1) /\ (Loaded => SparesArguments(i)) => Present(i)

\* The segments of a program file.
LEMMA SegmentType ==
  ASSUME image \in Images, NEW i \in 1 .. Len(image.segments)
  PROVE  /\ image.segments \in Seq(Segment) /\ image.file \in Seq(Nat)
         /\ image.segments[i] \in Segment /\ image.segments[i].load \in BOOLEAN
         /\ image.segments[i].virtual_addr \in Nat /\ image.segments[i].mem_size \in Nat
         /\ image.segments[i].file_size \in Nat /\ image.segments[i].offset \in Nat
         /\ image.segments[i].load =>
              image.segments[i].virtual_addr + image.segments[i].mem_size <= LOAD_PAGES * LOAD_PAGE
<1>1. image.segments \in Seq(Segment) /\ image.file \in Seq(Nat)
  BY ImagesAssumption
<1>2. i \in DOMAIN image.segments
  BY <1>1
<1>3. image.segments[i] \in Segment
  BY <1>1
<1> QED
  BY <1>1, <1>2, <1>3, ImagesAssumption DEF Segment

\* The pages of a segment are as many as hold its bytes.
LEMMA PagesSuffice ==
  ASSUME NEW x \in Nat, NEW L \in Nat \ {0}
  PROVE  /\ (x + L - 1) \div L \in Nat
         /\ x <= ((x + L - 1) \div L) * L
<1>1. x + L - 1 \in Nat
  OBVIOUS
<1>2. (x + L - 1) \div L \in Nat /\ x + L - 1 < ((x + L - 1) \div L) * L + L
  BY <1>1, PageOfAddress
<1>3. ((x + L - 1) \div L) * L \in Nat
  BY <1>2
<1> QED
  BY <1>2, <1>3

\* Where the segment begins in its first page, and that every byte of it is in one of its pages.
LEMMA SegmentBytes ==
  ASSUME NEW s, s.virtual_addr \in Nat, s.mem_size \in Nat
  PROVE  /\ s.virtual_addr \div LOAD_PAGE \in Nat /\ segment_pages(s) \in Nat /\ va_start(s) \in Nat
         /\ va_start(s) <= s.virtual_addr
         /\ va_start(s) = (s.virtual_addr \div LOAD_PAGE) * LOAD_PAGE
         /\ s.virtual_addr - va_start(s) + s.mem_size <= segment_pages(s) * LOAD_PAGE
         /\ \A k \in 0 .. s.mem_size - 1 : (s.virtual_addr + k) \div LOAD_PAGE \in SegmentPages(s)
<1> DEFINE v == s.virtual_addr
           q == v \div LOAD_PAGE
           n == segment_pages(s)
<1>1. LOAD_PAGE \in Nat \ {0}
  BY LoaderAssumption
<1>2. q \in Nat /\ q * LOAD_PAGE \in Nat /\ q * LOAD_PAGE <= v
  BY <1>1, PageOfAddress
<1>3. va_start(s) = q * LOAD_PAGE
  BY DEF va_start
<1>4. n \in Nat /\ v - va_start(s) + s.mem_size <= n * LOAD_PAGE
  <2>1. v - va_start(s) + s.mem_size \in Nat
    BY <1>2, <1>3
  <2>2. n = ((v - va_start(s) + s.mem_size) + LOAD_PAGE - 1) \div LOAD_PAGE
    BY DEF segment_pages, load_div_round_up
  <2> HIDE DEF n, v
  <2> QED
    BY <1>1, <2>1, <2>2, PagesSuffice
<1>5. ASSUME NEW k \in 0 .. s.mem_size - 1
      PROVE  (v + k) \div LOAD_PAGE \in SegmentPages(s)
  <2> DEFINE a == v + k
             p == a \div LOAD_PAGE
  <2>0. a \in Nat /\ v <= a /\ a < v + s.mem_size
    OBVIOUS
  <2> HIDE DEF a
  <2>1. p \in Nat /\ p * LOAD_PAGE <= a /\ a < p * LOAD_PAGE + LOAD_PAGE /\ p * LOAD_PAGE \in Nat
    <3>1. p \in Nat /\ p * LOAD_PAGE <= a /\ a < p * LOAD_PAGE + LOAD_PAGE
      BY <1>1, <2>0, PageOfAddress
    <3>2. p * LOAD_PAGE \in Nat
      BY <1>1, <3>1
    <3> QED
      BY <3>1, <3>2
  <2>2. SegmentPages(s) = q .. q + n - 1
    BY DEF SegmentPages
  <2>3. a < q * LOAD_PAGE + n * LOAD_PAGE /\ q * LOAD_PAGE <= a /\ n * LOAD_PAGE \in Nat
    <3>1. n * LOAD_PAGE \in Nat
      BY <1>1, <1>4
    <3> QED
      BY <1>2, <1>3, <1>4, <2>0, <3>1
  <2> HIDE DEF p, q, n
  <2>4. (q + n) * LOAD_PAGE = q * LOAD_PAGE + n * LOAD_PAGE
    BY <1>1, <1>2, <1>4, PagesInOrder
  <2>5. p * LOAD_PAGE < (q + n) * LOAD_PAGE
    <3>1. q * LOAD_PAGE + n * LOAD_PAGE \in Nat
      BY <1>2, <2>3
    <3> QED
      BY <2>0, <2>1, <2>3, <2>4, <3>1
  <2>6. p < q + n
    BY <1>1, <1>2, <1>4, <2>1, <2>5, PageBefore
  <2>7. p >= q
    <3>1. q * LOAD_PAGE < (p + 1) * LOAD_PAGE
      <4>1. (p + 1) * LOAD_PAGE = p * LOAD_PAGE + LOAD_PAGE
        BY <1>1, <2>1, PagesInOrder
      <4> QED
        BY <1>1, <1>2, <2>0, <2>1, <2>3, <4>1
    <3>2. q < p + 1
      BY <1>1, <1>2, <2>1, <3>1, PageBefore
    <3> QED
      BY <1>2, <2>1, <3>2
  <2>8. p \in SegmentPages(s)
    BY <1>2, <1>4, <2>1, <2>2, <2>6, <2>7
  <2> QED
    BY <2>8 DEF p, a
<1> QED
  BY <1>2, <1>3, <1>4, <1>5

\* What stands at a byte of a segment after its data was written: the data, and zeros behind it.
LEMMA WrittenByte ==
  ASSUME NEW s \in Segment, s.offset + s.file_size <= Len(image.file), image.file \in Seq(Nat),
         NEW k \in 0 .. s.mem_size - 1
  PROVE  chunk_write(Chunk(segment_pages(s), TRUE), s.virtual_addr - va_start(s),
                     file_bytes(s))[(s.virtual_addr + k) - (s.virtual_addr \div LOAD_PAGE) * LOAD_PAGE]
         = IF k < s.file_size THEN Char(image.file[s.offset + k + 1]) ELSE Zero
<1> DEFINE v == s.virtual_addr
           b == va_start(s)
           n == segment_pages(s)
           base == (v \div LOAD_PAGE) * LOAD_PAGE
           o == (v + k) - base
           data == file_bytes(s)
           chunk == Chunk(n, TRUE)
<1>1. /\ s.virtual_addr \in Nat /\ s.mem_size \in Nat /\ s.file_size \in Nat /\ s.offset \in Nat
  BY DEF Segment
<1>2. /\ n \in Nat /\ b \in Nat /\ b <= v /\ b = base
      /\ v - b + s.mem_size <= n * LOAD_PAGE
  BY <1>1, SegmentBytes
<1>3. n * LOAD_PAGE \in Nat
  BY <1>2, LoaderAssumption
<1>4. chunk = [j \in 0 .. n * LOAD_PAGE - 1 |-> Zero]
  BY DEF Chunk
<1>5. data = [j \in 1 .. s.file_size |->
                IF s.offset + j <= Len(image.file) THEN Char(image.file[s.offset + j]) ELSE Junk]
  BY DEF file_bytes
<1>6. Len(image.file) \in Nat
  OBVIOUS
<1> HIDE DEF n, b, base, v, data, chunk
<1>7. o = (v + k) - b /\ o \in 0 .. n * LOAD_PAGE - 1 /\ o - (v - b) + 1 = k + 1
  <2>1. o = (v + k) - b
    BY <1>2
  <2> DEFINE size == n * LOAD_PAGE
  <2>2. size \in Nat /\ v - b + s.mem_size <= size
    BY <1>2, <1>3
  <2> HIDE DEF o, size
  <2>3. v \in Nat /\ k \in Nat /\ k < s.mem_size
    BY <1>1 DEF v
  <2>4. o \in 0 .. size - 1 /\ o - (v - b) + 1 = k + 1
    BY <1>1, <1>2, <2>1, <2>2, <2>3
  <2> QED
    BY <2>1, <2>4 DEF size
<1> HIDE DEF o
<1>8. chunk_write(chunk, v - b, data)[o] = IF k + 1 \in DOMAIN data THEN data[k + 1] ELSE chunk[o]
  BY <1>4, <1>7 DEF chunk_write
<1>9. CASE k < s.file_size
  <2>1. /\ k + 1 \in 1 .. s.file_size /\ s.offset + (k + 1) <= Len(image.file)
        /\ s.offset + (k + 1) = s.offset + k + 1
    BY <1>1, <1>6, <1>9
  <2>2. data[k + 1] = Char(image.file[s.offset + k + 1]) /\ k + 1 \in DOMAIN data
    BY <1>5, <2>1
  <2> QED
    BY <1>8, <1>9, <2>2 DEF o, chunk, data, b, n, base, v
<1>10. CASE ~(k < s.file_size)
  <2>1. k + 1 \notin 1 .. s.file_size
    BY <1>1, <1>10
  <2>2. k + 1 \notin DOMAIN data /\ chunk[o] = Zero
    BY <1>4, <1>5, <1>7, <2>1
  <2> QED
    BY <1>8, <1>10, <2>2 DEF o, chunk, data, b, n, base, v
<1> QED
  BY <1>9, <1>10

\* A byte of a segment keeps its value when other pages are mapped.
LEMMA OtherPages ==
  ASSUME image \in Images, NEW i \in 1 .. Len(image.segments), image.segments[i].load,
         NEW page, NEW n, NEW chunk, NEW rights, map_at(page, n, chunk, rights),
         (page .. page + n - 1) \cap SegmentPages(image.segments[i]) = {},
         NEW k \in 0 .. image.segments[i].mem_size - 1
  PROVE  memory'[image.segments[i].virtual_addr + k] = memory[image.segments[i].virtual_addr + k]
<1> DEFINE s == image.segments[i]
           a == s.virtual_addr + k
<1>1. s.virtual_addr \in Nat /\ s.mem_size \in Nat /\ s.virtual_addr + s.mem_size <= LOAD_PAGES * LOAD_PAGE
  BY SegmentType
<1>2. a \div LOAD_PAGE \in SegmentPages(s)
  BY <1>1, SegmentBytes
<1>3. a \in Load_VA
  <2>1. LOAD_PAGES * LOAD_PAGE \in Nat
    BY LoaderAssumption
  <2> QED
    BY <1>1, <2>1 DEF Load_VA
<1> HIDE DEF s, a
<1>4. a \div LOAD_PAGE \notin page .. page + n - 1
  BY <1>2 DEF s
<1>5. memory'[a] = memory[a]
  BY <1>3, <1>4 DEF map_at
<1> QED
  BY <1>5 DEF a, s

\* A segment is loaded: it holds its data, and the earlier ones keep theirs.
LEMMA LoadSegmentInv ==
  ASSUME LoadInv, LoadSegment
  PROVE  LoadInv'
<1> DEFINE s == image.segments[segment]
           q == s.virtual_addr \div LOAD_PAGE
           n == segment_pages(s)
           is_executable == flag_and(s.flags, "EXECUTABLE") # {}
           is_writable == flag_and(s.flags, "WRITABLE") # {}
           rights == {r \in {"read", "write", "execute"} :
                        (r = "write" => is_writable) /\ (r = "execute" => is_executable)}
<1>1. /\ image \in Images /\ segment \in Nat \ {0} /\ segment <= Len(image.segments) /\ stage = "loading"
      /\ s.load /\ image' = image /\ segment' = segment + 1
  BY DEF LoadInv, LoadTypes, LoadSegment, AtSegment
<1>2. PICK okay \in BOOLEAN :
        /\ map_at(q, n, chunk_write(Chunk(n, okay), s.virtual_addr - va_start(s),
                                    IF okay THEN file_bytes(s) ELSE <<>>), rights)
        /\ stage' = IF ~okay /\ s.file_size > 0 THEN "panic" ELSE stage
        /\ starved' = IF okay THEN starved ELSE starved \cup {segment}
  <2>1. \E okay \in IF n = 0 THEN {TRUE} ELSE BOOLEAN :
          /\ map_at(q, n, chunk_write(Chunk(n, okay), s.virtual_addr - va_start(s),
                                      IF okay THEN file_bytes(s) ELSE <<>>), rights)
          /\ stage' = IF ~okay /\ s.file_size > 0 THEN "panic" ELSE stage
          /\ starved' = IF okay THEN starved ELSE starved \cup {segment}
    BY Zenon DEF LoadSegment
  <2>2. \A okay \in IF n = 0 THEN {TRUE} ELSE BOOLEAN : okay \in BOOLEAN
    OBVIOUS
  <2> HIDE DEF s, q, n, rights
  <2> QED
    BY <2>1, <2>2, Zenon
<1>3. segment \in 1 .. Len(image.segments) /\ segment' - 1 = segment /\ Len(image.segments) \in Nat
  <2>1. image.segments \in Seq(Segment)
    BY <1>1, ImagesAssumption
  <2> QED
    BY <1>1, <2>1
<1>4. LoadTypes'
  BY <1>1, <1>2, <1>3 DEF LoadTypes
<1> HIDE DEF rights
<1>10. PICK m : m = segment
  OBVIOUS
<1>5. SegmentPages(s) = q .. q + n - 1
  BY DEF SegmentPages
<1>6. s \in Segment /\ image.file \in Seq(Nat) /\ s.virtual_addr \in Nat /\ s.mem_size \in Nat
      /\ s.virtual_addr + s.mem_size <= LOAD_PAGES * LOAD_PAGE
  BY <1>1, <1>3, SegmentType
<1>7. ASSUME m \notin starved', InFile(m)'
      PROVE  Present(m)'
  <2>1. okay = TRUE
    BY <1>2, <1>7, <1>10
  <2> DEFINE written == chunk_write(Chunk(n, TRUE), s.virtual_addr - va_start(s), file_bytes(s))
  <2>2. map_at(q, n, written, rights)
    BY <1>2, <2>1
  <2>3. s.offset + s.file_size <= Len(image.file)
    BY <1>1, <1>7, <1>10 DEF InFile
  <2>4. ASSUME NEW k \in 0 .. s.mem_size - 1
        PROVE  memory'[s.virtual_addr + k]
               = IF k < s.file_size THEN Char(image.file[s.offset + k + 1]) ELSE Zero
    <3> DEFINE a == s.virtual_addr + k
    <3>1. a \in Load_VA
      <4>1. LOAD_PAGES * LOAD_PAGE \in Nat
        BY LoaderAssumption
      <4> QED
        BY <1>6, <4>1 DEF Load_VA
    <3>2. a \div LOAD_PAGE \in q .. q + n - 1
      BY <1>5, <1>6, SegmentBytes
    <3>3. written[a - q * LOAD_PAGE] = IF k < s.file_size THEN Char(image.file[s.offset + k + 1]) ELSE Zero
      BY <1>6, <2>3, WrittenByte
    <3> HIDE DEF a, written, q, n, s
    <3>4. memory'[a] = written[a - q * LOAD_PAGE]
      BY <2>2, <3>1, <3>2 DEF map_at
    <3> QED
      BY <3>3, <3>4 DEF a
  <2> HIDE DEF s
  <2>5. s = image'.segments[m] /\ image' = image
    BY <1>1, <1>10 DEF s
  <2> QED
    BY <2>4, <2>5 DEF Present
<1>8. ASSUME NEW i \in 1 .. m - 1, i \notin starved', InFile(i)', Alone(i, m)'
      PROVE  Present(i)'
  <2>1. i \notin starved /\ InFile(i) /\ i \in 1 .. Len(image.segments)
    BY <1>1, <1>2, <1>3, <1>8, <1>10 DEF InFile
  <2>2. Alone(i, segment - 1) /\ SegmentPages(s) \cap SegmentPages(image.segments[i]) = {}
    <3>1. \A j \in i + 1 .. segment : image.segments[j].load =>
            SegmentPages(image.segments[j]) \cap SegmentPages(image.segments[i]) = {}
      BY <1>1, <1>8, <1>10 DEF Alone, SegmentPages, segment_pages, va_start, load_div_round_up
    <3>2. segment \in i + 1 .. segment /\ \A j \in i + 1 .. segment - 1 : j \in i + 1 .. segment
      BY <1>1, <1>8, <1>10
    <3> QED
      BY <1>1, <3>1, <3>2 DEF Alone
  <2>3. Present(i)
    BY <1>1, <1>10, <2>1, <2>2 DEF LoadInv, Loaded
  <2>4. image.segments[i].load
    BY <2>1 DEF InFile
  <2>5. ASSUME NEW k \in 0 .. image.segments[i].mem_size - 1
        PROVE  memory'[image.segments[i].virtual_addr + k] = memory[image.segments[i].virtual_addr + k]
    BY <1>1, <1>2, <1>5, <2>1, <2>2, <2>4, OtherPages
  <2> QED
    BY <1>1, <2>3, <2>5 DEF Present
<1>9. ASSUME NEW i \in 1 .. m, i \notin starved', InFile(i)', Alone(i, m)'
      PROVE  Present(i)'
  <2>1. CASE i = m
    BY <1>7, <1>9, <2>1
  <2>2. CASE i # m
    <3>1. i \in 1 .. m - 1
      BY <1>1, <1>9, <1>10, <2>2
    <3> QED
      BY <1>8, <1>9, <3>1
  <2> QED
    BY <2>1, <2>2
<1>11. (segment - 1)' = m
  BY <1>3, <1>10
<1> QED
  BY <1>4, <1>9, <1>11 DEF LoadInv

\* The arguments are written: behind the loop, and over no segment that spares their page.
LEMMA WriteArgumentsInv ==
  ASSUME LoadInv, WriteArguments
  PROVE  LoadInv'
<1>1. PICK okay \in BOOLEAN :
        /\ map_at(ARGS_PAGE, 1, ArgsChunk(okay), {"read"})
        /\ stage' = IF okay THEN "running" ELSE "running without arguments"
  BY Zenon DEF WriteArguments
<1>2. /\ stage = "created" /\ image' = image /\ segment' = segment /\ starved' = starved
      /\ image \in Images /\ segment = Len(image.segments) + 1
  BY DEF WriteArguments, LoadInv, LoadTypes
<1>3. LoadTypes'
  BY <1>1, <1>2 DEF LoadInv, LoadTypes
<1>4. Len(image.segments) \in Nat /\ segment - 1 = Len(image.segments)
  <2>1. image.segments \in Seq(Segment)
    BY <1>2, ImagesAssumption
  <2> QED
    BY <1>2, <2>1
<1>5. ASSUME NEW i \in (1 .. segment - 1) \ starved, InFile(i)', Alone(i, segment - 1)',
             Loaded' => SparesArguments(i)'
      PROVE  Present(i)'
  <2>1. InFile(i) /\ image.segments[i].load /\ i \in 1 .. Len(image.segments)
    BY <1>2, <1>4, <1>5 DEF InFile
  <2>2. Alone(i, segment - 1)
    BY <1>2, <1>5 DEF Alone, SegmentPages, segment_pages, va_start, load_div_round_up
  <2>3. ARGS_PAGE \notin SegmentPages(image.segments[i])
    BY <1>1, <1>2, <1>5
    DEF Loaded, SparesArguments, SegmentPages, segment_pages, va_start, load_div_round_up
  <2>4. Present(i)
    BY <1>2, <1>5, <2>1, <2>2 DEF LoadInv, Loaded
  <2>5. (ARGS_PAGE .. ARGS_PAGE + 1 - 1) \cap SegmentPages(image.segments[i]) = {}
    <3>1. ARGS_PAGE \in Int
      BY LoaderAssumption
    <3>2. ARGS_PAGE .. ARGS_PAGE + 1 - 1 = {ARGS_PAGE}
      BY <3>1
    <3> QED
      BY <2>3, <3>2
  <2>6. ASSUME NEW k \in 0 .. image.segments[i].mem_size - 1
        PROVE  memory'[image.segments[i].virtual_addr + k] = memory[image.segments[i].virtual_addr + k]
    BY <1>1, <1>2, <2>1, <2>5, OtherPages
  <2> QED
    BY <1>2, <2>4, <2>6 DEF Present
<1> QED
  BY <1>2, <1>3, <1>5 DEF LoadInv

\* The steps that load nothing.
LEMMA OtherStepInv ==
  ASSUME LoadInv, ReadImage \/ RefuseSegment \/ SkipSegment \/ MapFails \/ EndOfSegments \/ UNCHANGED loadVars
  PROVE  LoadInv'
<1>1. /\ image' = image /\ starved' = starved /\ memory' = memory /\ segment \in Nat \ {0} /\ image \in Images
  BY DEF ReadImage, RefuseSegment, SkipSegment, MapFails, EndOfSegments, loadVars, LoadInv, LoadTypes
<1>2. Len(image.segments) \in Nat
  <2>1. image.segments \in Seq(Segment)
    BY <1>1, ImagesAssumption
  <2> QED
    BY <2>1
<1>3. LoadTypes'
  <2>1. LoadTypes
    BY DEF LoadInv
  <2>2. CASE ReadImage \/ RefuseSegment \/ MapFails
    BY <1>1, <2>1, <2>2 DEF ReadImage, RefuseSegment, MapFails, AtSegment, LoadTypes
  <2>3. CASE SkipSegment
    BY <1>1, <1>2, <2>1, <2>3 DEF SkipSegment, AtSegment, LoadTypes
  <2>4. CASE EndOfSegments
    BY <1>1, <1>2, <2>1, <2>4 DEF EndOfSegments, LoadTypes
  <2>5. CASE UNCHANGED loadVars
    BY <2>1, <2>5 DEF loadVars, LoadTypes
  <2> QED
    BY <2>2, <2>3, <2>4, <2>5
<1>4. Loaded => Loaded'
  BY DEF ReadImage, RefuseSegment, SkipSegment, MapFails, EndOfSegments, AtSegment, loadVars, Loaded
<1>5. \A i : /\ InFile(i)' <=> InFile(i)
             /\ SparesArguments(i)' <=> SparesArguments(i)
             /\ Present(i)' <=> Present(i)
  BY <1>1 DEF InFile, SparesArguments, Present, SegmentPages, segment_pages, va_start, load_div_round_up
<1>6. ASSUME NEW i \in (1 .. segment' - 1) \ starved, InFile(i)', Alone(i, segment - 1)',
             Loaded' => SparesArguments(i)'
      PROVE  Present(i)'
  <2>1. InFile(i) /\ (Loaded => SparesArguments(i))
    BY <1>4, <1>5, <1>6
  <2>2. \/ segment' = segment
        \/ segment' = segment + 1 /\ ~image.segments[segment].load
    BY DEF ReadImage, RefuseSegment, SkipSegment, MapFails, EndOfSegments, loadVars
  <2>3. i \in 1 .. segment - 1
    <3>1. i = segment \/ i \in 1 .. segment - 1
      BY <1>1, <1>6, <2>2
    <3>2. i = segment => image.segments[segment].load
      BY <2>1 DEF InFile
    <3> QED
      BY <1>1, <1>6, <2>2, <3>1, <3>2
  <2>4. \A j \in i + 1 .. segment' - 1 : image.segments[j].load =>
          SegmentPages(image.segments[j]) \cap SegmentPages(image.segments[i]) = {}
    BY <1>1, <1>6 DEF Alone, SegmentPages, segment_pages, va_start, load_div_round_up
  <2>5. Alone(i, segment - 1)
    <3>1. \A j \in i + 1 .. segment - 1 : j \in i + 1 .. segment' - 1
      BY <1>1, <2>2
    <3> QED
      BY <2>4, <3>1 DEF Alone
  <2> QED
    BY <1>5, <1>6, <2>1, <2>3, <2>5 DEF LoadInv
<1> QED
  BY <1>1, <1>3, <1>6 DEF LoadInv

\* A program finds the data of its file in every segment that has got its memory and whose pages are
\* its own, whatever was loaded before and after it (task_manager.cpp create_task(), memory_chunk.cpp
\* write(), pika_syscalls.cpp pika_sys_spawn()).
THEOREM LoadCorrect == LoadSpec => []ImageIsLoaded
<1>1. LoadInit => LoadInv
  <2> SUFFICES ASSUME LoadInit
               PROVE  LoadInv
    OBVIOUS
  <2>1. image \in Images /\ segment = 1 /\ stage = "open"
    BY DEF LoadInit
  <2>2. Len(image.segments) \in Nat
    <3>1. image.segments \in Seq(Segment)
      BY <2>1, ImagesAssumption
    <3> QED
      BY <3>1
  <2>3. 1 .. segment - 1 = {}
    BY <2>1
  <2> QED
    BY <2>1, <2>2, <2>3 DEF LoadInv, LoadTypes
<1>2. LoadInv /\ [LoadNext]_loadVars => LoadInv'
  <2> SUFFICES ASSUME LoadInv, [LoadNext]_loadVars
               PROVE  LoadInv'
    OBVIOUS
  <2>1. CASE LoadSegment
    BY <2>1, LoadSegmentInv
  <2>2. CASE WriteArguments
    BY <2>2, WriteArgumentsInv
  <2>3. CASE ReadImage \/ RefuseSegment \/ SkipSegment \/ MapFails \/ EndOfSegments \/ UNCHANGED loadVars
    BY <2>3, OtherStepInv
  <2> QED
    BY <2>1, <2>2, <2>3 DEF LoadNext
<1>3. LoadInv => ImageIsLoaded
  <2> SUFFICES ASSUME LoadInv, Loaded,
                      NEW i \in DOMAIN image.segments \ starved,
                      InFile(i), SparesArguments(i), Alone(i, Len(image.segments))
               PROVE  Present(i)
    BY DEF ImageIsLoaded, InFile, SparesArguments, Alone, Present
  <2>1. image.segments \in Seq(Segment) /\ segment = Len(image.segments) + 1
    BY ImagesAssumption DEF LoadInv, LoadTypes, Loaded
  <2>2. segment - 1 = Len(image.segments) /\ i \in 1 .. segment - 1
    BY <2>1
  <2> QED
    BY <2>2 DEF LoadInv
<1> QED
  BY <1>1, <1>2, <1>3, PTL DEF LoadSpec
-----------------------------------------------------------------------------
\* The arguments. What precedes their strings in the page: the slack of argc bytes, and the words.
ArgsHead == Len(argv) + WORD_BYTES * (Len(argv) + 1)

\* The words are before one another and before the strings.
LEMMA WordsInOrder ==
  ASSUME NEW w \in Nat, NEW i \in Nat, NEW j \in Nat, i < j
  PROVE  w * i \in Nat /\ w * j \in Nat /\ w * i + w <= w * j
<1>1. w * i \in Nat /\ w * j \in Nat /\ w * (j - i) \in Nat /\ w * (j - i) = w * j - w * i
  OBVIOUS
<1>2. j - i - 1 \in Nat /\ w * (j - i - 1) \in Nat
  OBVIOUS
<1>3. w * (j - i - 1) = w * (j - i) - w
  OBVIOUS
<1> QED
  BY <1>1, <1>2, <1>3

\* The arguments of a program.
LEMMA ArgumentsType ==
  ASSUME argv \in ArgLists
  PROVE  /\ argv \in Seq(Seq(Nat)) /\ Len(argv) \in Nat /\ ArgsHead \in Nat
         /\ \A k \in 1 .. Len(argv) : argv[k] \in Seq(Nat) /\ Len(argv[k]) \in Nat
<1>1. argv \in Seq(Seq(Nat)) /\ Len(argv) \in Nat
  BY ArgumentsAssumption
<1>2. WORD_BYTES * (Len(argv) + 1) \in Nat
  BY <1>1, LoaderAssumption
<1> QED
  BY <1>1, <1>2 DEF ArgsHead

\* The lengths of the arguments, each with its end, summed up from a.
LengthsFrom(a) ==
  LET sum[k \in 0 .. Len(argv)] == IF k = 0 THEN a ELSE sum[k - 1] + Len(argv[k]) + 1 IN sum

\* Such a sum: what it starts from, and each of its steps.
LEMMA SumOfArguments ==
  ASSUME argv \in ArgLists, NEW a \in Nat, NEW sum, sum = LengthsFrom(a)
  PROVE  /\ sum[0] = a /\ \A k \in 0 .. Len(argv) : sum[k] \in Nat
         /\ \A k \in 1 .. Len(argv) : sum[k] = sum[k - 1] + Len(argv[k]) + 1
<1> DEFINE n == Len(argv)
           step == [k \in 1 .. n |-> [x \in Nat |-> x + Len(argv[k]) + 1]]
           Sum(f) == f = [k \in 0 .. n |-> IF k = 0 THEN a ELSE f[k - 1] + Len(argv[k]) + 1]
<1>1. n \in Nat /\ \A k \in 1 .. n : Len(argv[k]) \in Nat
  BY ArgumentsType
<1>2. step \in [1 .. n -> [Nat -> Nat]]
  BY <1>1
<1>3. PICK f : Iterates(f, step, a, n, Nat)
  <2>1. n \in Nat /\ StepFunctions(step, n, Nat)
    BY <1>1, <1>2 DEF StepFunctions
  <2> HIDE DEF step, n
  <2> QED
    BY <2>1, Iteration
<1>4. \A k \in 0 .. n : k # 0 => k \in 1 .. n /\ k - 1 \in 0 .. n
  BY <1>1
<1>5. ASSUME NEW k \in 1 .. n PROVE step[k][f[k - 1]] = f[k - 1] + Len(argv[k]) + 1
  <2>1. k - 1 \in 0 .. n
    BY <1>1
  <2>2. f[k - 1] \in Nat
    BY <1>3, <2>1 DEF Iterates
  <2> QED
    BY <2>2
<1>6. \A k \in 0 .. n : f[k] = IF k = 0 THEN a ELSE f[k - 1] + Len(argv[k]) + 1
  <2> HIDE DEF step, n
  <2> QED
    BY <1>3, <1>4, <1>5 DEF Iterates
<1>7. Sum(f)
  <2>1. f = [k \in 0 .. n |-> f[k]]
    BY <1>3 DEF Iterates
  <2> QED
    BY <1>6, <2>1
<1>8. Sum(sum)
  <2>1. sum = CHOOSE g : Sum(g)
    BY DEF LengthsFrom
  <2> HIDE DEF Sum
  <2> QED
    BY <1>7, <2>1
<1>9. /\ sum[0] = a
      /\ \A k \in 1 .. n : sum[k] = sum[k - 1] + Len(argv[k]) + 1
  <2>1. \A k \in 1 .. n : k \in 0 .. n /\ k # 0
    BY <1>1
  <2>2. 0 \in 0 .. n
    BY <1>1
  <2> QED
    BY <1>8, <2>1, <2>2
<1>10. \A k \in 0 .. n : sum[k] \in Nat
  <2> DEFINE Bad == {k \in 0 .. n : sum[k] \notin Nat}
  <2> SUFFICES ASSUME Bad # {} PROVE FALSE
    OBVIOUS
  <2>1. Bad \in SUBSET Nat
    OBVIOUS
  <2>2. PICK m \in Bad : \A j \in Bad : m <= j
    <3> HIDE DEF Bad
    <3> QED
      BY <2>1, LeastNatural
  <2>3. m # 0 /\ m \in 1 .. n
    BY <1>1, <1>9
  <2>4. m - 1 \in 0 .. n /\ ~(m <= m - 1)
    BY <1>1, <2>3
  <2>5. sum[m - 1] \in Nat
    BY <2>2, <2>4
  <2>6. sum[m] \in Nat
    <3>1. sum[m] = sum[m - 1] + Len(argv[m]) + 1 /\ Len(argv[m]) \in Nat
      BY <1>1, <1>9, <2>3
    <3> QED
      BY <2>5, <3>1
  <2> QED
    BY <2>2, <2>6
<1> QED
  BY <1>9, <1>10

\* Where the strings are: behind the words, one after the other; and what an argument needs of the page
\* is what ends with its string.
LEMMA OffsetsFollow ==
  ASSUME argv \in ArgLists
  PROVE  /\ argv_data_offset(1) = ArgsHead
         /\ \A k \in 1 .. Len(argv) + 1 : argv_data_offset(k) \in Nat
         /\ \A k \in 1 .. Len(argv) : argv_data_offset(k + 1) = argv_data_offset(k) + Len(argv[k]) + 1
<1> DEFINE sum == LengthsFrom(ArgsHead)
<1>2. argv_data_start(Len(argv)) = ArgsHead /\ ArgsHead \in Nat /\ Len(argv) \in Nat
  BY ArgumentsType DEF argv_data_start, ArgsHead
<1>1. \A i : argv_data_offset(i) = sum[i - 1]
  BY <1>2 DEF argv_data_offset, LengthsFrom
<1> HIDE DEF sum
<1>4. /\ sum[0] = ArgsHead /\ \A k \in 0 .. Len(argv) : sum[k] \in Nat
      /\ \A k \in 1 .. Len(argv) : sum[k] = sum[k - 1] + Len(argv[k]) + 1
  BY <1>2, SumOfArguments DEF sum
<1>5. argv_data_offset(1) = sum[0] /\ \A k \in Nat : argv_data_offset(k + 1) = sum[k]
  <2>1. \A k \in Nat : (k + 1) - 1 = k
    OBVIOUS
  <2> QED
    BY <1>1, <2>1
<1>6. \A k \in 1 .. Len(argv) + 1 : argv_data_offset(k) \in Nat
  <2>1. \A k \in 1 .. Len(argv) + 1 : k - 1 \in 0 .. Len(argv)
    BY <1>2
  <2> QED
    BY <1>1, <1>4, <2>1
<1>7. ASSUME NEW k \in 1 .. Len(argv)
      PROVE  argv_data_offset(k + 1) = argv_data_offset(k) + Len(argv[k]) + 1
  <2>1. k \in Nat
    BY <1>2
  <2>2. argv_data_offset(k + 1) = sum[k] /\ argv_data_offset(k) = sum[k - 1]
    BY <1>1, <1>5, <2>1
  <2> QED
    BY <1>4, <2>2
<1> QED
  BY <1>4, <1>5, <1>6, <1>7

\* No string begins before the words end or before an earlier string has ended.
LEMMA OffsetsGrow ==
  ASSUME argv \in ArgLists, NEW i \in 1 .. Len(argv), NEW k \in 1 .. Len(argv), i < k
  PROVE  argv_data_offset(i) + Len(argv[i]) + 1 <= argv_data_offset(k)
<1> DEFINE n == Len(argv)
           off(j) == argv_data_offset(j)
           Bad == {j \in Nat : i < j /\ j <= n /\ off(j) < off(i) + Len(argv[i]) + 1}
<1>1. /\ n \in Nat /\ \A j \in 1 .. n : Len(argv[j]) \in Nat /\ off(j) \in Nat /\ off(j + 1) = off(j) + Len(argv[j]) + 1
  BY OffsetsFollow, ArgumentsType
<1> HIDE DEF off, n
<1>2. Bad = {}
  <2> SUFFICES ASSUME Bad # {} PROVE FALSE
    OBVIOUS
  <2>1. PICK m \in Bad : \A j \in Bad : m <= j
    BY LeastNatural
  <2>2. CASE m = i + 1
    BY <1>1, <2>1, <2>2 DEF n
  <2>3. CASE m # i + 1
    <3>1. m - 1 \in Nat /\ i < m - 1 /\ m - 1 <= n /\ m - 1 \in 1 .. n /\ ~(m <= m - 1)
      BY <1>1, <2>1, <2>3 DEF n
    <3>2. ~(off(m - 1) < off(i) + Len(argv[i]) + 1)
      BY <2>1, <3>1
    <3>3. off(m) = off(m - 1) + Len(argv[m - 1]) + 1
      <4>1. (m - 1) + 1 = m
        BY <2>1
      <4> QED
        BY <1>1, <3>1, <4>1
    <3>4. m \in 1 .. n /\ i \in 1 .. n
      BY <2>1, <1>1 DEF n
    <3>5. off(m - 1) \in Nat /\ off(m) \in Nat /\ off(i) \in Nat /\ Len(argv[i]) \in Nat /\ Len(argv[m - 1]) \in Nat
      BY <1>1, <3>1, <3>4
    <3>6. off(m) < off(i) + Len(argv[i]) + 1
      BY <2>1
    <3> QED
      BY <3>2, <3>3, <3>5, <3>6
  <2> QED
    BY <2>2, <2>3
<1>3. k \in Nat /\ i < k /\ k <= n
  BY DEF n
<1>4. ~(off(k) < off(i) + Len(argv[i]) + 1)
  BY <1>2, <1>3
<1> QED
  BY <1>1, <1>4 DEF n, off

\* A byte of what write() leaves in a chunk.
LEMMA ChunkWrite ==
  ASSUME NEW chunk, NEW b \in Nat, NEW data, NEW m \in Nat, DOMAIN data = 1 .. m, NEW o \in Nat,
         o \in DOMAIN chunk
  PROVE  /\ o \in b .. b + m - 1 => chunk_write(chunk, b, data)[o] = data[o - b + 1]
         /\ o \notin b .. b + m - 1 => chunk_write(chunk, b, data)[o] = chunk[o]
<1>1. o \in b .. b + m - 1 <=> o - b + 1 \in 1 .. m
  OBVIOUS
<1> QED
  BY <1>1 DEF chunk_write

\* The page after its first k arguments have been written.
ArgsPage ==
  LET page[i \in 0 .. Len(argv)] ==
        IF i = 0 THEN chunk_write(Chunk(1, TRUE), 0, Word(Len(argv)))
        ELSE chunk_write(chunk_write(page[i - 1], argv_data_offset(i), String(argv[i])),
                   WORD_BYTES * i, Word(ARGS_PAGE * LOAD_PAGE + argv_data_offset(i)))
  IN page

\* The bytes a page may hold.
ByteSet == Int \X Nat

\* What is written into the page: words and strings.
LEMMA WordsAndStrings ==
  /\ \A v \in Nat : Word(v) \in [1 .. WORD_BYTES -> ByteSet]
  /\ \A s \in Seq(Nat) : String(s) \in [1 .. Len(s) + 1 -> ByteSet]
<1>1. ASSUME NEW v \in Nat PROVE Word(v) \in [1 .. WORD_BYTES -> ByteSet]
  BY LoaderAssumption DEF Word, ByteSet, Zero, Char
<1>2. ASSUME NEW s \in Seq(Nat) PROVE String(s) \in [1 .. Len(s) + 1 -> ByteSet]
  <2>1. \A k \in 1 .. Len(s) + 1 : k <= Len(s) => s[k] \in Nat
    OBVIOUS
  <2> QED
    BY <2>1 DEF String, ByteSet, Zero, Char
<1> QED
  BY <1>1, <1>2

\* A page that is written to remains a page.
Page == [0 .. LOAD_PAGE - 1 -> ByteSet]
LEMMA PageWritten ==
  ASSUME NEW page \in Page, NEW b, NEW m, NEW data \in [m -> ByteSet]
  PROVE  chunk_write(page, b, data) \in Page
BY DEF chunk_write, Page

\* The page, argument by argument.
LEMMA PageFollows ==
  ASSUME argv \in ArgLists
  PROVE  /\ ArgsPage[0] = chunk_write(Chunk(1, TRUE), 0, Word(Len(argv)))
         /\ \A k \in 1 .. Len(argv) :
              ArgsPage[k] = chunk_write(chunk_write(ArgsPage[k - 1], argv_data_offset(k), String(argv[k])),
                              WORD_BYTES * k, Word(ARGS_PAGE * LOAD_PAGE + argv_data_offset(k)))
         /\ \A k \in 0 .. Len(argv) : DOMAIN ArgsPage[k] = 0 .. LOAD_PAGE - 1
<1> DEFINE n == Len(argv)
           first == chunk_write(Chunk(1, TRUE), 0, Word(n))
           next(page, k) == chunk_write(chunk_write(page, argv_data_offset(k), String(argv[k])),
                              WORD_BYTES * k, Word(ARGS_PAGE * LOAD_PAGE + argv_data_offset(k)))
           step == [k \in 1 .. n |-> [page \in Page |-> next(page, k)]]
           Run(f) == f = [k \in 0 .. n |-> IF k = 0 THEN first ELSE next(f[k - 1], k)]
<1>1. n \in Nat /\ \A k \in 1 .. n : /\ argv_data_offset(k) \in Nat /\ argv[k] \in Seq(Nat)
                                     /\ ARGS_PAGE * LOAD_PAGE + argv_data_offset(k) \in Nat
  <2>1. n \in Nat /\ ARGS_PAGE * LOAD_PAGE \in Nat /\ \A k \in 1 .. n : argv[k] \in Seq(Nat)
    BY ArgumentsType, LoaderAssumption
  <2>2. \A k \in 1 .. n : argv_data_offset(k) \in Nat
    BY <2>1, OffsetsFollow
  <2> QED
    BY <2>1, <2>2
<1>2. first \in Page
  <2>1. Chunk(1, TRUE) \in Page
    BY LoaderAssumption DEF Page, Chunk, ByteSet, Zero, Char
  <2>2. Word(n) \in [1 .. WORD_BYTES -> ByteSet]
    BY <1>1, WordsAndStrings
  <2> QED
    BY <2>1, <2>2, PageWritten
<1>3. ASSUME NEW k \in 1 .. n, NEW page \in Page PROVE next(page, k) \in Page
  <2>1. String(argv[k]) \in [1 .. Len(argv[k]) + 1 -> ByteSet]
    BY <1>1, WordsAndStrings
  <2>2. Word(ARGS_PAGE * LOAD_PAGE + argv_data_offset(k)) \in [1 .. WORD_BYTES -> ByteSet]
    BY <1>1, WordsAndStrings
  <2>3. chunk_write(page, argv_data_offset(k), String(argv[k])) \in Page
    BY <2>1, PageWritten
  <2> QED
    BY <2>2, <2>3, PageWritten
<1> HIDE DEF first, next
<1>4. StepFunctions(step, n, Page)
  BY <1>3 DEF StepFunctions
<1>5. PICK f : Iterates(f, step, first, n, Page)
  <2> HIDE DEF step, n
  <2> QED
    BY <1>1, <1>2, <1>4, Iteration
<1>6. \A k \in 0 .. n : k # 0 => k \in 1 .. n /\ k - 1 \in 0 .. n
  BY <1>1
<1>7. ASSUME NEW k \in 1 .. n PROVE step[k][f[k - 1]] = next(f[k - 1], k)
  <2>1. k - 1 \in 0 .. n
    BY <1>1
  <2>2. f[k - 1] \in Page
    BY <1>5, <2>1 DEF Iterates
  <2> QED
    BY <2>2
<1>8. \A k \in 0 .. n : f[k] = IF k = 0 THEN first ELSE next(f[k - 1], k)
  <2> HIDE DEF step, n
  <2> QED
    BY <1>5, <1>6, <1>7 DEF Iterates
<1>9. Run(f)
  <2>1. f = [k \in 0 .. n |-> f[k]]
    BY <1>5 DEF Iterates
  <2> QED
    BY <1>8, <2>1
<1>10. Run(ArgsPage)
  <2>1. ArgsPage = CHOOSE g : Run(g)
    BY DEF ArgsPage, first, next
  <2> HIDE DEF Run
  <2> QED
    BY <1>9, <2>1
<1>11. /\ ArgsPage[0] = first
       /\ \A k \in 1 .. n : ArgsPage[k] = next(ArgsPage[k - 1], k)
  <2>1. \A k \in 1 .. n : k \in 0 .. n /\ k # 0
    BY <1>1
  <2>2. 0 \in 0 .. n
    BY <1>1
  <2> QED
    BY <1>10, <2>1, <2>2
<1>12. \A k \in 0 .. n : DOMAIN ArgsPage[k] = 0 .. LOAD_PAGE - 1
  <2>1. \A page, k : DOMAIN next(page, k) = DOMAIN page
    BY DEF next, chunk_write
  <2> DEFINE Bad == {k \in 0 .. n : DOMAIN ArgsPage[k] # 0 .. LOAD_PAGE - 1}
  <2> SUFFICES ASSUME Bad # {} PROVE FALSE
    OBVIOUS
  <2>2. Bad \in SUBSET Nat
    OBVIOUS
  <2>3. PICK m \in Bad : \A j \in Bad : m <= j
    <3> HIDE DEF Bad
    <3> QED
      BY <2>2, LeastNatural
  <2>4. m # 0
    BY <1>2, <1>11, <2>3 DEF Page
  <2>5. m \in 1 .. n /\ m - 1 \in 0 .. n /\ ~(m <= m - 1)
    BY <1>1, <2>3, <2>4
  <2>6. DOMAIN ArgsPage[m - 1] = 0 .. LOAD_PAGE - 1
    BY <2>3, <2>5
  <2>7. DOMAIN ArgsPage[m] = 0 .. LOAD_PAGE - 1
    BY <1>11, <2>1, <2>5, <2>6
  <2> QED
    BY <2>3, <2>7
<1> QED
  BY <1>11, <1>12 DEF first, next

\* A byte of the page after argument k: of its pointer, of its string, or as it was.
LEMMA PageByte ==
  ASSUME argv \in ArgLists, NEW k \in 1 .. Len(argv), NEW o \in 0 .. LOAD_PAGE - 1
  PROVE  /\ o \in WORD_BYTES * k .. WORD_BYTES * k + WORD_BYTES - 1 =>
              ArgsPage[k][o] = Word(ARGS_PAGE * LOAD_PAGE + argv_data_offset(k))[o - WORD_BYTES * k + 1]
         /\ /\ o \notin WORD_BYTES * k .. WORD_BYTES * k + WORD_BYTES - 1
            /\ o \in argv_data_offset(k) .. argv_data_offset(k) + Len(argv[k])
            => ArgsPage[k][o] = String(argv[k])[o - argv_data_offset(k) + 1]
         /\ /\ o \notin WORD_BYTES * k .. WORD_BYTES * k + WORD_BYTES - 1
            /\ o \notin argv_data_offset(k) .. argv_data_offset(k) + Len(argv[k])
            => ArgsPage[k][o] = ArgsPage[k - 1][o]
<1> DEFINE w == WORD_BYTES * k
           off == argv_data_offset(k)
           len == Len(argv[k])
           pointer == Word(ARGS_PAGE * LOAD_PAGE + off)
           string == String(argv[k])
           old == ArgsPage[k - 1]
           half == chunk_write(old, off, string)
<1>1. Len(argv) \in Nat /\ len \in Nat /\ off \in Nat /\ w \in Nat /\ WORD_BYTES \in Nat
  <2>1. Len(argv) \in Nat /\ len \in Nat
    BY ArgumentsType
  <2>2. k \in 1 .. Len(argv) + 1
    BY <2>1
  <2>3. off \in Nat
    BY <2>2, OffsetsFollow
  <2>4. WORD_BYTES \in Nat /\ k \in Nat
    BY <2>1, LoaderAssumption
  <2>5. w \in Nat
    BY <2>4
  <2> QED
    BY <2>1, <2>3, <2>4, <2>5
<1>2. ArgsPage[k] = chunk_write(half, w, pointer)
  BY PageFollows
<1>3. DOMAIN old = 0 .. LOAD_PAGE - 1
  <2>1. k - 1 \in 0 .. Len(argv)
    BY <1>1
  <2> QED
    BY <2>1, PageFollows
<1>4. DOMAIN pointer = 1 .. WORD_BYTES /\ DOMAIN string = 1 .. len + 1
  BY DEF Word, String
<1>5. o \in Nat /\ len + 1 \in Nat
  BY <1>1, LoaderAssumption
<1>6. DOMAIN half = 0 .. LOAD_PAGE - 1
  BY <1>3 DEF chunk_write
<1> HIDE DEF half, pointer, string, w, off, len, old
<1>7. /\ o \in w .. w + WORD_BYTES - 1 => ArgsPage[k][o] = pointer[o - w + 1]
      /\ o \notin w .. w + WORD_BYTES - 1 => ArgsPage[k][o] = half[o]
  <2>1. o \in DOMAIN half
    BY <1>6
  <2>2. /\ o \in w .. w + WORD_BYTES - 1 => chunk_write(half, w, pointer)[o] = pointer[o - w + 1]
        /\ o \notin w .. w + WORD_BYTES - 1 => chunk_write(half, w, pointer)[o] = half[o]
    BY <1>1, <1>4, <1>5, <2>1, ChunkWrite
  <2> QED
    BY <1>2, <2>2
<1>8. /\ o \in off .. off + (len + 1) - 1 => half[o] = string[o - off + 1]
      /\ o \notin off .. off + (len + 1) - 1 => half[o] = old[o]
  <2>1. half = chunk_write(old, off, string)
    BY DEF half
  <2>2. o \in DOMAIN old
    BY <1>3
  <2>3. /\ o \in off .. off + (len + 1) - 1 => chunk_write(old, off, string)[o] = string[o - off + 1]
        /\ o \notin off .. off + (len + 1) - 1 => chunk_write(old, off, string)[o] = old[o]
    BY <1>1, <1>4, <1>5, <2>2, ChunkWrite
  <2> QED
    BY <2>1, <2>3
<1>9. off + (len + 1) - 1 = off + len
  BY <1>1
<1> QED
  BY <1>7, <1>8, <1>9 DEF w, off, len, pointer, string, old

\* What is in the page when its first k arguments have been written: the number of arguments, and the
\* pointer and the string of each of them that fits.
Fits(i) == argv_data_offset(i) + Len(argv[i]) + 1 <= LOAD_PAGE
HasPointer(page, i) ==
  \A b \in 1 .. WORD_BYTES :
    page[WORD_BYTES * i + b - 1] = Word(ARGS_PAGE * LOAD_PAGE + argv_data_offset(i))[b]
HasString(page, i) ==
  \A c \in 1 .. Len(argv[i]) + 1 : page[argv_data_offset(i) + c - 1] = String(argv[i])[c]
Written(k) ==
  /\ \A b \in 1 .. WORD_BYTES : ArgsPage[k][b - 1] = Word(Len(argv))[b]
  /\ \A i \in 1 .. k : Fits(i) => HasPointer(ArgsPage[k], i) /\ HasString(ArgsPage[k], i)

\* The strings are behind all words.
LEMMA StringsBehind ==
  ASSUME argv \in ArgLists, NEW i \in 1 .. Len(argv)
  PROVE  ArgsHead <= argv_data_offset(i)
<1> DEFINE n == Len(argv)
<1>1. n \in Nat /\ 1 \in 1 .. n /\ i \in 1 .. n + 1 /\ 1 \in 1 .. n + 1
  BY ArgumentsType
<1>2. argv_data_offset(i) \in Nat /\ argv_data_offset(1) = ArgsHead /\ argv_data_offset(1) \in Nat
  BY <1>1, OffsetsFollow
<1>3. CASE i = 1
  BY <1>2, <1>3
<1>4. CASE i # 1
  <2>1. 1 < i
    BY <1>1, <1>4
  <2>2. argv_data_offset(1) + Len(argv[1]) + 1 <= argv_data_offset(i) /\ Len(argv[1]) \in Nat
    BY <1>1, <2>1, OffsetsGrow, ArgumentsType
  <2> QED
    BY <1>2, <2>2
<1> QED
  BY <1>3, <1>4

\* Where the words and the string of an argument are.
LEMMA Regions ==
  ASSUME argv \in ArgLists, NEW i \in 1 .. Len(argv)
  PROVE  /\ Len(argv) \in Nat /\ Len(argv[i]) \in Nat /\ argv_data_offset(i) \in Nat /\ WORD_BYTES \in Nat \ {0}
         /\ WORD_BYTES * i \in Nat /\ WORD_BYTES <= WORD_BYTES * i
         /\ WORD_BYTES * i + WORD_BYTES <= argv_data_offset(i)
         /\ WORD_BYTES <= LOAD_PAGE /\ LOAD_PAGE \in Nat
<1> DEFINE n == Len(argv)
<1>1. n \in Nat /\ Len(argv[i]) \in Nat
  BY ArgumentsType
<1>2. i \in 1 .. n + 1 /\ 1 \in 1 .. n + 1
  BY <1>1
<1>3. argv_data_offset(i) \in Nat /\ argv_data_offset(1) = ArgsHead /\ argv_data_offset(1) \in Nat
  BY <1>2, OffsetsFollow
<1>4. WORD_BYTES \in Nat \ {0} /\ WORD_BYTES <= LOAD_PAGE /\ LOAD_PAGE \in Nat
  BY LoaderAssumption
<1>5. /\ i \in Nat /\ i < n + 1 /\ 0 < i /\ n + 1 \in Nat
  BY <1>1
<1>6. /\ WORD_BYTES * i \in Nat /\ WORD_BYTES * (n + 1) \in Nat
      /\ WORD_BYTES * i + WORD_BYTES <= WORD_BYTES * (n + 1)
  BY <1>4, <1>5, WordsInOrder
<1>7. WORD_BYTES * 0 + WORD_BYTES <= WORD_BYTES * i
  BY <1>4, <1>5, WordsInOrder
<1>8. ArgsHead <= argv_data_offset(i)
  BY StringsBehind
<1>9. WORD_BYTES <= WORD_BYTES * i
  BY <1>4, <1>6, <1>7
<1>10. WORD_BYTES * i + WORD_BYTES <= argv_data_offset(i)
  BY <1>1, <1>3, <1>4, <1>6, <1>8 DEF ArgsHead
<1> QED
  BY <1>1, <1>3, <1>4, <1>6, <1>9, <1>10

\* Argument k is written: its own word and string are there, and what was there of the others stays.
LEMMA ArgumentKeeps ==
  ASSUME argv \in ArgLists, NEW k \in 1 .. Len(argv), Written(k - 1)
  PROVE  Written(k)
<1> DEFINE W == WORD_BYTES
           wk == W * k
           off == argv_data_offset(k)
<1>1. /\ Len(argv) \in Nat /\ Len(argv[k]) \in Nat /\ off \in Nat /\ W \in Nat \ {0}
      /\ wk \in Nat /\ W <= wk /\ wk + W <= off /\ W <= LOAD_PAGE /\ LOAD_PAGE \in Nat
  BY Regions
<1>2. ASSUME NEW o \in 0 .. LOAD_PAGE - 1, o \notin wk .. wk + W - 1, o \notin off .. off + Len(argv[k])
      PROVE  ArgsPage[k][o] = ArgsPage[k - 1][o]
  BY <1>2, PageByte
<1>3. \A b \in 1 .. W : ArgsPage[k][b - 1] = Word(Len(argv))[b]
  <2> SUFFICES ASSUME NEW b \in 1 .. W PROVE ArgsPage[k][b - 1] = Word(Len(argv))[b]
    OBVIOUS
  <2>1. b - 1 \in 0 .. LOAD_PAGE - 1 /\ b - 1 \notin wk .. wk + W - 1 /\ b - 1 \notin off .. off + Len(argv[k])
    <3> HIDE DEF wk, off
    <3> QED
      BY <1>1
  <2>2. ArgsPage[k][b - 1] = ArgsPage[k - 1][b - 1]
    BY <1>2, <2>1
  <2> QED
    BY <2>2 DEF Written
<1>4. ASSUME NEW i \in 1 .. k - 1, Fits(i)
      PROVE  HasPointer(ArgsPage[k], i) /\ HasString(ArgsPage[k], i)
  <2> DEFINE wi == W * i
             offi == argv_data_offset(i)
             leni == Len(argv[i])
  <2>1. i \in 1 .. Len(argv) /\ i < k /\ i \in Nat /\ k \in Nat
    BY <1>1
  <2>2. /\ leni \in Nat /\ offi \in Nat /\ wi \in Nat /\ wi + W <= offi
    BY <2>1, Regions
  <2>3. wi + W <= wk
    BY <1>1, <2>1, WordsInOrder
  <2>4. offi + leni + 1 <= off /\ wk + W <= offi
    <3>1. offi + leni + 1 <= off
      BY <2>1, OffsetsGrow
    <3>2. wk + W <= W * (Len(argv) + 1)
      BY <1>1, <2>1, WordsInOrder
    <3>3. ArgsHead <= offi /\ Len(argv) + W * (Len(argv) + 1) = ArgsHead /\ W * (Len(argv) + 1) \in Nat
      BY <1>1, <2>1, StringsBehind DEF ArgsHead
    <3> QED
      BY <1>1, <2>2, <3>1, <3>2, <3>3
  <2>5. offi + leni + 1 <= LOAD_PAGE
    BY <1>4 DEF Fits
  <2>6. HasPointer(ArgsPage[k - 1], i) /\ HasString(ArgsPage[k - 1], i)
    BY <1>4 DEF Written
  <2>7. ASSUME NEW b \in 1 .. W
        PROVE  ArgsPage[k][wi + b - 1] = ArgsPage[k - 1][wi + b - 1]
    <3>1. /\ wi + b - 1 \in 0 .. LOAD_PAGE - 1
          /\ wi + b - 1 \notin wk .. wk + W - 1
          /\ wi + b - 1 \notin off .. off + Len(argv[k])
      <4> HIDE DEF wi, wk, off, offi, leni
      <4> QED
        BY <1>1, <2>2, <2>3, <2>4, <2>5
    <3> QED
      BY <1>2, <3>1
  <2>8. ASSUME NEW c \in 1 .. leni + 1
        PROVE  ArgsPage[k][offi + c - 1] = ArgsPage[k - 1][offi + c - 1]
    <3>1. /\ offi + c - 1 \in 0 .. LOAD_PAGE - 1
          /\ offi + c - 1 \notin wk .. wk + W - 1
          /\ offi + c - 1 \notin off .. off + Len(argv[k])
      <4> HIDE DEF wi, wk, off, offi, leni
      <4> QED
        BY <1>1, <2>2, <2>4, <2>5
    <3> QED
      BY <1>2, <3>1
  <2> QED
    BY <2>6, <2>7, <2>8 DEF HasPointer, HasString
<1>5. ASSUME Fits(k) PROVE HasPointer(ArgsPage[k], k) /\ HasString(ArgsPage[k], k)
  <2>1. off + Len(argv[k]) + 1 <= LOAD_PAGE
    BY <1>5 DEF Fits
  <2>2. ASSUME NEW b \in 1 .. W
        PROVE  ArgsPage[k][wk + b - 1] = Word(ARGS_PAGE * LOAD_PAGE + off)[b]
    <3> DEFINE o == wk + b - 1
    <3>1. o \in 0 .. LOAD_PAGE - 1 /\ o \in wk .. wk + W - 1 /\ o - wk + 1 = b
      <4> HIDE DEF wk, off
      <4> QED
        BY <1>1, <2>1
    <3> HIDE DEF o
    <3>2. ArgsPage[k][o] = Word(ARGS_PAGE * LOAD_PAGE + off)[o - wk + 1]
      BY <3>1, PageByte
    <3> QED
      BY <3>1, <3>2 DEF o
  <2>3. ASSUME NEW c \in 1 .. Len(argv[k]) + 1
        PROVE  ArgsPage[k][off + c - 1] = String(argv[k])[c]
    <3> DEFINE o == off + c - 1
    <3>1. /\ o \in 0 .. LOAD_PAGE - 1 /\ o \in off .. off + Len(argv[k]) /\ o \notin wk .. wk + W - 1
          /\ o - off + 1 = c
      <4> HIDE DEF wk, off
      <4> QED
        BY <1>1, <2>1
    <3> HIDE DEF o
    <3>2. ArgsPage[k][o] = String(argv[k])[o - off + 1]
      BY <3>1, PageByte
    <3> QED
      BY <3>1, <3>2 DEF o
  <2> QED
    BY <2>2, <2>3 DEF HasPointer, HasString
<1>6. \A i \in 1 .. k : i = k \/ i \in 1 .. k - 1
  BY <1>1
<1> QED
  BY <1>3, <1>4, <1>5, <1>6 DEF Written

\* All arguments are written.
LEMMA AllWritten ==
  ASSUME argv \in ArgLists
  PROVE  ArgsChunk(TRUE) = ArgsPage[Len(argv)] /\ Written(Len(argv))
<1> DEFINE n == Len(argv)
           Bad == {k \in Nat : k <= n /\ ~Written(k)}
<1>1. n \in Nat
  BY ArgumentsType
<1>2. ArgsChunk(TRUE) = ArgsPage[n]
  BY DEF ArgsChunk, ArgsPage
<1>3. Bad = {}
  <2> SUFFICES ASSUME Bad # {} PROVE FALSE
    OBVIOUS
  <2>1. PICK m \in Bad : \A j \in Bad : m <= j
    BY LeastNatural
  <2>2. m \in Nat /\ m <= n /\ ~Written(m)
    BY <2>1
  <2>3. CASE m = 0
    <3>1. ASSUME NEW b \in 1 .. WORD_BYTES PROVE ArgsPage[0][b - 1] = Word(n)[b]
      <4>1. ArgsPage[0] = chunk_write(Chunk(1, TRUE), 0, Word(n))
        BY PageFollows
      <4>2. /\ b - 1 \in Nat /\ b - 1 \in DOMAIN Chunk(1, TRUE) /\ b - 1 - 0 + 1 = b /\ WORD_BYTES \in Nat
            /\ b - 1 \in 0 .. 0 + WORD_BYTES - 1
        BY LoaderAssumption DEF Chunk
      <4>3. DOMAIN Word(n) = 1 .. WORD_BYTES
        BY DEF Word
      <4>4. chunk_write(Chunk(1, TRUE), 0, Word(n))[b - 1] = Word(n)[b - 1 - 0 + 1]
        <5> DEFINE page == Chunk(1, TRUE)
                   word == Word(n)
                   o == b - 1
        <5>1. /\ o \in Nat /\ o \in DOMAIN page /\ WORD_BYTES \in Nat /\ DOMAIN word = 1 .. WORD_BYTES
              /\ o \in 0 .. 0 + WORD_BYTES - 1
          BY <4>2, <4>3
        <5> HIDE DEF page, word, o
        <5>2. chunk_write(page, 0, word)[o] = word[o - 0 + 1]
          BY <5>1, ChunkWrite
        <5> QED
          BY <5>2 DEF page, word, o
      <4> QED
        BY <4>1, <4>2, <4>4
    <3>2. Written(0)
      BY <3>1 DEF Written
    <3> QED
      BY <2>2, <2>3, <3>2
  <2>4. CASE m # 0
    <3>1. m - 1 \in Nat /\ m - 1 <= n /\ ~(m <= m - 1) /\ m \in 1 .. n
      BY <1>1, <2>2, <2>4
    <3>2. Written(m - 1)
      BY <2>1, <3>1
    <3> QED
      BY <2>2, <3>1, <3>2, ArgumentKeeps
  <2> QED
    BY <2>3, <2>4
<1>4. n <= n
  BY <1>1
<1> QED
  BY <1>1, <1>2, <1>3, <1>4

\* Once the program runs, the page of its arguments is in its memory.
ArgsInv ==
  /\ argv \in ArgLists
  /\ stage = "running" => \A o \in 0 .. LOAD_PAGE - 1 : memory[ARGS_PAGE * LOAD_PAGE + o] = ArgsPage[Len(argv)][o]

\* Every address of the page of the arguments is one of the program.
LEMMA ArgsAddress ==
  ASSUME NEW o \in 0 .. LOAD_PAGE - 1
  PROVE  /\ ARGS_PAGE * LOAD_PAGE \in Nat /\ ARGS_PAGE * LOAD_PAGE + o \in Load_VA
         /\ (ARGS_PAGE * LOAD_PAGE + o) \div LOAD_PAGE = ARGS_PAGE
<1> DEFINE b == ARGS_PAGE * LOAD_PAGE
           e == LOAD_PAGES * LOAD_PAGE
           q == (b + o) \div LOAD_PAGE
<1>1. /\ LOAD_PAGE \in Nat \ {0} /\ ARGS_PAGE \in Nat /\ LOAD_PAGES \in Nat /\ ARGS_PAGE < LOAD_PAGES
      /\ b \in Nat /\ e \in Nat /\ o \in Nat /\ o < LOAD_PAGE
  BY LoaderAssumption
<1>2. b + LOAD_PAGE <= e
  BY <1>1, PagesInOrder
<1>3. b + o \in Load_VA
  <2> HIDE DEF b
  <2> QED
    BY <1>1, <1>2 DEF Load_VA
<1>4. q \in Nat /\ q * LOAD_PAGE \in Nat /\ q * LOAD_PAGE <= b + o /\ b + o < q * LOAD_PAGE + LOAD_PAGE
  <2>1. b + o \in Nat
    BY <1>1
  <2>2. q \in Nat /\ q * LOAD_PAGE <= b + o /\ b + o < q * LOAD_PAGE + LOAD_PAGE
    <3> HIDE DEF b
    <3> QED
      BY <1>1, <2>1, PageOfAddress
  <2>3. q * LOAD_PAGE \in Nat
    <3> HIDE DEF q
    <3> QED
      BY <1>1, <2>2
  <2> QED
    BY <2>2, <2>3
<1>5. q = ARGS_PAGE
  <2> HIDE DEF q
  <2>1. ARGS_PAGE < q => b + LOAD_PAGE <= q * LOAD_PAGE
    BY <1>1, <1>4, PagesInOrder
  <2>2. q < ARGS_PAGE => q * LOAD_PAGE + LOAD_PAGE <= b
    BY <1>1, <1>4, PagesInOrder
  <2> HIDE DEF b
  <2> QED
    BY <1>1, <1>4, <2>1, <2>2
<1> QED
  BY <1>1, <1>3, <1>5

\* What is in the page is what the program reads: the words and the strings of the arguments.
LEMMA ArgumentsSeen ==
  ASSUME ArgsInv
  PROVE  ArgumentsArrive
<1> SUFFICES ASSUME stage = "running" PROVE ArgumentsArrive
  BY DEF ArgumentsArrive
<1> DEFINE base == ARGS_PAGE * LOAD_PAGE
           n == Len(argv)
           InMemory(a, bytes) == \A k \in DOMAIN bytes : a + k - 1 \in Load_VA /\ memory[a + k - 1] = bytes[k]
           needed == LengthsFrom(ArgsHead)
<1>1. argv \in ArgLists /\ \A o \in 0 .. LOAD_PAGE - 1 : memory[base + o] = ArgsPage[n][o]
  BY DEF ArgsInv
<1>2. Written(n) /\ n \in Nat /\ WORD_BYTES \in Nat /\ LOAD_PAGE \in Nat \ {0} /\ base \in Nat /\ WORD_BYTES <= LOAD_PAGE
  BY <1>1, AllWritten, ArgumentsType, LoaderAssumption
<1>3. \A o \in 0 .. LOAD_PAGE - 1 : base + o \in Load_VA /\ memory[base + o] = ArgsPage[n][o]
  BY <1>1, ArgsAddress
<1> HIDE DEF base
<1>4. InMemory(base, Word(n))
  <2> SUFFICES ASSUME NEW b \in 1 .. WORD_BYTES
               PROVE  base + b - 1 \in Load_VA /\ memory[base + b - 1] = Word(n)[b]
    BY DEF Word
  <2>1. b - 1 \in 0 .. LOAD_PAGE - 1 /\ base + (b - 1) = base + b - 1
    BY <1>2
  <2>2. ArgsPage[n][b - 1] = Word(n)[b]
    BY <1>2 DEF Written
  <2>3. base + (b - 1) \in Load_VA /\ memory[base + (b - 1)] = ArgsPage[n][b - 1]
    BY <1>3, <2>1
  <2> QED
    BY <2>1, <2>2, <2>3
<1>5. ASSUME NEW i \in 1 .. n, needed[i] <= LOAD_PAGE
      PROVE  \E a \in Load_VA : InMemory(base + WORD_BYTES * i, Word(a)) /\ InMemory(a, String(argv[i]))
  <2> DEFINE off == argv_data_offset(i)
             len == Len(argv[i])
             w == WORD_BYTES * i
  <2>1. len \in Nat /\ off \in Nat /\ w \in Nat /\ w + WORD_BYTES <= off
    BY <1>1, Regions
  <2>2. off + len + 1 <= LOAD_PAGE
    <3>1. needed[i] = argv_data_offset(i + 1)
      <4>1. argv_data_start(Len(argv)) = ArgsHead
        BY DEF argv_data_start, ArgsHead
      <4>2. i + 1 - 1 = i
        BY <1>2
      <4> QED
        BY <4>1, <4>2 DEF argv_data_offset, LengthsFrom
    <3> QED
      BY <1>1, <1>5, <3>1, OffsetsFollow
  <2>3. HasPointer(ArgsPage[n], i) /\ HasString(ArgsPage[n], i)
    BY <1>2, <2>2 DEF Written, Fits
  <2>4. InMemory(base + w, Word(base + off))
    <3> SUFFICES ASSUME NEW b \in 1 .. WORD_BYTES
                 PROVE  base + w + b - 1 \in Load_VA /\ memory[base + w + b - 1] = Word(base + off)[b]
      BY DEF Word
    <3>1. w + b - 1 \in 0 .. LOAD_PAGE - 1 /\ base + (w + b - 1) = base + w + b - 1
      <4> HIDE DEF w, off, len
      <4> QED
        BY <1>2, <2>1, <2>2
    <3>2. ArgsPage[n][w + b - 1] = Word(base + off)[b]
      BY <2>3 DEF HasPointer, base
    <3>3. base + (w + b - 1) \in Load_VA /\ memory[base + (w + b - 1)] = ArgsPage[n][w + b - 1]
      BY <1>3, <3>1
    <3> HIDE DEF w, off, len
    <3> QED
      BY <3>1, <3>2, <3>3
  <2>5. InMemory(base + off, String(argv[i]))
    <3> SUFFICES ASSUME NEW c \in 1 .. len + 1
                 PROVE  base + off + c - 1 \in Load_VA /\ memory[base + off + c - 1] = String(argv[i])[c]
      BY DEF String
    <3>1. off + c - 1 \in 0 .. LOAD_PAGE - 1 /\ base + (off + c - 1) = base + off + c - 1
      <4> HIDE DEF off, len
      <4> QED
        BY <1>2, <2>1, <2>2
    <3>2. ArgsPage[n][off + c - 1] = String(argv[i])[c]
      BY <2>3 DEF HasString
    <3>3. base + (off + c - 1) \in Load_VA /\ memory[base + (off + c - 1)] = ArgsPage[n][off + c - 1]
      BY <1>3, <3>1
    <3> HIDE DEF off, len
    <3> QED
      BY <3>1, <3>2, <3>3
  <2>6. base + off \in Load_VA
    <3>1. off \in 0 .. LOAD_PAGE - 1
      <4> HIDE DEF off, len
      <4> QED
        BY <1>2, <2>1, <2>2
    <3> QED
      BY <1>3, <3>1
  <2> QED
    BY <2>4, <2>5, <2>6
<1>6. DOMAIN argv = 1 .. n
  BY <1>1, ArgumentsType
<1> QED
  BY <1>4, <1>5, <1>6 DEF ArgumentsArrive, LengthsFrom, ArgsHead, base

\* A program reads the number of its arguments and every one of them that fits into the page, however many
\* there are and whatever their lengths (pika_syscalls.cpp pika_sys_spawn(), sys/args.c).
THEOREM ArgumentsCorrect == LoadSpec => []ArgumentsArrive
<1>1. LoadInit => ArgsInv
  BY DEF LoadInit, ArgsInv
<1>2. ArgsInv /\ [LoadNext]_loadVars => ArgsInv'
  <2> SUFFICES ASSUME ArgsInv, [LoadNext]_loadVars
               PROVE  ArgsInv'
    OBVIOUS
  <2>1. CASE WriteArguments
    <3>1. PICK okay \in BOOLEAN :
            /\ map_at(ARGS_PAGE, 1, ArgsChunk(okay), {"read"})
            /\ stage' = IF okay THEN "running" ELSE "running without arguments"
      BY <2>1, Zenon DEF WriteArguments
    <3>2. argv' = argv /\ argv \in ArgLists
      BY <2>1 DEF WriteArguments, ArgsInv
    <3>3. ASSUME stage' = "running", NEW o \in 0 .. LOAD_PAGE - 1
          PROVE  memory'[ARGS_PAGE * LOAD_PAGE + o] = ArgsPage[Len(argv)][o]
      <4>1. ArgsChunk(okay) = ArgsPage[Len(argv)]
        BY <3>1, <3>2, <3>3, AllWritten
      <4>2. /\ ARGS_PAGE * LOAD_PAGE \in Nat /\ ARGS_PAGE * LOAD_PAGE + o \in Load_VA
            /\ (ARGS_PAGE * LOAD_PAGE + o) \div LOAD_PAGE = ARGS_PAGE
        BY ArgsAddress
      <4>3. ARGS_PAGE \in Nat /\ ARGS_PAGE \in ARGS_PAGE .. ARGS_PAGE + 1 - 1 /\ o \in Nat
        BY LoaderAssumption
      <4>4. memory'[ARGS_PAGE * LOAD_PAGE + o] = ArgsChunk(okay)[(ARGS_PAGE * LOAD_PAGE + o) - ARGS_PAGE * LOAD_PAGE]
        BY <3>1, <4>2, <4>3 DEF map_at
      <4>5. (ARGS_PAGE * LOAD_PAGE + o) - ARGS_PAGE * LOAD_PAGE = o
        BY <4>2, <4>3
      <4> QED
        BY <4>1, <4>4, <4>5
    <3>4. Len(argv)' = Len(argv) /\ ArgsPage' = ArgsPage
      BY <3>2 DEF ArgsPage, argv_data_offset, argv_data_start, chunk_write, Chunk, Word, String
    <3> QED
      BY <3>2, <3>3, <3>4 DEF ArgsInv
  <2>2. CASE ReadImage \/ RefuseSegment \/ SkipSegment \/ LoadSegment \/ MapFails \/ EndOfSegments
    BY <2>2 DEF ReadImage, RefuseSegment, SkipSegment, LoadSegment, MapFails, EndOfSegments, AtSegment, ArgsInv
  <2>3. CASE UNCHANGED loadVars
    <3>1. argv' = argv /\ memory' = memory /\ stage' = stage
      BY <2>3 DEF loadVars
    <3>2. Len(argv)' = Len(argv) /\ ArgsPage' = ArgsPage
      BY <3>1 DEF ArgsPage, argv_data_offset, argv_data_start, chunk_write, Chunk, Word, String
    <3> QED
      BY <3>1, <3>2 DEF ArgsInv
  <2> QED
    BY <2>1, <2>2, <2>3 DEF LoadNext
<1> QED
  BY <1>1, <1>2, ArgumentsSeen, PTL DEF LoadSpec
=============================================================================
