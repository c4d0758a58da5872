--------------------------- MODULE PhysicalMemory ---------------------------
(***************************************************************************)
(* Who owns which physical page: memory_impl::init() of                    *)
(* kernel/memory/kernel_internal_memory.cpp builds one page allocator per  *)
(* chunk of memory (kernel/memory/page_alloc_list.cpp), sets a reservation *)
(* for contiguous buffers aside, and marks what the boot has placed in     *)
(* memory; then pages and buffers are handed out.                          *)
(*                                                                         *)
(* Addresses are bytes. A page allocator is the set of its free pages      *)
(* (module PageAlloc), the allocator of buffers answers any run of free    *)
(* pages that is long enough (module ContiguousPages).                     *)
(***************************************************************************)
EXTENDS Integers, Sequences, PageSize

CONSTANTS contiguous_res_bytes,   \* bytes to reserve for buffers
          Layouts,                \* bound: the memory nodes of a device tree, each a sequence of <<start, size>>
          Placements,             \* bound: what the boot has placed: sequences of <<start, end>>
          lin_first_page,         \* the linear allocator of the boot, behind the kernel
          lin_upper_bound,
          MaxBuffer              \* bound: the pages of a buffer

align_to_previous(a) == (a \div PAGE_SIZE) * PAGE_SIZE

\* A page begins at this address.
IsPageStart(a) == a \in Nat /\ a = align_to_previous(a)

\* The reservation (100 MiB) and the linear allocator of the boot consist of pages.
ASSUME MemoryAssumption ==
  /\ PAGE_SIZE > 1 /\ MaxBuffer \in Nat
  /\ IsPageStart(contiguous_res_bytes) /\ IsPageStart(lin_first_page)

\* The chunks of a device tree begin with a page, and no two have a byte in common.
ChunkBytes(chunk) == chunk[1] .. chunk[1] + chunk[2] - 1
IsLayout(layout) ==
  /\ layout \in Seq(Seq(Nat \X Nat))
  /\ \A n \in DOMAIN layout : \A k \in DOMAIN layout[n] :
       /\ IsPageStart(layout[n][k][1])
       /\ \A m \in DOMAIN layout : \A j \in DOMAIN layout[m] :
            n # m \/ k # j => ChunkBytes(layout[n][k]) \cap ChunkBytes(layout[m][j]) = {}

\* What the boot has placed begins with a page.
IsPlacement(ranges) == ranges \in Seq(Nat \X Nat) /\ \A i \in DOMAIN ranges : IsPageStart(ranges[i][1])

ASSUME LayoutAssumption == (\A l \in Layouts : IsLayout(l)) /\ \A r \in Placements : IsPlacement(r)

VARIABLES phase,          \* "parse", "contiguous", "protect", "running", "failed"
          nodes,          \* the memory nodes that are left to parse
          reserved_ok,    \* an earlier node has the reservation
          section_ok,     \* an earlier chunk of the node has it (reserved_section)
          nb_allocated,   \* pages the linear allocator has given
          _list,          \* <<start, stop>> of the page allocators, in the order of the list
          free,           \* the free pages of the page allocators, by address
          reserved,       \* <<contiguous_res_start, contiguous_res_stop>>
          contiguous,     \* the free pages of the allocator of buffers, by number
          todo,           \* what is left to protect
          protected,      \* what was protected: <<start, end>>
          pages,          \* the pages handed out
          buffers         \* the buffers handed out: <<first page, last page>>

parseVars == <<nodes, reserved_ok, section_ok, nb_allocated, _list, reserved>>
protectVars == <<todo, protected>>
usedVars == <<pages, buffers>>
memoryVars == <<phase, parseVars, free, contiguous, protectVars, usedVars>>

MemoryTypeOK ==
  /\ phase \in {"parse", "contiguous", "protect", "running", "failed"}
  /\ nodes \in Seq(Seq(Nat \X Nat)) /\ reserved_ok \in BOOLEAN /\ section_ok \in BOOLEAN
  /\ nb_allocated \in Nat
  /\ _list \in Seq(Nat \X Nat) /\ reserved \in Nat \X Nat
  /\ free \subseteq Nat /\ contiguous \subseteq Nat
  /\ todo \in Seq(Nat \X Nat) /\ protected \subseteq Nat \X Nat
  /\ pages \subseteq Nat /\ buffers \subseteq Nat \X Nat

MemoryInit ==
  /\ phase = "parse"
  /\ nodes \in Layouts
  /\ reserved_ok = FALSE /\ section_ok = FALSE /\ nb_allocated = 0
  /\ _list = <<>> /\ free = {} /\ reserved = <<0, 0>> /\ contiguous = {}
  /\ todo \in Placements /\ protected = {}
  /\ pages = {} /\ buffers = {}
-----------------------------------------------------------------------------
\* boot/mmu_utils.cpp, allocate_pages(): there are n more pages behind the kernel.
can_allocate_pages(n) == lin_first_page + PAGE_SIZE * (nb_allocated + n) < lin_upper_bound

\* The reservation asked of a node: none once an earlier node has one.
asked == IF reserved_ok THEN 0 ELSE contiguous_res_bytes

\* The pages from start on, up to stop.
PagesOf(start, stop) == {start + i * PAGE_SIZE : i \in 0 .. (stop - start + 1) \div PAGE_SIZE - 1}

\* Where the page allocator of a chunk ends: before the reservation, if the chunk takes it.
cut(chunk_start, chunk_end) == chunk_end - asked - PAGE_SIZE

\* The chunk takes the reservation: no earlier one of the node has, and more than half is left.
reserves(chunk_start, chunk_end) ==
  ~section_ok /\ (chunk_end - chunk_start) \div PAGE_SIZE > 2 * ((asked + PAGE_SIZE - 1) \div PAGE_SIZE)

\* parse_memory_reg(), one chunk of a node. The bitmap takes one page of the linear allocator.
ParseChunk ==
  /\ phase = "parse" /\ nodes # <<>> /\ Head(nodes) # <<>> /\ can_allocate_pages(1)
  /\ LET chunk_start == Head(Head(nodes))[1]
         chunk_end == align_to_previous(chunk_start + Head(Head(nodes))[2])
         takes == reserves(chunk_start, chunk_end)
         page_end == IF takes THEN cut(chunk_start, chunk_end) ELSE chunk_end
     IN /\ section_ok' = (section_ok \/ takes)
        /\ reserved' = IF takes THEN <<chunk_end - asked - PAGE_SIZE, chunk_end>> ELSE reserved
        /\ _list' = Append(_list, <<chunk_start, page_end>>)
        /\ free' = free \cup PagesOf(chunk_start, page_end)
  /\ nb_allocated' = nb_allocated + 1
  /\ nodes' = <<Tail(Head(nodes))>> \o Tail(nodes)
  /\ UNCHANGED <<phase, reserved_ok, contiguous, protectVars, usedVars>>

\* The end of a node: no chunk is left, or no page for a bitmap.
NodeDone ==
  /\ phase = "parse" /\ nodes # <<>>
  /\ reserved_ok' = (Head(nodes) = <<>> /\ section_ok)
  /\ Head(nodes) = <<>> \/ ~can_allocate_pages(1)
  /\ section_ok' = FALSE
  /\ nodes' = Tail(nodes)
  /\ UNCHANGED <<phase, nb_allocated, _list, reserved, free, contiguous, protectVars, usedVars>>

ParseDone ==
  /\ phase = "parse" /\ nodes = <<>>
  /\ phase' = "contiguous"
  /\ UNCHANGED <<parseVars, free, contiguous, protectVars, usedVars>>

\* init(): the allocator of buffers, if the reservation is large enough. The pages of the linear
\* allocator join what is to be protected.
SetupContiguous ==
  /\ phase = "contiguous"
  /\ IF reserved[1] + contiguous_res_bytes > reserved[2] \/ ~can_allocate_pages(1)
     THEN phase' = "failed" /\ UNCHANGED <<nb_allocated, contiguous, todo>>
     ELSE /\ phase' = "protect"
          /\ nb_allocated' = nb_allocated + 1
          /\ contiguous' = 0 .. (reserved[2] - reserved[1] + 1) \div PAGE_SIZE - 1
          /\ todo' = Append(todo, <<lin_first_page, lin_first_page + nb_allocated' * PAGE_SIZE>>)
  /\ UNCHANGED <<nodes, reserved_ok, section_ok, _list, reserved, free, protected, usedVars>>

AtLeast(a, b) == IF a < b THEN b ELSE a
AtMost(a, b) == IF a < b THEN a ELSE b

\* Mutant of marked_pages: only the first allocator of the list is looked at.
marked_first(start, end) ==
  LET s == _list[1]
      from == AtLeast(start, s[1])
  IN IF end > s[1] /\ start < s[2]
     THEN {s[1] + ((a - s[1]) \div PAGE_SIZE) * PAGE_SIZE :
             a \in {from + i * PAGE_SIZE : i \in 0 .. (AtMost(end, s[2]) - from - 1) \div PAGE_SIZE}}
     ELSE {}

\* PageAllocList::mark_as_used_range(): the pages it marks, in every allocator of the list that
\* the range meets.
marked_pages(start, end) ==
  UNION {LET s == _list[k]
             from == AtLeast(start, s[1])
         IN {s[1] + ((a - s[1]) \div PAGE_SIZE) * PAGE_SIZE :
               a \in {from + i * PAGE_SIZE : i \in 0 .. (AtMost(end, s[2]) - from - 1) \div PAGE_SIZE}} :
         k \in {k \in 1 .. Len(_list) : end > _list[k][1] /\ start < _list[k][2]}}

\* ContiguousPageAllocator::mark_as_used(): the numbers of the pages from one address to another.
contiguous_mark_as_used(start, end) == IF start > end THEN {} ELSE start \div PAGE_SIZE .. end \div PAGE_SIZE

\* mark_as_used_range(): the second argument given to the allocator of buffers is a number of pages.
Protect ==
  /\ phase = "protect" /\ todo # <<>>
  /\ LET start == Head(todo)[1]
         end == Head(todo)[2]
         page_start == AtLeast(start, reserved[1]) - reserved[1]
         page_stop == AtMost(end, reserved[2]) - reserved[1]
     IN /\ contiguous' = IF start < end /\ end > reserved[1] /\ start < reserved[2]
                         THEN contiguous \ contiguous_mark_as_used(page_start, (page_stop - page_start + 1 + PAGE_SIZE - 1) \div PAGE_SIZE)
                         ELSE contiguous
        /\ free' = IF start < end THEN free \ marked_pages(start, end) ELSE free
        /\ protected' = protected \cup {Head(todo)}
  /\ todo' = Tail(todo)
  /\ UNCHANGED <<phase, parseVars, usedVars>>

ProtectDone ==
  /\ phase = "protect" /\ todo = <<>>
  /\ phase' = "running"
  /\ UNCHANGED <<parseVars, free, contiguous, protectVars, usedVars>>
-----------------------------------------------------------------------------
\* The free pages of the k-th allocator of the list.
FreeOf(k) == {p \in free : p \in _list[k][1] .. _list[k][2] - 1}

\* PageAllocList::fresh_page(): the first allocator that has a page.
FreshPage ==
  /\ phase = "running"
  /\ \E k \in 1 .. Len(_list) :
       /\ \A j \in 1 .. k - 1 : FreeOf(j) = {}
       /\ \E p \in FreeOf(k) : free' = free \ {p} /\ pages' = pages \cup {p}
  /\ UNCHANGED <<phase, parseVars, contiguous, protectVars, buffers>>

\* PageAllocList::free_page(): the allocator whose section holds the page gets it back.
FreePage(p) ==
  /\ phase = "running" /\ p \in pages
  /\ free' = IF \E k \in 1 .. Len(_list) : p >= _list[k][1] /\ p < _list[k][2] THEN free \cup {p} ELSE free
  /\ pages' = pages \ {p}
  /\ UNCHANGED <<phase, parseVars, contiguous, protectVars, buffers>>

\* allocate_buffer_pa(): a run of pages, moved to where the reservation is.
AllocateBuffer(n) ==
  /\ phase = "running"
  /\ \E i \in contiguous :
       /\ i .. i + n - 1 \subseteq contiguous
       /\ contiguous' = contiguous \ (i .. i + n - 1)
       /\ buffers' = buffers \cup {<<i * PAGE_SIZE + reserved[1], (i + n - 1) * PAGE_SIZE + reserved[1]>>}
  /\ UNCHANGED <<phase, parseVars, free, protectVars, pages>>

\* free_buffer_pa()
FreeBuffer(b) ==
  /\ phase = "running" /\ b \in buffers
  /\ contiguous' = contiguous \cup ((b[1] - reserved[1]) \div PAGE_SIZE .. (b[2] - reserved[1]) \div PAGE_SIZE)
  /\ buffers' = buffers \ {b}
  /\ UNCHANGED <<phase, parseVars, free, protectVars, pages>>

Boot == ParseChunk \/ NodeDone \/ ParseDone \/ SetupContiguous \/ Protect \/ ProtectDone
PageOps == FreshPage \/ \E p \in pages : FreePage(p)
BufferOps == (\E n \in 1 .. MaxBuffer : AllocateBuffer(n)) \/ \E b \in buffers : FreeBuffer(b)

MemoryNext == Boot \/ PageOps \/ BufferOps

MemorySpec == MemoryInit /\ [][MemoryNext]_memoryVars
-----------------------------------------------------------------------------
\* The bytes of a page, of a range that ends before its end, and of a buffer.
PageBytes(p) == p .. p + PAGE_SIZE - 1
Bytes(r) == r[1] .. r[2] - 1
BufferBytes(b) == b[1] .. b[2] + PAGE_SIZE - 1

\* No byte has two owners: a page that is in use is not free, is in no buffer, and is nothing
\* that the boot has placed in memory; two buffers are disjoint, and a buffer's pages are not free.
Exclusive ==
  /\ \A p \in pages :
       /\ p \notin free
       /\ \A r \in protected : PageBytes(p) \cap Bytes(r) = {}
       /\ \A b \in buffers : PageBytes(p) \cap BufferBytes(b) = {}
  /\ \A b, c \in buffers : b # c => BufferBytes(b) \cap BufferBytes(c) = {}
  /\ \A b \in buffers, i \in contiguous : reserved[1] + i * PAGE_SIZE \notin BufferBytes(b)

\* No page is lost: a page of an allocator is free, in use, or was marked by the boot.
Accounted ==
  phase = "running" =>
    \A k \in 1 .. Len(_list) : \A p \in PagesOf(_list[k][1], _list[k][2]) :
      p \in free \cup pages \/ \E r \in protected : PageBytes(p) \cap Bytes(r) # {}

\* The kernel runs with a reservation only if it is as large as was asked for and no page
\* allocator has it too, also when a second memory node has moved it.
ReservationHolds ==
  phase \in {"protect", "running"} =>
    /\ reserved[1] + contiguous_res_bytes <= reserved[2]
    /\ \A k \in 1 .. Len(_list) : Bytes(_list[k]) \cap Bytes(reserved) = {}

\* Every page has one owner at a time: nobody, one user, one buffer, the boot, or the reservation.
OneOwner == MemoryTypeOK /\ Exclusive /\ Accounted /\ ReservationHolds
-----------------------------------------------------------------------------
\* kernel_internal_memory.cpp, init(): "Protect the Stack, Kernel, DeviceTree, Page Allocator
\* Memory, MMU Allocated Memory & Reserved Memory." No buffer is placed on any of these.
BuffersSpareTheBoot == \A b \in buffers, r \in protected : BufferBytes(b) \cap Bytes(r) = {}
=============================================================================
