----------------------------- MODULE KernelHeap -----------------------------
(***************************************************************************)
(* The kernel's heap: kmalloc(), kfree() and krealloc() of                 *)
(* kernel/memory/mem_alloc.cpp over the growing area of                    *)
(* kernel/memory/heap_manager.cpp. A block is a header followed by its     *)
(* data; the list of the blocks is the sequence `blocks`, so that the next *)
(* pointers are the order of the sequence, while the previous pointers are *)
(* kept as the code keeps them.                                            *)
(*                                                                         *)
(* Addresses are offsets from HEAP_MEMORY, in bytes. The pages come from   *)
(* an allocator that the processes use too: it may be empty at any page.   *)
(***************************************************************************)
EXTENDS Integers, Sequences, PageSize

CONSTANTS META_BLOCK_SIZE,  \* bytes of a header
          Sizes,            \* bound: the byte counts asked for
          Alignments,       \* bound: the alignments asked for
          alignof_max_align_t,  \* the alignment krealloc() asks for
          MaxHeap           \* bound: the largest heap, in bytes

ASSUME HeapAssumption ==
  /\ META_BLOCK_SIZE \in Nat \ {0} /\ MaxHeap \in Nat
  /\ Sizes \subseteq Nat /\ Alignments \subseteq Nat
  /\ alignof_max_align_t \in Nat \ {0}

null_block == -1

VARIABLES blocks,            \* the blocks, from g_malloc_meta_head on
          _heap_byte_size,
          _heap_va_end,      \* the end of the pages that are mapped
          live               \* <<pointer, byte count>> of what was allocated and not freed

heapVars == <<blocks, _heap_byte_size, _heap_va_end, live>>

Block == [at : Nat, size : Nat, previous : Nat \cup {null_block}, ptr : Nat, is_free : BOOLEAN]

HeapTypeOK ==
  /\ blocks \in Seq(Block)
  /\ _heap_byte_size \in Nat /\ _heap_va_end \in Nat
  /\ live \subseteq Nat \X (Nat \ {0})

HeapInit == blocks = <<>> /\ _heap_byte_size = 0 /\ _heap_va_end = 0 /\ live = {}
-----------------------------------------------------------------------------
AtLeastOne(n) == IF n = 0 THEN 1 ELSE n
align_to_next(value, alignment) == ((value + alignment - 1) \div alignment) * alignment
data(b) == b.at + META_BLOCK_SIZE
offset(b, alignment) == align_to_next(b.ptr, alignment) - b.ptr

\* The blocks find_suitable_block() would take. The last block is not looked at.
Suitable(bs, n, alignment) ==
  {i \in 1 .. Len(bs) - 1 : bs[i].is_free /\ bs[i].size >= n + offset(bs[i], alignment)}

\* find_suitable_block(): block i is taken, from the first aligned byte on.
take(b, alignment) ==
  [b EXCEPT !.ptr = @ + offset(b, alignment), !.size = @ - offset(b, alignment), !.is_free = FALSE]

\* extend_heap(): a header at the end of the heap, and the data behind it, aligned.
extend_heap(bs, end, n, alignment) ==
  Append(bs, [at |-> end, size |-> n, previous |-> IF bs = <<>> THEN null_block ELSE bs[Len(bs)].at,
              is_free |-> FALSE, ptr |-> align_to_next(end + META_BLOCK_SIZE, alignment)])

\* What the heap grows by for extend_heap().
heap_offset(end, n, alignment) == align_to_next(end + META_BLOCK_SIZE, alignment) - end + n

\* change_heap_end(): the size changes first, then the pages that are missing are mapped one by
\* one. The states it may end in: <<size, end of the pages>>; it failed if a page is missing.
change_heap_end(size, va_end, byte_offset) ==
  LET end == size + byte_offset
      missing == IF va_end >= end THEN 0 ELSE (end - va_end + PAGE_SIZE - 1) \div PAGE_SIZE
  IN {<<end, va_end + k * PAGE_SIZE>> : k \in 0 .. missing}

(***************************************************************************)
(* kmalloc() on the blocks bs, given the blocks that are live: the states  *)
(* it may end in.                                                          *)
(***************************************************************************)
kmalloc(bs, alive, byte_count, align) ==
  LET n == AtLeastOne(byte_count)
      alignment == AtLeastOne(align)
      fits == Suitable(bs, n, alignment)
  IN IF fits # {}
     THEN LET i == CHOOSE i \in fits : \A j \in fits : i <= j
              b == take(bs[i], alignment)
          IN {[blocks |-> [bs EXCEPT ![i] = b], size |-> _heap_byte_size, va_end |-> _heap_va_end,
               live |-> alive \cup {<<b.ptr, n>>}]}
     ELSE {IF brk[2] >= brk[1]
           THEN LET new == extend_heap(bs, _heap_byte_size, n, alignment)
                IN [blocks |-> new, size |-> brk[1], va_end |-> brk[2],
                    live |-> alive \cup {<<new[Len(new)].ptr, n>>}]
           ELSE [blocks |-> bs, size |-> brk[1], va_end |-> brk[2], live |-> alive] :
             brk \in change_heap_end(_heap_byte_size, _heap_va_end, heap_offset(_heap_byte_size, n, alignment))}

\* get_block_addr(): the first block that does not end before the address, by position. An
\* address before its data, or behind all blocks, has no block (0).
get_block_addr(addr) ==
  LET reach == {i \in 1 .. Len(blocks) : blocks[i].ptr + blocks[i].size >= addr}
      i == CHOOSE i \in reach : \A j \in reach : i <= j
  IN IF addr >= _heap_byte_size \/ reach = {} \/ blocks[i].ptr > addr THEN 0 ELSE i

is_addr_valid(addr) ==
  /\ blocks # <<>> /\ addr > blocks[1].at
  /\ get_block_addr(addr) # 0 /\ blocks[get_block_addr(addr)].ptr = addr

\* Mutant of merge_block: the header of the right block is counted twice.
merge_block_twice(bs, i) ==
  LET left == [bs[i] EXCEPT !.size = @ + bs[i + 1].size + 2 * META_BLOCK_SIZE]
      right == SubSeq(bs, i + 2, Len(bs))
  IN SubSeq(bs, 1, i - 1) \o <<left>>
       \o (IF right = <<>> THEN <<>> ELSE <<[right[1] EXCEPT !.previous = bs[i].at]>> \o Tail(right))

\* merge_block(): block i takes the next one in.
merge_block(bs, i) ==
  LET left == [bs[i] EXCEPT !.size = @ + bs[i + 1].size + META_BLOCK_SIZE]
      right == SubSeq(bs, i + 2, Len(bs))
  IN SubSeq(bs, 1, i - 1) \o <<left>>
       \o (IF right = <<>> THEN <<>> ELSE <<[right[1] EXCEPT !.previous = bs[i].at]>> \o Tail(right))

\* kfree(): the block gets the bytes before its data back and is merged with its free neighbours.
\* (The code's branch for a block that is not the next of its previous is never reached: Linked.)
kfree(ptr) ==
  LET i == get_block_addr(ptr)
      free_block == [blocks[i] EXCEPT !.is_free = TRUE, !.ptr = data(blocks[i]), !.size = @ + ptr - data(blocks[i])]
      freed == [blocks EXCEPT ![i] = free_block]
      merged == IF i < Len(freed) /\ freed[i + 1].is_free THEN merge_block(freed, i) ELSE freed
  IN IF i > 1 /\ merged[i].previous = merged[i - 1].at /\ merged[i - 1].is_free
     THEN merge_block(merged, i - 1)
     ELSE merged
-----------------------------------------------------------------------------
Becomes(s) ==
  /\ s.size <= MaxHeap
  /\ blocks' = s.blocks /\ _heap_byte_size' = s.size /\ _heap_va_end' = s.va_end /\ live' = s.live

Kmalloc(byte_count, align) == \E s \in kmalloc(blocks, live, byte_count, align) : Becomes(s)

Kfree(r) ==
  /\ r \in live
  /\ blocks' = kfree(r[1])
  /\ live' = live \ {r}
  /\ UNCHANGED <<_heap_byte_size, _heap_va_end>>

\* krealloc() frees, then allocates; the data are not copied.
Krealloc(r, new_size) ==
  /\ r \in live
  /\ \E s \in kmalloc(kfree(r[1]), live \ {r}, new_size, alignof_max_align_t) : Becomes(s)

Allocations == \E n \in Sizes, a \in Alignments : Kmalloc(n, a)
Frees == \E r \in live : Kfree(r)
Reallocations == \E r \in live, n \in Sizes : Krealloc(r, n)

HeapNext == Allocations \/ Frees \/ Reallocations

HeapSpec == HeapInit /\ [][HeapNext]_heapVars
-----------------------------------------------------------------------------
\* Where the bytes of block i must end: at the next header, or at the end of the heap.
Limit(i) == IF i < Len(blocks) THEN blocks[i + 1].at ELSE _heap_byte_size

\* The blocks lie one behind the other and do not reach into the next header; a previous pointer
\* names the block before; no two neighbours are free; a free block has all of its data again.
Linked ==
  \A i \in 1 .. Len(blocks) :
    /\ data(blocks[i]) <= blocks[i].ptr
    /\ blocks[i].ptr + blocks[i].size <= Limit(i)
    /\ blocks[i].previous = IF i = 1 THEN null_block ELSE blocks[i - 1].at
    /\ blocks[i].is_free => blocks[i].ptr = data(blocks[i])
    /\ i < Len(blocks) => ~(blocks[i].is_free /\ blocks[i + 1].is_free)

\* Every allocation that is not freed has a block of its own, large enough, with all of its bytes
\* mapped even if the heap could not be extended in between, and kfree() finds it by its address.
AllocationsSafe ==
  \A r \in live :
    \E i \in 1 .. Len(blocks) :
      /\ blocks[i].ptr = r[1] /\ ~blocks[i].is_free
      /\ r[2] <= blocks[i].size
      /\ r[1] + r[2] <= _heap_va_end
      /\ is_addr_valid(r[1]) /\ get_block_addr(r[1]) = i
      /\ \A s \in live : s # r => s[1] # r[1]

\* After every sequence of kmalloc() and kfree(), with any alignment and with pages that run out
\* while the heap grows, the headers describe the heap and no two allocations share a byte
\* (mem_alloc.cpp, heap_manager.cpp change_heap_end()).
HeapIsSafe == HeapTypeOK /\ Linked /\ AllocationsSafe
=============================================================================
