----------------------------- MODULE PageAlloc -----------------------------
(***************************************************************************)
(* The allocator of physical pages, class PageAlloc of                     *)
(* kernel/memory/page_alloc.cpp: a bitmap laid out as a binary tree. Page  *)
(* p is the leaf m_nb_pages + p, the parent of node i is i / 2, and a bit  *)
(* is set iff a page below it is free. m_nb_pages need not be a power of   *)
(* two.                                                                    *)
(*                                                                         *)
(* A call runs alone; one action is one iteration of its loop, so that the *)
(* invariant says what holds inside the loops. Addresses are page numbers. *)
(***************************************************************************)
EXTENDS Integers

CONSTANT m_nb_pages

ASSUME NbPagesAssumption == m_nb_pages \in Nat \ {0}

Page == 0 .. m_nb_pages - 1
FAILED == m_nb_pages

VARIABLES m_mmap,   \* the bits: node |-> a page below it is free
          call,     \* the loop that runs: "fresh", "mark", "free", or "none"
          index,    \* the node it is at
          addr      \* the page fresh_page() answered last, or FAILED

pageVars == <<m_mmap, call, index, addr>>

TreeNode == 1 .. 2 * m_nb_pages - 1
Inner == 1 .. m_nb_pages - 1

PageTypeOK ==
  /\ m_mmap \in [0 .. 2 * m_nb_pages - 1 -> BOOLEAN]
  /\ call \in {"none", "fresh", "mark", "free"}
  /\ index \in 0 .. 2 * m_nb_pages - 1
  /\ addr \in Page \cup {FAILED}

page_index(p) == m_nb_pages + p
page_status(p) == m_mmap[page_index(p)]

\* The constructor: every page is free; bit 0 belongs to no node.
PageInit ==
  /\ m_mmap = [i \in 0 .. 2 * m_nb_pages - 1 |-> i # 0]
  /\ call = "none" /\ index = 0 /\ addr = FAILED

\* index ^ 1
sibling(i) == IF i % 2 = 0 THEN i + 1 ELSE i - 1

\* Mutant of MarkStep: the loop stays at its node.
MarkStepStuck ==
  /\ call = "mark"
  /\ m_mmap' = [m_mmap EXCEPT ![index] = FALSE]
  /\ call' = IF m_mmap[sibling(index)] THEN "none" ELSE "mark"
  /\ UNCHANGED <<index, addr>>

\* mark_as_used(): the bit is cleared, and the parent's too if the sibling's is clear.
MarkStep ==
  /\ call = "mark"
  /\ m_mmap' = [m_mmap EXCEPT ![index] = FALSE]
  /\ index' = index \div 2
  /\ call' = IF m_mmap[sibling(index)] \/ index \div 2 = 0 THEN "none" ELSE "mark"
  /\ UNCHANGED addr

\* free_page(): the bits are set on the way up to the first that is set.
FreeStep ==
  /\ call = "free"
  /\ IF m_mmap[index] THEN UNCHANGED <<m_mmap, index>> /\ call' = "none"
     ELSE /\ m_mmap' = [m_mmap EXCEPT ![index] = TRUE]
          /\ index' = index \div 2
          /\ call' = IF index \div 2 = 0 THEN "none" ELSE "free"
  /\ UNCHANGED addr

\* Mutant of FreshStep: a clear bit ends the search, on a left child too.
FreshStepLeft ==
  /\ call = "fresh"
  /\ UNCHANGED m_mmap
  /\ IF m_mmap[index]
     THEN IF index >= m_nb_pages
          THEN addr' = index - m_nb_pages /\ call' = "mark" /\ UNCHANGED index
          ELSE index' = index * 2 /\ UNCHANGED <<call, addr>>
     ELSE addr' = FAILED /\ call' = "none" /\ UNCHANGED index

\* fresh_page(): down the tree to a free page; a clear bit sends the search to the right, and
\* ends it on a right child.
FreshStep ==
  /\ call = "fresh"
  /\ UNCHANGED m_mmap
  /\ IF m_mmap[index]
     THEN IF index >= m_nb_pages
          THEN addr' = index - m_nb_pages /\ call' = "mark" /\ UNCHANGED index
          ELSE index' = index * 2 /\ UNCHANGED <<call, addr>>
     ELSE IF index % 2 = 1
          THEN addr' = FAILED /\ call' = "none" /\ UNCHANGED index
          ELSE index' = index + 1 /\ UNCHANGED <<call, addr>>

\* The calls. The kernel marks the pages it boots from, and frees pages in any order.
fresh_page == call = "none" /\ call' = "fresh" /\ index' = 1 /\ UNCHANGED <<m_mmap, addr>>
mark_as_used(p) == call = "none" /\ call' = "mark" /\ index' = page_index(p) /\ UNCHANGED <<m_mmap, addr>>
free_page(p) == call = "none" /\ call' = "free" /\ index' = page_index(p) /\ UNCHANGED <<m_mmap, addr>>

PageNext ==
  \/ fresh_page \/ FreshStep \/ MarkStep \/ FreeStep
  \/ \E p \in Page : mark_as_used(p) \/ free_page(p)

PageSpec == PageInit /\ [][PageNext]_pageVars
FairPageSpec == PageSpec /\ WF_pageVars(FreshStep \/ MarkStep \/ FreeStep)
-----------------------------------------------------------------------------
\* A node of the tree agrees with its children.
Agrees(i) == m_mmap[i] = (m_mmap[2 * i] \/ m_mmap[2 * i + 1])

\* Between calls a bit is set iff a page below it is free. Inside the loops the node the loop is
\* at may differ from its children, and only in the way its iteration is about to repair. A search
\* is below a node that has a free page, at its left child, or at its right one after a clear left.
TreeInv ==
  /\ PageTypeOK
  /\ ~m_mmap[0]
  /\ \A i \in Inner : (call \in {"mark", "free"} /\ i = index) \/ Agrees(i)
  /\ call # "none" => index \in TreeNode
  /\ call = "mark" /\ index \in Inner => ~m_mmap[2 * index] /\ ~m_mmap[2 * index + 1]
  /\ call = "free" /\ index \in Inner => m_mmap[2 * index] \/ m_mmap[2 * index + 1]
  /\ call = "fresh" /\ index > 1 =>
       /\ m_mmap[index \div 2]
       /\ index % 2 = 1 => ~m_mmap[index - 1]

\* The free pages: not the one that fresh_page() has found and is about to mark.
FreePages == {p \in Page : page_status(p) /\ ~(call = "mark" /\ addr = p /\ index = page_index(p))}

Pool == INSTANCE PagePool WITH free <- FreePages, answer <- addr

\* No page is leaked or handed out twice, and fresh_page() fails only when no page is free, since
\* the bits of the tree stay right.
PoolSpec == Pool!Spec /\ []TreeInv

\* The loops come to an end.
CallsReturn == call # "none" ~> call = "none"
=============================================================================
