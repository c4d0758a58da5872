-------------------------- MODULE AllocatorProofs --------------------------
(***************************************************************************)
(* The two page allocators for any number of pages: the tree bitmap        *)
(* implements a set of free pages, and the next-fit search hands out       *)
(* disjoint ranges and fails only when there is none. And the kernel's     *)
(* heap, for any sizes and alignments; and who owns the physical pages,    *)
(* for any device tree and anything the boot has placed. At the end, what  *)
(* the boot maps besides memory: the devices, wherever they are.           *)
(***************************************************************************)
EXTENDS PageAlloc, ContiguousPages, KernelHeap, PhysicalMemory, SocRanges, OrderTheorems

(***************************************************************************)
(* The tree bitmap.                                                        *)
(***************************************************************************)

Bit == 0 .. 2 * m_nb_pages - 1

\* The children of an inner node are nodes, and its own only.
LEMMA Children ==
  ASSUME NEW i \in Inner
  PROVE  /\ i \in TreeNode /\ i \in Bit /\ i # 0
         /\ 2 * i \in TreeNode /\ 2 * i \in Bit /\ 2 * i # i
         /\ 2 * i + 1 \in TreeNode /\ 2 * i + 1 \in Bit /\ 2 * i + 1 # i
         /\ (2 * i) \div 2 = i /\ (2 * i + 1) \div 2 = i
  BY NbPagesAssumption DEF TreeNode, Inner, Bit

\* The root has no parent and bit 0 for a sibling.
LEMMA Root == 1 \in TreeNode /\ 1 \in Bit /\ 1 \div 2 = 0 /\ sibling(1) = 0 /\ 0 \in Bit /\ 0 \notin TreeNode
  BY NbPagesAssumption DEF TreeNode, Bit, sibling

\* Any other node has a parent, whose children are the node and its sibling.
LEMMA Parent ==
  ASSUME NEW i \in TreeNode, i # 1
  PROVE  /\ i \div 2 \in Inner /\ i \div 2 # 0 /\ i \div 2 # i /\ i \in Bit /\ i # 0
         /\ sibling(i) \in Bit /\ sibling(i) # i
         /\ \/ i = 2 * (i \div 2) /\ sibling(i) = 2 * (i \div 2) + 1
            \/ i = 2 * (i \div 2) + 1 /\ sibling(i) = 2 * (i \div 2)
<1>1. i \in Nat \ {0, 1} /\ i < 2 * m_nb_pages /\ m_nb_pages \in Nat
  BY NbPagesAssumption DEF TreeNode
<1>2. /\ i \div 2 \in Nat
      /\ i % 2 = 0 => i = 2 * (i \div 2)
      /\ i % 2 # 0 => i = 2 * (i \div 2) + 1
  <2>1. i \div 2 \in Nat
    BY <1>1
  <2>2. i % 2 = 0 => i = 2 * (i \div 2)
    BY <1>1
  <2>3. i % 2 # 0 => i = 2 * (i \div 2) + 1
    BY <1>1
  <2> QED
    BY <2>1, <2>2, <2>3
<1>3. i \div 2 \in Inner /\ i \div 2 # 0 /\ i \div 2 # i /\ i \in Bit
  BY <1>1, <1>2 DEF Inner, Bit
<1>4. \/ i = 2 * (i \div 2) /\ sibling(i) = 2 * (i \div 2) + 1
      \/ i = 2 * (i \div 2) + 1 /\ sibling(i) = 2 * (i \div 2)
  BY <1>1, <1>2 DEF sibling
<1> QED
  BY <1>1, <1>3, <1>4, Children

\* The constructor.
LEMMA InitTree == PageInit => TreeInv
<1> SUFFICES ASSUME PageInit PROVE TreeInv
  OBVIOUS
<1>1. PageTypeOK /\ call = "none"
  BY NbPagesAssumption DEF PageInit, PageTypeOK
<1>2. \A i \in Bit : m_mmap[i] = (i # 0)
  BY DEF PageInit, Bit
<1>3. ~m_mmap[0] /\ \A i \in TreeNode : m_mmap[i] = TRUE
  <2>1. m_mmap[0] = (0 # 0)
    BY <1>2, Root
  <2>2. \A i \in TreeNode : i \in Bit /\ i # 0
    BY NbPagesAssumption DEF Bit, TreeNode
  <2>3. ASSUME NEW i \in TreeNode PROVE m_mmap[i] = TRUE
    BY <1>2, <2>2
  <2> QED
    BY <2>1, <2>3
<1>4. \A i \in Inner : Agrees(i)
  BY <1>3, Children DEF Agrees
<1> QED
  BY <1>1, <1>3, <1>4 DEF TreeInv

\* One iteration of mark_as_used().
LEMMA MarkTree == ASSUME TreeInv, MarkStep PROVE TreeInv'
<1>1. /\ call = "mark" /\ m_mmap' = [m_mmap EXCEPT ![index] = FALSE] /\ index' = index \div 2
      /\ call' = IF m_mmap[sibling(index)] \/ index \div 2 = 0 THEN "none" ELSE "mark"
      /\ addr' = addr
  BY DEF MarkStep
<1>2. /\ index \in TreeNode /\ index \in Bit /\ index # 0 /\ m_mmap \in [Bit -> BOOLEAN] /\ ~m_mmap[0]
      /\ addr \in Page \cup {FAILED}
  BY <1>1, Root DEF TreeInv, PageTypeOK, Bit
<1>3. /\ m_mmap' \in [Bit -> BOOLEAN] /\ m_mmap'[index] = FALSE
      /\ \A i \in Bit : i # index => m_mmap'[i] = m_mmap[i]
  BY <1>1, <1>2
<1>4. ~m_mmap'[0]
  BY <1>2, <1>3, Root
<1>5. ASSUME NEW i \in Inner, i = index PROVE Agrees(i)'
  <2>1. ~m_mmap[2 * i] /\ ~m_mmap[2 * i + 1]
    BY <1>1, <1>5 DEF TreeInv
  <2>2. ~m_mmap'[2 * i] /\ ~m_mmap'[2 * i + 1] /\ m_mmap'[i] = FALSE
    BY <1>3, <1>5, <2>1, Children
  <2> QED
    BY <2>2 DEF Agrees
<1>6. ASSUME NEW i \in Inner, i # index, i # index \div 2 PROVE Agrees(i)'
  <2>1. Agrees(i) /\ m_mmap'[i] = m_mmap[i]
    BY <1>1, <1>3, <1>6, Children DEF TreeInv
  <2>2. 2 * i # index /\ 2 * i + 1 # index
    BY <1>6, Children
  <2>3. m_mmap'[2 * i] = m_mmap[2 * i] /\ m_mmap'[2 * i + 1] = m_mmap[2 * i + 1]
    BY <1>3, <2>2, Children
  <2> QED
    BY <2>1, <2>3 DEF Agrees
<1>7. CASE index = 1
  <2>1. index' = 0 /\ call' = "none"
    BY <1>1, <1>7, Root
  <2>2. \A i \in Inner : Agrees(i)'
    BY <1>1, <1>5, <1>6, <2>1, Children
  <2> QED
    BY <1>1, <1>2, <1>3, <1>4, <2>1, <2>2, Root DEF TreeInv, PageTypeOK, Bit
<1>8. CASE index # 1
  <2>0. PICK j : j = index \div 2
    OBVIOUS
  <2>1. /\ j \in Inner /\ j # 0 /\ j # index /\ sibling(index) \in Bit /\ sibling(index) # index
        /\ \/ index = 2 * j /\ sibling(index) = 2 * j + 1
           \/ index = 2 * j + 1 /\ sibling(index) = 2 * j
    BY <1>2, <1>8, <2>0, Parent
  <2>2. j \in TreeNode /\ j \in Bit
    BY <2>1, Children
  <2>3. index' = j /\ call' = IF m_mmap[sibling(index)] THEN "none" ELSE "mark"
    BY <1>1, <2>0, <2>1
  <2>4. m_mmap'[sibling(index)] = m_mmap[sibling(index)] /\ m_mmap'[j] = m_mmap[j]
    BY <1>3, <2>1, <2>2
  <2>5. m_mmap[sibling(index)] => Agrees(j)'
    <3> SUFFICES ASSUME m_mmap[sibling(index)] PROVE Agrees(j)'
      OBVIOUS
    <3>1. m_mmap[j] = (m_mmap[2 * j] \/ m_mmap[2 * j + 1])
      BY <1>1, <2>1 DEF TreeInv, Agrees
    <3>2. m_mmap[2 * j] \/ m_mmap[2 * j + 1]
      BY <2>1
    <3>3. m_mmap'[2 * j] \/ m_mmap'[2 * j + 1]
      BY <2>1, <2>4
    <3> QED
      BY <2>4, <3>1, <3>2, <3>3 DEF Agrees
  <2>6. ~m_mmap[sibling(index)] => ~m_mmap'[2 * j] /\ ~m_mmap'[2 * j + 1]
    BY <1>3, <2>1, <2>4
  <2>7. \A i \in Inner : (call' = "mark" /\ i = index') \/ Agrees(i)'
    BY <1>5, <1>6, <2>0, <2>3, <2>5
  <2>8. PageTypeOK'
    BY <1>1, <1>2, <1>3, <2>2, <2>3 DEF PageTypeOK, Bit
  <2> QED
    BY <1>4, <2>2, <2>3, <2>6, <2>7, <2>8 DEF TreeInv
<1> QED
  BY <1>7, <1>8

\* One iteration of free_page().
LEMMA FreeTree == ASSUME TreeInv, FreeStep PROVE TreeInv'
<1>1. /\ call = "free" /\ index \in TreeNode /\ index \in Bit /\ index # 0 /\ m_mmap \in [Bit -> BOOLEAN]
      /\ ~m_mmap[0] /\ addr' = addr /\ addr \in Page \cup {FAILED}
  BY Root DEF FreeStep, TreeInv, PageTypeOK, Bit
<1>2. CASE m_mmap[index]
  <2>1. m_mmap' = m_mmap /\ index' = index /\ call' = "none"
    BY <1>2 DEF FreeStep
  <2>2. index \in Inner => Agrees(index)
    <3> SUFFICES ASSUME index \in Inner PROVE m_mmap[index] = (m_mmap[2 * index] \/ m_mmap[2 * index + 1])
      BY DEF Agrees
    <3>1. m_mmap[2 * index] \/ m_mmap[2 * index + 1]
      BY <1>1 DEF TreeInv
    <3>2. m_mmap[index] = TRUE
      BY <1>1, <1>2
    <3> QED
      BY <3>1, <3>2
  <2>3. \A i \in Inner : Agrees(i)
    BY <1>1, <2>2 DEF TreeInv
  <2>4. \A i \in Inner : Agrees(i)'
    BY <2>1, <2>3 DEF Agrees
  <2> QED
    BY <1>1, <2>1, <2>4 DEF TreeInv, PageTypeOK, Bit
<1>3. CASE ~m_mmap[index]
  <2>1. /\ m_mmap' = [m_mmap EXCEPT ![index] = TRUE] /\ index' = index \div 2
        /\ call' = IF index \div 2 = 0 THEN "none" ELSE "free"
    BY <1>3 DEF FreeStep
  <2>2. /\ m_mmap' \in [Bit -> BOOLEAN] /\ m_mmap'[index] = TRUE
        /\ \A i \in Bit : i # index => m_mmap'[i] = m_mmap[i]
    BY <1>1, <2>1
  <2>3. ~m_mmap'[0]
    BY <1>1, <2>2, Root
  <2>4. ASSUME NEW i \in Inner, i = index PROVE Agrees(i)'
    <3>1. m_mmap[2 * i] \/ m_mmap[2 * i + 1]
      BY <1>1, <2>4 DEF TreeInv
    <3>2. (m_mmap'[2 * i] \/ m_mmap'[2 * i + 1]) /\ m_mmap'[i] = TRUE
      BY <2>2, <2>4, <3>1, Children
    <3> QED
      BY <3>2 DEF Agrees
  <2>5. ASSUME NEW i \in Inner, i # index, i # index \div 2 PROVE Agrees(i)'
    <3>1. Agrees(i) /\ m_mmap'[i] = m_mmap[i]
      BY <1>1, <2>2, <2>5, Children DEF TreeInv
    <3>2. 2 * i # index /\ 2 * i + 1 # index
      BY <2>5, Children
    <3>3. m_mmap'[2 * i] = m_mmap[2 * i] /\ m_mmap'[2 * i + 1] = m_mmap[2 * i + 1]
      BY <2>2, <3>2, Children
    <3> QED
      BY <3>1, <3>3 DEF Agrees
  <2>6. CASE index = 1
    <3>1. index' = 0 /\ call' = "none"
      BY <2>1, <2>6, Root
    <3>2. \A i \in Inner : Agrees(i)'
      BY <2>1, <2>4, <2>5, <3>1, Children
    <3> QED
      BY <1>1, <2>2, <2>3, <3>1, <3>2, Root DEF TreeInv, PageTypeOK, Bit
  <2>7. CASE index # 1
    <3>0. PICK j : j = index \div 2
      OBVIOUS
    <3>1. j \in Inner /\ j # 0 /\ (index = 2 * j \/ index = 2 * j + 1)
      BY <1>1, <2>7, <3>0, Parent
    <3>2. j \in TreeNode /\ j \in Bit /\ index' = j /\ call' = "free"
      BY <2>1, <3>0, <3>1, Children
    <3>3. m_mmap'[2 * j] \/ m_mmap'[2 * j + 1]
      BY <2>2, <3>1
    <3>4. \A i \in Inner : i = index' \/ Agrees(i)'
      BY <2>4, <2>5, <3>0, <3>2
    <3>5. PageTypeOK'
      BY <1>1, <2>2, <3>2 DEF PageTypeOK, Bit
    <3> QED
      BY <2>3, <3>2, <3>3, <3>4, <3>5 DEF TreeInv
  <2> QED
    BY <2>6, <2>7
<1> QED
  BY <1>2, <1>3

\* One iteration of fresh_page().
LEMMA FreshTree == ASSUME TreeInv, FreshStep PROVE TreeInv'
<1>1. /\ call = "fresh" /\ m_mmap' = m_mmap /\ index \in TreeNode /\ PageTypeOK /\ ~m_mmap[0]
      /\ \A i \in Inner : Agrees(i)
  BY DEF FreshStep, TreeInv
<1>2. ~m_mmap'[0] /\ \A i \in Inner : Agrees(i)'
  BY <1>1 DEF Agrees
<1>3. CASE m_mmap[index] /\ index >= m_nb_pages
  <2>1. addr' = index - m_nb_pages /\ call' = "mark" /\ index' = index
    BY <1>3 DEF FreshStep
  <2>2. addr' \in Page /\ index \notin Inner
    BY <1>1, <1>3, <2>1, NbPagesAssumption DEF TreeNode, Page, Inner
  <2> QED
    BY <1>1, <1>2, <2>1, <2>2 DEF TreeInv, PageTypeOK
<1>4. CASE m_mmap[index] /\ ~(index >= m_nb_pages)
  <2>1. index' = index * 2 /\ call' = "fresh" /\ addr' = addr
    BY <1>1, <1>4 DEF FreshStep
  <2>2. index \in Inner
    BY <1>1, <1>4, NbPagesAssumption DEF TreeNode, Inner
  <2>3. index' \in TreeNode /\ index' \div 2 = index /\ index' % 2 = 0 /\ index' \in 0 .. 2 * m_nb_pages - 1
    BY <2>1, <2>2, NbPagesAssumption DEF TreeNode, Inner
  <2>4. PageTypeOK'
    BY <1>1, <2>1, <2>3 DEF PageTypeOK
  <2> QED
    BY <1>1, <1>2, <1>4, <2>1, <2>3, <2>4 DEF TreeInv
<1>5. CASE ~m_mmap[index] /\ index % 2 = 1
  <2>1. addr' = FAILED /\ call' = "none" /\ index' = index
    BY <1>5 DEF FreshStep
  <2> QED
    BY <1>1, <1>2, <2>1 DEF TreeInv, PageTypeOK
<1>6. CASE ~m_mmap[index] /\ index % 2 # 1
  <2>1. index' = index + 1 /\ call' = "fresh" /\ addr' = addr
    BY <1>1, <1>6 DEF FreshStep
  <2>2. /\ index' \in TreeNode /\ index' \in 0 .. 2 * m_nb_pages - 1 /\ index > 1
        /\ index' \div 2 = index \div 2 /\ index' - 1 = index
    BY <1>1, <1>6, <2>1, NbPagesAssumption DEF TreeNode
  <2>3. m_mmap[index \div 2]
    BY <1>1, <2>2 DEF TreeInv
  <2>4. PageTypeOK'
    BY <1>1, <2>1, <2>2 DEF PageTypeOK
  <2> QED
    BY <1>1, <1>2, <1>6, <2>1, <2>2, <2>3, <2>4 DEF TreeInv
<1> QED
  BY <1>3, <1>4, <1>5, <1>6

\* The start of a call.
LEMMA CallTree ==
  ASSUME TreeInv, fresh_page \/ \E p \in Page : mark_as_used(p) \/ free_page(p)
  PROVE  TreeInv'
<1>1. call = "none" /\ m_mmap' = m_mmap /\ addr' = addr
  BY DEF fresh_page, mark_as_used, free_page
<1>2. PageTypeOK /\ ~m_mmap[0] /\ \A i \in Inner : Agrees(i)
  BY <1>1 DEF TreeInv
<1>3. ~m_mmap'[0] /\ \A i \in Inner : Agrees(i)'
  BY <1>1, <1>2 DEF Agrees
<1>4. CASE fresh_page
  <2>1. call' = "fresh" /\ index' = 1
    BY <1>4 DEF fresh_page
  <2>2. 1 \in TreeNode /\ 1 \in 0 .. 2 * m_nb_pages - 1
    BY NbPagesAssumption DEF TreeNode
  <2> QED
    BY <1>1, <1>2, <1>3, <2>1, <2>2 DEF TreeInv, PageTypeOK
<1>5. CASE \E p \in Page : mark_as_used(p) \/ free_page(p)
  <2>1. PICK p \in Page : call' \in {"mark", "free"} /\ index' = page_index(p)
    BY <1>5 DEF mark_as_used, free_page
  <2>2. index' \in TreeNode /\ index' \notin Inner /\ index' \in 0 .. 2 * m_nb_pages - 1
    BY <2>1, NbPagesAssumption DEF page_index, Page, TreeNode, Inner
  <2> QED
    BY <1>1, <1>2, <1>3, <2>1, <2>2 DEF TreeInv, PageTypeOK
<1> QED
  BY <1>4, <1>5

\* The bits of the tree are right between calls, and inside the loops up to the node the loop is at.
LEMMA TreeCorrect == PageSpec => []TreeInv
<1>1. PageInit => TreeInv
  BY InitTree
<1>2. ASSUME TreeInv, [PageNext]_pageVars PROVE TreeInv'
  <2>1. CASE FreshStep
    BY <1>2, <2>1, FreshTree
  <2>2. CASE MarkStep
    BY <1>2, <2>2, MarkTree
  <2>3. CASE FreeStep
    BY <1>2, <2>3, FreeTree
  <2>4. CASE fresh_page \/ \E p \in Page : mark_as_used(p) \/ free_page(p)
    BY <1>2, <2>4, CallTree
  <2>5. CASE UNCHANGED pageVars
    BY <1>2, <2>5 DEF pageVars, TreeInv, PageTypeOK, Agrees
  <2> QED
    BY <1>2, <2>1, <2>2, <2>3, <2>4, <2>5 DEF PageNext
<1> QED
  BY <1>1, <1>2, PTL DEF PageSpec

\* The leaves of the tree.
LEMMA Leaves ==
  /\ \A p \in Page : page_index(p) \in TreeNode /\ page_index(p) \in Bit /\ page_index(p) \notin Inner
  /\ \A p, q \in Page : page_index(p) = page_index(q) => p = q
  /\ \A i \in TreeNode : i \notin Inner => i - m_nb_pages \in Page /\ page_index(i - m_nb_pages) = i
  /\ \A i \in TreeNode : i \in Inner <=> ~(i >= m_nb_pages)
  /\ FAILED \notin Page
  BY NbPagesAssumption DEF Page, page_index, TreeNode, Bit, Inner, FAILED

\* A clear root: no page is free. The least set bit would have a set parent.
LEMMA ClearRoot ==
  ASSUME TreeInv, call = "fresh", ~m_mmap[1]
  PROVE  \A p \in Page : ~page_status(p)
<1> DEFINE T == {i \in TreeNode : m_mmap[i]}
<1>1. SUFFICES T = {}
  BY Leaves DEF page_status
<1>2. SUFFICES ASSUME T # {} PROVE FALSE
  OBVIOUS
<1>3. T \subseteq Nat
  BY NbPagesAssumption DEF TreeNode
<1>4. PICK i \in T : \A k \in T : i <= k
  BY <1>2, <1>3, LeastNatural
<1>5. i \in TreeNode /\ m_mmap[i] /\ i # 1
  BY <1>4
<1>6. PICK j : j = i \div 2
  OBVIOUS
<1>7. j \in Inner /\ (i = 2 * j \/ i = 2 * j + 1)
  BY <1>5, <1>6, Parent
<1>8. Agrees(j)
  BY <1>7 DEF TreeInv
<1>9. m_mmap[j]
  BY <1>5, <1>7, <1>8 DEF Agrees
<1>10. j \in T
  BY <1>7, <1>9, Children
<1>11. j < i
  BY <1>7, NbPagesAssumption DEF Inner
<1> QED
  BY <1>3, <1>4, <1>10, <1>11

\* The free pages while no page is being marked.
LEMMA FreeUnmarked ==
  ASSUME call # "mark" \/ index \notin {page_index(p) : p \in Page}
  PROVE  FreePages = {p \in Page : page_status(p)}
  BY DEF FreePages

\* The same, of the next state.
LEMMA FreeUnmarkedNext ==
  ASSUME call' # "mark" \/ index' \notin {page_index(p) : p \in Page}
  PROVE  FreePages' = {p \in Page : page_status(p)'}
  BY DEF FreePages, Page, page_index

\* fresh_page() takes a free page, or fails when there is none.
LEMMA FreshPool == ASSUME TreeInv, FreshStep PROVE [Pool!Next]_<<FreePages, addr>>
<1>1. call = "fresh" /\ m_mmap' = m_mmap /\ index \in TreeNode
  BY DEF FreshStep, TreeInv
<1>2. FreePages = {p \in Page : page_status(p)} /\ \A p \in Page : page_status(p)' = page_status(p)
  BY <1>1, FreeUnmarked DEF page_status, page_index
<1>3. CASE m_mmap[index] /\ index >= m_nb_pages
  <2>1. PICK p : p = index - m_nb_pages
    OBVIOUS
  <2>2. p \in Page /\ page_index(p) = index /\ page_status(p)
    BY <1>1, <1>3, <2>1, Leaves DEF page_status
  <2>3. addr' = p /\ call' = "mark" /\ index' = page_index(p)
    BY <1>3, <2>1, <2>2 DEF FreshStep
  <2>4. FreePages' = {q \in Page : page_status(q)' /\ ~(p = q /\ page_index(p) = page_index(q))}
    BY <2>3 DEF FreePages, Page, page_index
  <2>5. FreePages' = FreePages \ {p}
    BY <1>2, <2>4
  <2>6. p \in FreePages
    BY <1>2, <2>2
  <2> QED
    BY <2>2, <2>3, <2>5, <2>6 DEF Pool!Next, Pool!Allocate
<1>4. CASE m_mmap[index] /\ ~(index >= m_nb_pages)
  <2>1. call' = "fresh" /\ addr' = addr
    BY <1>1, <1>4 DEF FreshStep
  <2>2. FreePages' = FreePages
    BY <1>2, <2>1, FreeUnmarkedNext
  <2> QED
    BY <2>1, <2>2
<1>5. CASE ~m_mmap[index] /\ index % 2 = 1
  <2>1. addr' = FAILED /\ call' = "none"
    BY <1>5 DEF FreshStep
  <2>2. index = 1
    <3> SUFFICES ASSUME index # 1 PROVE FALSE
      OBVIOUS
    <3>1. PICK j : j = index \div 2
      OBVIOUS
    <3>2. j \in Inner /\ index = 2 * j + 1 /\ m_mmap[j] /\ ~m_mmap[index - 1]
      <4>1. j \in Inner /\ (index = 2 * j \/ index = 2 * j + 1)
        BY <1>1, <3>1, Parent
      <4>2. index > 1 /\ index # 2 * j
        BY <1>1, <1>5, <4>1, NbPagesAssumption DEF TreeNode, Inner
      <4> QED
        BY <1>1, <1>5, <3>1, <4>1, <4>2 DEF TreeInv
    <3>3. index - 1 = 2 * j
      BY <3>2, NbPagesAssumption DEF Inner
    <3>4. Agrees(j)
      BY <1>1, <3>2 DEF TreeInv
    <3> QED
      BY <1>5, <3>2, <3>3, <3>4 DEF Agrees
  <2>3. FreePages = {}
    BY <1>1, <1>2, <1>5, <2>2, ClearRoot
  <2>4. FreePages' = FreePages
    BY <1>2, <2>1, FreeUnmarkedNext
  <2> QED
    BY <2>1, <2>3, <2>4 DEF Pool!Next, Pool!Fail
<1>6. CASE ~m_mmap[index] /\ index % 2 # 1
  <2>1. call' = "fresh" /\ addr' = addr
    BY <1>1, <1>6 DEF FreshStep
  <2>2. FreePages' = FreePages
    BY <1>2, <2>1, FreeUnmarkedNext
  <2> QED
    BY <2>1, <2>2
<1> QED
  BY <1>3, <1>4, <1>5, <1>6

\* mark_as_used() takes one page away, at the leaf, unless fresh_page() has taken it already.
LEMMA MarkPool == ASSUME TreeInv, MarkStep PROVE [Pool!Next]_<<FreePages, addr>>
<1>1. /\ call = "mark" /\ index \in TreeNode /\ m_mmap \in [Bit -> BOOLEAN] /\ addr' = addr
      /\ m_mmap' = [m_mmap EXCEPT ![index] = FALSE] /\ index' = index \div 2
      /\ call' = IF m_mmap[sibling(index)] \/ index \div 2 = 0 THEN "none" ELSE "mark"
  BY DEF MarkStep, TreeInv, PageTypeOK, Bit
<1>2. call' # "mark" \/ index' \notin {page_index(p) : p \in Page}
  <2>1. CASE index = 1
    BY <1>1, <2>1, Root
  <2>2. CASE index # 1
    BY <1>1, <2>2, Parent, Leaves
  <2> QED
    BY <2>1, <2>2
<1>3. FreePages' = {p \in Page : page_status(p)'}
  BY <1>2, FreeUnmarkedNext
<1>4. CASE index \in Inner
  <2>1. \A p \in Page : page_status(p)' = page_status(p)
    BY <1>1, <1>4, Leaves DEF page_status, page_index
  <2>2. index \notin {page_index(p) : p \in Page}
    BY <1>4, Leaves
  <2>3. FreePages' = FreePages
    BY <1>3, <2>1, <2>2, FreeUnmarked
  <2> QED
    BY <1>1, <2>3
<1>5. CASE index \notin Inner
  <2>1. PICK p \in Page : page_index(p) = index
    BY <1>1, <1>5, Leaves
  <2>2. ASSUME NEW q \in Page PROVE page_status(q)' <=> (page_status(q) /\ q # p)
    <3>1. page_status(q)' = m_mmap'[page_index(q)]
      BY DEF page_status, page_index
    <3>2. page_index(q) \in Bit /\ (page_index(q) = index <=> q = p)
      BY <2>1, Leaves
    <3> QED
      BY <1>1, <3>1, <3>2 DEF page_status
  <2>3. FreePages = {q \in Page : page_status(q) /\ ~(addr = q /\ q = p)}
    BY <1>1, <2>1, Leaves DEF FreePages
  <2>4. FreePages' = FreePages \ {p}
    BY <1>3, <2>2, <2>3
  <2> QED
    BY <1>1, <2>1, <2>4 DEF Pool!Next, Pool!Use
<1> QED
  BY <1>4, <1>5

\* free_page() gives one page back, at the leaf.
LEMMA FreePool == ASSUME TreeInv, FreeStep PROVE [Pool!Next]_<<FreePages, addr>>
<1>1. /\ call = "free" /\ call' # "mark" /\ index \in TreeNode /\ m_mmap \in [Bit -> BOOLEAN] /\ addr' = addr
      /\ m_mmap' = m_mmap \/ m_mmap' = [m_mmap EXCEPT ![index] = TRUE]
  BY DEF FreeStep, TreeInv, PageTypeOK, Bit
<1>2. FreePages = {p \in Page : page_status(p)} /\ FreePages' = {p \in Page : page_status(p)'}
  BY <1>1, FreeUnmarked, FreeUnmarkedNext
<1>3. CASE m_mmap' = m_mmap
  <2>1. \A p \in Page : page_status(p)' = page_status(p)
    BY <1>3 DEF page_status, page_index
  <2> QED
    BY <1>1, <1>2, <2>1
<1>4. CASE m_mmap' = [m_mmap EXCEPT ![index] = TRUE] /\ index \in Inner
  <2>1. \A p \in Page : page_status(p)' = page_status(p)
    BY <1>1, <1>4, Leaves DEF page_status, page_index
  <2> QED
    BY <1>1, <1>2, <2>1
<1>5. CASE m_mmap' = [m_mmap EXCEPT ![index] = TRUE] /\ index \notin Inner
  <2>1. PICK p \in Page : page_index(p) = index
    BY <1>1, <1>5, Leaves
  <2>2. ASSUME NEW q \in Page PROVE page_status(q)' <=> (page_status(q) \/ q = p)
    <3>1. page_status(q)' = m_mmap'[page_index(q)]
      BY DEF page_status, page_index
    <3>2. page_index(q) \in Bit /\ (page_index(q) = index <=> q = p)
      BY <2>1, Leaves
    <3> QED
      BY <1>1, <1>5, <3>1, <3>2 DEF page_status
  <2>3. FreePages' = FreePages \cup {p}
    BY <1>2, <2>1, <2>2
  <2> QED
    BY <1>1, <2>1, <2>3 DEF Pool!Next, Pool!Release
<1> QED
  BY <1>1, <1>3, <1>4, <1>5

\* A call that starts takes at most the page away that it is about to mark.
LEMMA CallPool ==
  ASSUME TreeInv, fresh_page \/ \E p \in Page : mark_as_used(p) \/ free_page(p)
  PROVE  [Pool!Next]_<<FreePages, addr>>
<1>1. call = "none" /\ m_mmap' = m_mmap /\ addr' = addr
  BY DEF fresh_page, mark_as_used, free_page
<1>2. FreePages = {p \in Page : page_status(p)} /\ \A p \in Page : page_status(p)' = page_status(p)
  BY <1>1, FreeUnmarked DEF page_status, page_index
<1>3. CASE fresh_page \/ \E p \in Page : free_page(p)
  <2>1. call' # "mark"
    BY <1>3 DEF fresh_page, free_page
  <2>2. FreePages' = FreePages
    BY <1>2, <2>1, FreeUnmarkedNext
  <2> QED
    BY <1>1, <2>2
<1>4. CASE \E p \in Page : mark_as_used(p)
  <2>1. PICK p \in Page : call' = "mark" /\ index' = page_index(p)
    BY <1>4 DEF mark_as_used
  <2>2. FreePages' = {q \in Page : page_status(q)' /\ ~(addr = q /\ page_index(p) = page_index(q))}
    BY <1>1, <2>1 DEF FreePages, Page, page_index
  <2>3. \A q \in Page : page_index(p) = page_index(q) <=> p = q
    BY <2>1, Leaves
  <2>4. FreePages' = IF addr = p THEN FreePages \ {p} ELSE FreePages
    BY <1>2, <2>2, <2>3
  <2> QED
    BY <1>1, <2>1, <2>4 DEF Pool!Next, Pool!Use
<1> QED
  BY <1>3, <1>4

\* No page is leaked or handed out twice, and fresh_page() fails only when no page is free.
THEOREM ImplementsPool == PageSpec => PoolSpec
<1>1. PageInit => Pool!Init
  <2> SUFFICES ASSUME PageInit PROVE FreePages = Page /\ addr = FAILED
    BY DEF Pool!Init
  <2>1. call = "none" /\ addr = FAILED /\ \A i \in Bit : m_mmap[i] = (i # 0)
    BY DEF PageInit, Bit
  <2>2. ASSUME NEW p \in Page PROVE page_status(p)
    <3>1. page_index(p) \in Bit /\ page_index(p) # 0
      BY Leaves, Root
    <3> QED
      BY <2>1, <3>1 DEF page_status
  <2> QED
    BY <2>1, <2>2, FreeUnmarked
<1>2. ASSUME TreeInv, [PageNext]_pageVars PROVE [Pool!Next]_<<FreePages, addr>>
  <2>1. CASE FreshStep
    BY <1>2, <2>1, FreshPool
  <2>2. CASE MarkStep
    BY <1>2, <2>2, MarkPool
  <2>3. CASE FreeStep
    BY <1>2, <2>3, FreePool
  <2>4. CASE fresh_page \/ \E p \in Page : mark_as_used(p) \/ free_page(p)
    BY <1>2, <2>4, CallPool
  <2>5. CASE UNCHANGED pageVars
    BY <2>5 DEF pageVars, FreePages, Page, page_status, page_index
  <2> QED
    BY <1>2, <2>1, <2>2, <2>3, <2>4, <2>5 DEF PageNext
<1> QED
  BY <1>1, <1>2, TreeCorrect, PTL DEF PageSpec, PoolSpec, Pool!Spec
-----------------------------------------------------------------------------
(***************************************************************************)
(* The next-fit search.                                                    *)
(***************************************************************************)

\* The parts of the type invariant as the proofs use them.
LEMMA RangeTypes ==
  ASSUME RangesInv
  PROVE  /\ _nb_pages \in Nat /\ MaxRange \in Nat \ {0}
         /\ _free_page \subseteq PageNo /\ _page_cursor \in 0 .. _nb_pages
         /\ pass \in 0 .. 2 /\ nb_pages \in 1 .. MaxRange /\ page_candidate \in 0 .. _nb_pages
         /\ found_free_pages \in 0 .. MaxRange
         /\ answer \in (PageNo \X PageNo) \cup {NoRange} /\ held \subseteq PageNo \X PageNo
  BY RangeAssumption DEF RangesInv, RangeTypeOK

\* It holds after the constructor.
LEMMA InitRanges == RangeInit => RangesInv
<1> SUFFICES ASSUME RangeInit PROVE RangesInv
  OBVIOUS
<1>1. RangeTypeOK
  BY RangeAssumption DEF RangeInit, RangeTypeOK
<1>2. RangesDisjoint /\ SearchInv
  BY DEF RangeInit, RangesDisjoint, SearchInv
<1> QED
  BY <1>1, <1>2 DEF RangesInv

\* The candidate with the page at the cursor is a run of free pages that ends there, as long as
\* what is asked for at most.
LEMMA CandidateRun ==
  ASSUME RangesInv, pass # 0, _page_cursor < _nb_pages
  PROVE  \E c \in 0 .. _nb_pages, f \in 0 .. nb_pages :
           /\ Candidate[1] = c /\ Candidate[2] = f
           /\ f > 0 => c + f = _page_cursor + 1 /\ IsFreeRun(c, f)
           /\ pass = 2 => f = _page_cursor + 1 \/ _page_cursor - f \notin _free_page
<1>1. /\ found_free_pages < nb_pages
      /\ found_free_pages > 0 =>
           page_candidate + found_free_pages = _page_cursor /\ IsFreeRun(page_candidate, found_free_pages)
      /\ pass = 2 => found_free_pages = _page_cursor \/ _page_cursor - found_free_pages - 1 \notin _free_page
  BY DEF RangesInv, SearchInv
<1>2. CASE _page_cursor \notin _free_page
  <2>1. Candidate[1] = _nb_pages /\ Candidate[2] = 0
    BY <1>2 DEF Candidate
  <2>2. _page_cursor - 0 = _page_cursor /\ 0 \in 0 .. nb_pages /\ _nb_pages \in 0 .. _nb_pages
    BY RangeTypes
  <2> QED
    BY <1>2, <2>1, <2>2
<1>3. CASE _page_cursor \in _free_page /\ found_free_pages = 0
  <2>1. Candidate[1] = _page_cursor /\ Candidate[2] = 1
    BY <1>3 DEF Candidate
  <2>2. IsFreeRun(_page_cursor, 1)
    BY <1>3, RangeTypes DEF IsFreeRun
  <2>3. pass = 2 => 1 = _page_cursor + 1 \/ _page_cursor - 1 \notin _free_page
    <3>1. _page_cursor - 0 - 1 = _page_cursor - 1
      BY RangeTypes
    <3> QED
      BY <1>1, <1>3, <3>1
  <2>4. _page_cursor \in 0 .. _nb_pages /\ 1 \in 0 .. nb_pages
    BY RangeTypes
  <2> QED
    BY <2>1, <2>2, <2>3, <2>4
<1>4. CASE _page_cursor \in _free_page /\ found_free_pages # 0
  <2>1. Candidate[1] = page_candidate /\ Candidate[2] = found_free_pages + 1
    BY <1>4 DEF Candidate
  <2>2. found_free_pages > 0 /\ found_free_pages + 1 \in 0 .. nb_pages
    BY <1>1, <1>4, RangeTypes
  <2>3. page_candidate + (found_free_pages + 1) = _page_cursor + 1
    BY <1>1, <2>2, RangeTypes
  <2>4. IsFreeRun(page_candidate, found_free_pages + 1)
    BY <1>1, <1>4, <2>2, RangeTypes DEF IsFreeRun
  <2>5. pass = 2 => found_free_pages + 1 = _page_cursor + 1 \/ _page_cursor - (found_free_pages + 1) \notin _free_page
    <3>1. _page_cursor - (found_free_pages + 1) = _page_cursor - found_free_pages - 1
      BY RangeTypes
    <3> QED
      BY <1>1, <3>1
  <2> QED
    BY <2>1, <2>2, <2>3, <2>4, <2>5, RangeTypes
<1> QED
  BY <1>2, <1>3, <1>4

\* One iteration of the search that does not end it.
LEMMA SearchOn ==
  ASSUME RangesInv, SearchPage, Candidate[2] # nb_pages
  PROVE  RangesInv'
<1>1. /\ pass # 0 /\ _page_cursor < _nb_pages /\ _page_cursor' = _page_cursor + 1
      /\ page_candidate' = Candidate[1] /\ found_free_pages' = Candidate[2]
      /\ UNCHANGED <<_free_page, answer, held, pass, nb_pages>>
  BY DEF SearchPage
<1>2. PICK c \in 0 .. _nb_pages, f \in 0 .. nb_pages :
        /\ Candidate[1] = c /\ Candidate[2] = f
        /\ f > 0 => c + f = _page_cursor + 1 /\ IsFreeRun(c, f)
        /\ pass = 2 => f = _page_cursor + 1 \/ _page_cursor - f \notin _free_page
  BY <1>1, CandidateRun
<1>3. page_candidate' = c /\ found_free_pages' = f /\ f < nb_pages
  BY <1>1, <1>2, RangeTypes
<1>4. RangeTypeOK'
  BY <1>1, <1>3, RangeTypes DEF RangeTypeOK
<1>5. RangesDisjoint'
  BY <1>1 DEF RangesInv, RangesDisjoint
<1>6. f > 0 => c + f = _page_cursor' /\ IsFreeRun(c, f)'
  BY <1>1, <1>2 DEF IsFreeRun
<1>7. ASSUME pass = 2 PROVE f = _page_cursor' \/ _page_cursor' - f - 1 \notin _free_page
  <2>1. _page_cursor' - f - 1 = _page_cursor - f
    BY <1>1, <1>2, RangeTypes
  <2> QED
    BY <1>1, <1>2, <1>7, <2>1
<1>8. ASSUME pass = 2, NEW p \in 0 .. _page_cursor', p + nb_pages <= _page_cursor', IsFreeRun(p, nb_pages)
      PROVE  FALSE
  <2>1. CASE p + nb_pages <= _page_cursor
    <3>1. p \in 0 .. _page_cursor
      BY <1>1, <1>8, <2>1, RangeTypes
    <3> QED
      BY <1>1, <1>8, <2>1, <3>1 DEF RangesInv, SearchInv
  <2>2. CASE ~(p + nb_pages <= _page_cursor)
    <3>1. p + nb_pages = _page_cursor + 1
      BY <1>1, <1>8, <2>2, RangeTypes
    <3>2. _page_cursor - f \in p .. p + nb_pages - 1
      BY <1>1, <1>2, <1>3, <1>8, <3>1, RangeTypes
    <3>3. f # _page_cursor + 1
      BY <1>1, <1>2, <1>3, <1>8, <3>1, RangeTypes
    <3> QED
      BY <1>2, <1>8, <3>2, <3>3 DEF IsFreeRun
  <2> QED
    BY <2>1, <2>2
<1>9. SearchInv'
  <2>1. IsFreeRun(page_candidate, found_free_pages)' <=> IsFreeRun(c, f)
    BY <1>1, <1>3 DEF IsFreeRun
  <2>2. \A p : IsFreeRun(p, nb_pages)' <=> IsFreeRun(p, nb_pages)
    BY <1>1 DEF IsFreeRun
  <2> QED
    BY <1>1, <1>2, <1>3, <1>6, <1>7, <1>8, <2>1, <2>2 DEF SearchInv
<1> QED
  BY <1>4, <1>5, <1>9 DEF RangesInv

\* The iteration that finds the range.
LEMMA SearchFinds ==
  ASSUME RangesInv, SearchPage, Candidate[2] = nb_pages
  PROVE  RangesInv' /\ answer' # NoRange
<1>1. /\ pass # 0 /\ _page_cursor < _nb_pages /\ _page_cursor' = _page_cursor + 1
      /\ page_candidate' = Candidate[1] /\ found_free_pages' = Candidate[2] /\ nb_pages' = nb_pages
      /\ _free_page' = _free_page \ (Candidate[1] .. _page_cursor)
      /\ answer' = <<Candidate[1], _page_cursor>> /\ held' = held \cup {<<Candidate[1], _page_cursor>>}
      /\ pass' = 0
  BY DEF SearchPage
<1>2. PICK c \in 0 .. _nb_pages, f \in 0 .. nb_pages :
        /\ Candidate[1] = c /\ Candidate[2] = f
        /\ f > 0 => c + f = _page_cursor + 1 /\ IsFreeRun(c, f)
  BY <1>1, CandidateRun
<1>3. /\ c \in PageNo /\ _page_cursor \in PageNo /\ c <= _page_cursor
      /\ \A p \in c .. _page_cursor : p \in _free_page
  <2>1. f = nb_pages /\ f > 0 /\ c + f = _page_cursor + 1
    BY <1>2, RangeTypes
  <2>2. c + f - 1 = _page_cursor /\ c <= _page_cursor
    BY <1>2, <2>1, RangeTypes
  <2>3. c \in PageNo /\ _page_cursor \in PageNo
    BY <1>1, <2>2, RangeTypes DEF PageNo
  <2>4. \A p \in c .. c + f - 1 : p \in _free_page
    BY <1>2, <2>1 DEF IsFreeRun
  <2> QED
    BY <2>2, <2>3, <2>4
<1>4. RangeTypeOK'
  <2>1. /\ _free_page' \subseteq PageNo /\ _page_cursor' \in 0 .. _nb_pages
        /\ page_candidate' \in 0 .. _nb_pages /\ found_free_pages' \in 0 .. MaxRange
    BY <1>1, <1>2, RangeTypes
  <2>2. answer' \in PageNo \X PageNo /\ held' \subseteq PageNo \X PageNo
    BY <1>1, <1>2, <1>3, RangeTypes
  <2> QED
    BY <1>1, <2>1, <2>2, RangeTypes DEF RangeTypeOK
<1> DEFINE new == <<c, _page_cursor>>
<1>5. Pages(new) = c .. _page_cursor
  BY DEF Pages
<1>6. /\ held' = held \cup {new} /\ _free_page' = _free_page \ Pages(new)
  BY <1>1, <1>2, <1>5
<1>7. /\ \A p \in PageNo : p \in _free_page <=> \A r \in held : p \notin Pages(r)
      /\ \A r, s \in held : r # s => Pages(r) \cap Pages(s) = {}
  BY DEF RangesInv, RangesDisjoint
<1>8. \A p \in Pages(new) : p \in _free_page /\ p \in PageNo
  BY <1>3, <1>5, RangeTypes
<1> HIDE DEF new
<1>9. \A r \in held : Pages(r) \cap Pages(new) = {}
  BY <1>7, <1>8
<1>10. \A p \in PageNo : p \in _free_page' <=> \A r \in held' : p \notin Pages(r)
  BY <1>6, <1>7
<1>11. \A r, s \in held' : r # s => Pages(r) \cap Pages(s) = {}
  BY <1>6, <1>7, <1>9
<1>12. RangesDisjoint'
  BY <1>10, <1>11 DEF RangesDisjoint, PageNo, Pages
<1>13. SearchInv'
  BY <1>1 DEF SearchInv
<1>14. answer' # NoRange
  BY <1>1, <1>2, <1>3, RangeTypes DEF NoRange, PageNo
<1> QED
  BY <1>4, <1>12, <1>13, <1>14 DEF RangesInv

\* The end of a pass.
LEMMA EndOfPassRanges == ASSUME RangesInv, EndOfPass PROVE RangesInv'
<1>1. RangesDisjoint'
  BY DEF EndOfPass, RangesInv, RangesDisjoint
<1>2. CASE pass = 1
  <2>1. /\ pass' = 2 /\ _page_cursor' = 0 /\ page_candidate' = _nb_pages /\ found_free_pages' = 0
        /\ UNCHANGED <<_free_page, nb_pages, held, answer>>
    BY <1>2 DEF EndOfPass
  <2>2. RangeTypeOK'
    BY <2>1, RangeTypes DEF RangeTypeOK
  <2>3. SearchInv'
    BY <2>1, RangeTypes DEF SearchInv
  <2> QED
    BY <1>1, <2>2, <2>3 DEF RangesInv
<1>3. CASE pass = 2
  <2>1. /\ pass' = 0 /\ answer' = NoRange
        /\ UNCHANGED <<_page_cursor, page_candidate, found_free_pages, _free_page, nb_pages, held>>
    BY <1>3 DEF EndOfPass
  <2>2. RangeTypeOK'
    BY <2>1, RangeTypes DEF RangeTypeOK
  <2>3. SearchInv'
    BY <2>1 DEF SearchInv
  <2> QED
    BY <1>1, <2>2, <2>3 DEF RangesInv
<1> QED
  BY <1>2, <1>3 DEF EndOfPass

\* The start of a search.
LEMMA FreshPagesRanges ==
  ASSUME RangesInv, NEW n \in 1 .. MaxRange, fresh_pages(n)
  PROVE  RangesInv'
<1>1. /\ pass' = 1 /\ nb_pages' = n /\ page_candidate' = _nb_pages /\ found_free_pages' = 0
      /\ UNCHANGED <<_free_page, _page_cursor, answer, held>>
  BY DEF fresh_pages
<1>2. RangeTypeOK'
  BY <1>1, RangeTypes DEF RangeTypeOK
<1>3. RangesDisjoint' /\ SearchInv'
  BY <1>1, RangeTypes DEF RangesInv, RangesDisjoint, SearchInv
<1> QED
  BY <1>2, <1>3 DEF RangesInv

\* A range that is given back.
LEMMA FreePagesRanges ==
  ASSUME RangesInv, NEW range \in held, free_pages(range)
  PROVE  RangesInv'
<1>1. /\ pass = 0 /\ pass' = 0 /\ _free_page' = _free_page \cup Pages(range) /\ held' = held \ {range}
      /\ UNCHANGED <<_page_cursor, nb_pages, page_candidate, found_free_pages, answer>>
  BY DEF free_pages, searchVars, Pages
<1>2. range \in PageNo \X PageNo
  BY RangeTypes
<1>3. Pages(range) \subseteq PageNo
  BY <1>2, RangeTypes DEF Pages, PageNo
<1>4. RangeTypeOK'
  BY <1>1, <1>3, RangeTypes DEF RangeTypeOK
<1>5. /\ \A p \in PageNo : p \in _free_page <=> \A r \in held : p \notin Pages(r)
      /\ \A r, s \in held : r # s => Pages(r) \cap Pages(s) = {}
  BY DEF RangesInv, RangesDisjoint
<1>6. /\ \A p \in PageNo : p \in _free_page' <=> \A r \in held' : p \notin Pages(r)
      /\ \A r, s \in held' : r # s => Pages(r) \cap Pages(s) = {}
  BY <1>1, <1>5
<1>7. RangesDisjoint'
  BY <1>6 DEF RangesDisjoint, PageNo, Pages
<1>8. SearchInv'
  BY <1>1 DEF SearchInv
<1> QED
  BY <1>4, <1>7, <1>8 DEF RangesInv

\* Every operation keeps it.
LEMMA NextRanges == ASSUME RangesInv, [RangeNext]_rangeVars PROVE RangesInv'
<1>1. CASE \E n \in 1 .. MaxRange : fresh_pages(n)
  BY <1>1, FreshPagesRanges
<1>2. CASE SearchPage
  BY <1>2, SearchOn, SearchFinds
<1>3. CASE EndOfPass
  BY <1>3, EndOfPassRanges
<1>4. CASE \E range \in held : free_pages(range)
  BY <1>4, FreePagesRanges
<1>5. CASE UNCHANGED rangeVars
  BY <1>5 DEF rangeVars, searchVars, RangesInv, RangeTypeOK, RangesDisjoint, SearchInv, IsFreeRun
<1> QED
  BY <1>1, <1>2, <1>3, <1>4, <1>5 DEF RangeNext

\* The ranges handed out are disjoint, and a search gives up only when there is no range.
THEOREM RangesCorrect == RangeSpec => RangesAreSafe
<1>1. RangeInit => RangesInv
  BY InitRanges
<1>2. RangesInv /\ [RangeNext]_rangeVars => RangesInv'
  BY NextRanges
<1>3. ASSUME RangesInv, [RangeNext]_rangeVars
      PROVE  [pass # 0 /\ pass' = 0 /\ answer' = NoRange => \A p \in PageNo : ~IsFreeRun(p, nb_pages)]_rangeVars
  <2> SUFFICES ASSUME RangeNext, pass # 0, pass' = 0, answer' = NoRange, NEW p \in PageNo
               PROVE  ~IsFreeRun(p, nb_pages)
    BY <1>3
  <2>1. ~SearchPage
    BY <1>3, SearchFinds DEF SearchPage
  <2>2. EndOfPass
    BY <2>1 DEF RangeNext, fresh_pages, free_pages
  <2>3. pass = 2 /\ _page_cursor = _nb_pages
    BY <2>2 DEF EndOfPass
  <2>4. \A q \in 0 .. _page_cursor : q + nb_pages <= _page_cursor => ~IsFreeRun(q, nb_pages)
    BY <1>3, <2>3 DEF RangesInv, SearchInv
  <2>5. p \in 0 .. _page_cursor
    BY <1>3, <2>3, RangeTypes DEF PageNo
  <2> QED
    BY <2>3, <2>4, <2>5 DEF IsFreeRun
<1> QED
  BY <1>1, <1>2, <1>3, PTL DEF RangeSpec, RangesAreSafe, FailsOnlyWhenFull

(***************************************************************************)
(* The heap. The invariant speaks of any sequence of blocks, since         *)
(* krealloc() allocates on the blocks that kfree() leaves. A block ends    *)
(* before every later header, not only before the next: that is what the   *)
(* search from the head by address relies on. All of it is mapped, also    *)
(* when a later extension fails half way.                                  *)
(***************************************************************************)

\* Each block lies between its header and the end, names the one before, and a free one is whole.
BlockOK(bs, i, size, va_end) ==
  /\ data(bs[i]) <= bs[i].ptr
  /\ bs[i].ptr + bs[i].size <= size /\ bs[i].ptr + bs[i].size <= va_end
  /\ bs[i].previous = IF i = 1 THEN null_block ELSE bs[i - 1].at
  /\ bs[i].is_free => bs[i].ptr = data(bs[i])

BlocksOK(bs, size, va_end) ==
  /\ bs \in Seq(Block) /\ size \in Nat /\ va_end \in Nat
  /\ \A i \in 1 .. Len(bs) : BlockOK(bs, i, size, va_end)
  /\ \A i, j \in 1 .. Len(bs) : i < j => bs[i].ptr + bs[i].size <= bs[j].at

\* Only at the positions in E are a block and the next one both free.
FreePairs(bs, E) == \A i \in 1 .. Len(bs) - 1 : bs[i].is_free /\ bs[i + 1].is_free => i \in E

\* A live allocation has a block.
Holds(bs, i, r) == bs[i].ptr = r[1] /\ ~bs[i].is_free /\ r[2] <= bs[i].size

HeldOK(bs, alive) ==
  /\ alive \subseteq Nat \X (Nat \ {0})
  /\ \A r \in alive : \E i \in 1 .. Len(bs) : Holds(bs, i, r)
  /\ \A r, s \in alive : r # s => r[1] # s[1]

HeapOK(bs, alive, size, va_end) == BlocksOK(bs, size, va_end) /\ FreePairs(bs, {}) /\ HeldOK(bs, alive)

HeapInv == HeapOK(blocks, live, _heap_byte_size, _heap_va_end)

\* Aligning rounds up.
LEMMA AlignsUp ==
  ASSUME NEW v \in Nat, NEW a \in Nat \ {0}
  PROVE  align_to_next(v, a) \in Nat /\ align_to_next(v, a) >= v
<1> DEFINE w == v + a - 1
<1>1. w \in Nat
  OBVIOUS
<1> HIDE DEF w
<1>2. w \div a \in Nat /\ w <= (w \div a) * a + a - 1
  BY <1>1
<1>3. (w \div a) * a \in Nat
  BY <1>2
<1> QED
  BY <1>2, <1>3 DEF align_to_next, w

\* The fields of a block.
LEMMA BlockFields ==
  ASSUME NEW b \in Block
  PROVE  /\ b.at \in Nat /\ b.size \in Nat /\ b.ptr \in Nat /\ b.is_free \in BOOLEAN
         /\ data(b) = b.at + META_BLOCK_SIZE /\ data(b) \in Nat /\ data(b) > b.at
  BY HeapAssumption DEF Block, data

\* A block with another size, or with another previous pointer.
LEMMA ResizedBlock ==
  ASSUME NEW b \in Block, NEW n \in Nat
  PROVE  LET c == [b EXCEPT !.size = n]
         IN /\ c \in Block /\ c.size = n
            /\ c.at = b.at /\ c.ptr = b.ptr /\ c.is_free = b.is_free /\ c.previous = b.previous
  BY DEF Block

LEMMA RelinkedBlock ==
  ASSUME NEW b \in Block, NEW p \in Nat
  PROVE  LET c == [b EXCEPT !.previous = p]
         IN /\ c \in Block /\ c.previous = p
            /\ c.at = b.at /\ c.ptr = b.ptr /\ c.is_free = b.is_free /\ c.size = b.size
  BY DEF Block

\* The block c is b, but for its size and its previous pointer.
SameBlock(c, b) == c.at = b.at /\ c.ptr = b.ptr /\ c.is_free = b.is_free

\* merge_block() takes block i + 1 out and gives its bytes to block i.
Merged(m, bs, i) ==
  /\ m \in Seq(Block) /\ Len(m) = Len(bs) - 1
  /\ \A k \in 1 .. i - 1 : m[k] = bs[k]
  /\ SameBlock(m[i], bs[i]) /\ m[i].previous = bs[i].previous
  /\ m[i].size = bs[i].size + bs[i + 1].size + META_BLOCK_SIZE
  /\ \A k \in i + 1 .. Len(m) :
       /\ SameBlock(m[k], bs[k + 1]) /\ m[k].size = bs[k + 1].size
       /\ m[k].previous = IF k = i + 1 THEN bs[i].at ELSE bs[k + 1].previous

\* The two branches of merge_block(): the block behind the merged ones names the left one.
LEMMA MergeShape ==
  ASSUME NEW bs \in Seq(Block), NEW i \in 1 .. Len(bs) - 1
  PROVE  Merged(merge_block(bs, i), bs, i)
<1> DEFINE n == bs[i].size + bs[i + 1].size + META_BLOCK_SIZE
           left == [bs[i] EXCEPT !.size = n]
           front == SubSeq(bs, 1, i - 1)
           right == SubSeq(bs, i + 2, Len(bs))
           new == [right[1] EXCEPT !.previous = bs[i].at]
           back == IF right = <<>> THEN <<>> ELSE <<new>> \o Tail(right)
           m == front \o <<left>> \o back
<1>1. m = merge_block(bs, i)
  BY DEF merge_block
<1>0. Len(bs) \in Nat /\ i \in Nat /\ i >= 1 /\ i + 1 <= Len(bs)
  OBVIOUS
<1>2. \A k \in 1 .. Len(bs) : bs[k] \in Block
  OBVIOUS
<1>3. front \in Seq(Block) /\ Len(front) = i - 1 /\ \A k \in 1 .. i - 1 : front[k] = bs[k]
  OBVIOUS
<1>4. left \in Block /\ SameBlock(left, bs[i]) /\ left.previous = bs[i].previous /\ left.size = n
  <2>1. bs[i] \in Block /\ bs[i + 1] \in Block
    OBVIOUS
  <2>2. n \in Nat
    BY <2>1, BlockFields, HeapAssumption
  <2> HIDE DEF n
  <2> QED
    BY <2>1, <2>2, ResizedBlock DEF SameBlock
<1>5. right \in Seq(Block) /\ Len(right) = Len(bs) - i - 1 /\ \A k \in 1 .. Len(right) : right[k] = bs[k + i + 1]
  OBVIOUS
<1>6. /\ back \in Seq(Block) /\ Len(back) = Len(bs) - i - 1
      /\ \A k \in 1 .. Len(back) :
           /\ SameBlock(back[k], bs[k + i + 1]) /\ back[k].size = bs[k + i + 1].size
           /\ back[k].previous = IF k = 1 THEN bs[i].at ELSE bs[k + i + 1].previous
  <2>1. CASE right = <<>>
    <3> HIDE DEF right
    <3>1. back = <<>>
      BY <2>1
    <3> HIDE DEF back
    <3>2. Len(right) = 0 /\ Len(back) = 0 /\ back \in Seq(Block)
      BY <2>1, <3>1
    <3> QED
      BY <1>5, <3>2
  <2>2. CASE right # <<>>
    <3> HIDE DEF right
    <3>1. Len(right) >= 1 /\ right[1] \in Block /\ right[1] = bs[i + 2] /\ bs[i] \in Block
      BY <1>2, <1>5, <2>2
    <3>2. /\ new \in Block /\ SameBlock(new, bs[i + 2]) /\ new.size = bs[i + 2].size
          /\ new.previous = bs[i].at
      <4>1. bs[i].at \in Nat
        BY <3>1 DEF Block
      <4> QED
        BY <4>1, <3>1, RelinkedBlock DEF SameBlock
    <3>3. Tail(right) \in Seq(Block) /\ Len(Tail(right)) = Len(right) - 1
          /\ \A k \in 1 .. Len(right) - 1 : Tail(right)[k] = right[k + 1]
      BY <1>5, <2>2
    <3>4. back = <<new>> \o Tail(right)
      BY <2>2
    <3> HIDE DEF new, back
    <3>5. back \in Seq(Block) /\ Len(back) = Len(right) /\ back[1] = new
          /\ \A k \in 2 .. Len(right) : back[k] = Tail(right)[k - 1]
      <4>1. <<new>> \in Seq(Block) /\ Len(<<new>>) = 1 /\ <<new>>[1] = new
        BY <3>2
      <4> QED
        BY <4>1, <3>1, <3>3, <3>4, ConcatFacts
    <3>6. ASSUME NEW k \in 2 .. Len(back)
          PROVE  back[k] = bs[k + i + 1]
      <4>1. k - 1 \in 1 .. Len(right) - 1 /\ k \in 1 .. Len(right) /\ (k - 1) + 1 = k
        BY <1>5, <3>5
      <4> QED
        BY <4>1, <1>5, <3>3, <3>5
    <3>7. ASSUME NEW k \in 1 .. Len(back)
          PROVE  /\ SameBlock(back[k], bs[k + i + 1]) /\ back[k].size = bs[k + i + 1].size
                 /\ back[k].previous = IF k = 1 THEN bs[i].at ELSE bs[k + i + 1].previous
      <4>1. CASE k = 1
        <5>1. back[k] = new /\ k + i + 1 = i + 2
          BY <1>0, <3>5, <4>1
        <5> QED
          BY <3>2, <4>1, <5>1
      <4>2. CASE k # 1
        <5>1. back[k] = bs[k + i + 1]
          BY <3>6, <4>2
        <5> QED
          BY <4>2, <5>1 DEF SameBlock
      <4> QED
        BY <4>1, <4>2
    <3> QED
      BY <1>5, <3>5, <3>7
  <2> QED
    BY <2>1, <2>2
<1> DEFINE fl == front \o <<left>>
<1> HIDE DEF n, left, front, right, back
<1>7. fl \in Seq(Block) /\ Len(fl) = i /\ (\A k \in 1 .. i - 1 : fl[k] = bs[k]) /\ fl[i] = left
  <2>1. <<left>> \in Seq(Block) /\ Len(<<left>>) = 1 /\ <<left>>[1] = left
    BY <1>4
  <2> QED
    BY <1>0, <1>3, <2>1, ConcatFacts
<1>8. /\ m \in Seq(Block) /\ Len(m) = Len(bs) - 1
      /\ \A k \in 1 .. i : m[k] = fl[k]
      /\ \A k \in i + 1 .. Len(bs) - 1 : m[k] = back[k - i]
  <2>1. m = fl \o back
    OBVIOUS
  <2> HIDE DEF fl, m
  <2> QED
    BY <1>0, <2>1, <1>6, <1>7, ConcatFacts
<1> HIDE DEF fl, m
<1>9. ASSUME NEW k \in i + 1 .. Len(m)
      PROVE  /\ SameBlock(m[k], bs[k + 1]) /\ m[k].size = bs[k + 1].size
             /\ m[k].previous = IF k = i + 1 THEN bs[i].at ELSE bs[k + 1].previous
  <2>1. k \in Int /\ i + 1 <= k /\ k <= Len(bs) - 1 /\ m[k] = back[k - i]
    BY <1>0, <1>8
  <2>2. Len(back) = Len(bs) - i - 1
    BY <1>6
  <2>3. k - i \in 1 .. Len(back) /\ (k - i) + i + 1 = k + 1 /\ (k - i = 1 <=> k = i + 1)
    BY <1>0, <2>1, <2>2
  <2> QED
    BY <2>1, <2>3, <1>6
<1>10. (\A k \in 1 .. i - 1 : m[k] = bs[k]) /\ m[i] = left
  BY <1>7, <1>8
<1> QED
  BY <1>1, <1>4, <1>8, <1>9, <1>10 DEF Merged, n

\* What ends before a block that ends before an address ends before it.
LEMMA SumsInOrder == \A a, b, c, d, e \in Nat : a + b <= c + d /\ c + d <= e => a + b <= e
  OBVIOUS

\* Merging two free neighbours keeps the blocks in order: the left one ends where the right one did.
LEMMA MergeBlocks ==
  ASSUME NEW bs, NEW size, NEW va_end, BlocksOK(bs, size, va_end),
         NEW i \in 1 .. Len(bs) - 1, bs[i + 1].is_free, NEW m, Merged(m, bs, i)
  PROVE  BlocksOK(m, size, va_end)
<1>1. Len(bs) \in Nat /\ Len(m) = Len(bs) - 1 /\ i \in Nat /\ i >= 1 /\ i + 1 <= Len(bs) /\ m \in Seq(Block)
  BY DEF Merged, BlocksOK
<1>2. \A k \in 1 .. Len(bs) : bs[k] \in Block /\ BlockOK(bs, k, size, va_end)
  BY DEF BlocksOK
<1>3. \A k \in 1 .. Len(m) : m[k] \in Block
  BY <1>1
<1>4. /\ m[i].at = bs[i].at /\ m[i].ptr = bs[i].ptr /\ m[i].is_free = bs[i].is_free
      /\ m[i].previous = bs[i].previous
      /\ m[i].ptr + m[i].size <= bs[i + 1].ptr + bs[i + 1].size
  <2>1. /\ SameBlock(m[i], bs[i]) /\ m[i].previous = bs[i].previous
        /\ m[i].size = bs[i].size + bs[i + 1].size + META_BLOCK_SIZE
    BY DEF Merged
  <2>2. bs[i].ptr + bs[i].size <= bs[i + 1].at /\ bs[i + 1].at + META_BLOCK_SIZE = bs[i + 1].ptr
    <3>1. bs[i].ptr + bs[i].size <= bs[i + 1].at
      BY <1>1 DEF BlocksOK
    <3> QED
      BY <1>1, <1>2, <3>1 DEF BlockOK, data
  <2>3. /\ bs[i].ptr \in Nat /\ bs[i].size \in Nat /\ META_BLOCK_SIZE \in Nat
        /\ bs[i + 1].at \in Nat /\ bs[i + 1].ptr \in Nat /\ bs[i + 1].size \in Nat
    <3>1. bs[i] \in Block /\ bs[i + 1] \in Block
      BY <1>1, <1>2
    <3> QED
      BY <3>1, BlockFields, HeapAssumption
  <2>4. m[i].ptr + m[i].size <= bs[i + 1].ptr + bs[i + 1].size
    <3>1. m[i].ptr = bs[i].ptr
      BY <2>1 DEF SameBlock
    <3>2. m[i].ptr + m[i].size = bs[i].ptr + (bs[i].size + bs[i + 1].size + META_BLOCK_SIZE)
      BY <2>1, <3>1
    <3>3. bs[i].ptr + (bs[i].size + bs[i + 1].size + META_BLOCK_SIZE) <= bs[i + 1].ptr + bs[i + 1].size
      BY <2>2, <2>3
    <3> QED
      BY <3>2, <3>3
  <2> QED
    BY <2>1, <2>4 DEF SameBlock
<1>5. ASSUME NEW k \in 1 .. Len(m) PROVE BlockOK(m, k, size, va_end)
  <2>1. CASE k < i
    <3>1. m[k] = bs[k] /\ (k # 1 => m[k - 1] = bs[k - 1]) /\ k \in 1 .. Len(bs)
      <4>1. k \in 1 .. i - 1 /\ k \in 1 .. Len(bs) /\ (k # 1 => k - 1 \in 1 .. i - 1)
        BY <1>1, <2>1
      <4> QED
        BY <4>1 DEF Merged
    <3> QED
      BY <1>2, <3>1 DEF BlockOK
  <2>2. CASE k = i
    <3>1. k # 1 => m[k - 1] = bs[k - 1]
      BY <1>1, <2>2 DEF Merged
    <3>2. BlockOK(bs, i, size, va_end) /\ BlockOK(bs, i + 1, size, va_end) /\ bs[i] \in Block
          /\ bs[i + 1] \in Block /\ m[i] \in Block
      BY <1>1, <1>2, <1>3
    <3>3. bs[i + 1].ptr + bs[i + 1].size <= size /\ bs[i + 1].ptr + bs[i + 1].size <= va_end
          /\ size \in Nat /\ va_end \in Nat
      BY <3>2 DEF BlockOK, BlocksOK
    <3>4. m[i].ptr + m[i].size <= size /\ m[i].ptr + m[i].size <= va_end
      <4>1. m[i].ptr \in Nat /\ m[i].size \in Nat /\ bs[i + 1].ptr \in Nat /\ bs[i + 1].size \in Nat
        BY <3>2, BlockFields
      <4>2. m[i].ptr + m[i].size <= bs[i + 1].ptr + bs[i + 1].size
        BY <1>4
      <4>3. size \in Nat /\ va_end \in Nat
        BY <3>3
      <4> QED
        BY <3>3, <4>1, <4>2, <4>3, SumsInOrder, Zenon
    <3> QED
      BY <1>4, <2>2, <3>1, <3>2, <3>4 DEF BlockOK, data
  <2>3. CASE k > i
    <3>1. k + 1 \in 1 .. Len(bs) /\ k \in i + 1 .. Len(m) /\ k \in 1 .. Len(bs)
      BY <1>1, <2>3
    <3>2. /\ SameBlock(m[k], bs[k + 1]) /\ m[k].size = bs[k + 1].size
          /\ m[k].previous = IF k = i + 1 THEN bs[i].at ELSE bs[k + 1].previous
      BY <3>1 DEF Merged
    <3>3. BlockOK(bs, k + 1, size, va_end) /\ k # 1 /\ k + 1 # 1 /\ (k + 1) - 1 = k
      BY <1>1, <1>2, <2>3, <3>1
    <3>4. m[k].previous = m[k - 1].at
      <4>1. CASE k = i + 1
        BY <1>1, <1>4, <3>2, <4>1
      <4>2. CASE k # i + 1
        <5>1. k - 1 \in i + 1 .. Len(m) /\ (k - 1) + 1 = k
          BY <1>1, <2>3, <4>2
        <5>2. m[k - 1].at = bs[k].at
          BY <5>1 DEF Merged, SameBlock
        <5> QED
          BY <3>2, <3>3, <4>2, <5>2 DEF BlockOK
      <4> QED
        BY <4>1, <4>2
    <3> QED
      BY <3>2, <3>3, <3>4 DEF BlockOK, SameBlock, data
  <2> QED
    BY <1>1, <2>1, <2>2, <2>3
<1>6. ASSUME NEW k \in 1 .. Len(m), NEW l \in 1 .. Len(m), k < l PROVE m[k].ptr + m[k].size <= m[l].at
  <2>1. ASSUME NEW j \in 1 .. Len(m)
        PROVE  \E p \in 1 .. Len(bs) : /\ SameBlock(m[j], bs[p]) /\ (j # i => m[j].size = bs[p].size)
                                      /\ p = IF j <= i THEN j ELSE j + 1
    <3>1. CASE j <= i
      <4>1. j \in 1 .. Len(bs) /\ (j # i => j \in 1 .. i - 1)
        BY <1>1, <3>1
      <4> QED
        BY <1>1, <1>4, <3>1, <4>1 DEF Merged, SameBlock
    <3>2. CASE j > i
      <4>1. j + 1 \in 1 .. Len(bs) /\ j \in i + 1 .. Len(m) /\ ~(j <= i)
        BY <1>1, <3>2
      <4>2. SameBlock(m[j], bs[j + 1]) /\ m[j].size = bs[j + 1].size
        BY <4>1 DEF Merged
      <4> QED
        BY <4>1, <4>2
    <3> QED
      BY <1>1, <3>1, <3>2
  <2>2. PICK p \in 1 .. Len(bs) : /\ SameBlock(m[k], bs[p]) /\ (k # i => m[k].size = bs[p].size)
                                 /\ p = IF k <= i THEN k ELSE k + 1
    BY <2>1
  <2>3. PICK q \in 1 .. Len(bs) : SameBlock(m[l], bs[q]) /\ q = IF l <= i THEN l ELSE l + 1
    BY <2>1
  <2>6. p < q /\ (k = i => i + 1 < q)
    BY <1>1, <1>6, <2>2, <2>3
  <2>4. CASE k # i
    BY <2>2, <2>3, <2>4, <2>6 DEF BlocksOK, SameBlock
  <2>5. CASE k = i
    <3>1. bs[i + 1].ptr + bs[i + 1].size <= bs[q].at
      BY <1>1, <2>5, <2>6 DEF BlocksOK
    <3>2. bs[q] \in Block /\ bs[i + 1] \in Block /\ m[i] \in Block
      BY <1>1, <1>2, <1>3
    <3>3. /\ m[i].ptr \in Nat /\ m[i].size \in Nat /\ bs[i + 1].ptr \in Nat /\ bs[i + 1].size \in Nat
          /\ bs[q].at \in Nat
      BY <3>2, BlockFields
    <3>4. m[i].ptr + m[i].size <= bs[i + 1].ptr + bs[i + 1].size
      BY <1>4
    <3>6. m[i].ptr + m[i].size <= bs[q].at
      BY <3>1, <3>3, <3>4, SumsInOrder, Zenon
    <3> QED
      BY <2>3, <2>5, <3>6 DEF SameBlock
  <2> QED
    BY <2>4, <2>5
<1> QED
  BY <1>1, <1>5, <1>6 DEF BlocksOK

\* Merging at i leaves no free neighbours at i, if the block behind the right one is not free.
LEMMA MergePairs ==
  ASSUME NEW bs \in Seq(Block), NEW i \in 1 .. Len(bs) - 1, NEW E, E \subseteq {i - 1, i}, FreePairs(bs, E),
         bs[i].is_free, bs[i + 1].is_free, NEW m, Merged(m, bs, i)
  PROVE  FreePairs(m, E \ {i})
<1>1. Len(bs) \in Nat /\ Len(m) = Len(bs) - 1 /\ i \in Nat /\ i >= 1 /\ i + 1 <= Len(bs)
  BY DEF Merged
<1>2. \A k \in 1 .. Len(m) : m[k].is_free = IF k <= i THEN bs[k].is_free ELSE bs[k + 1].is_free
  <2> TAKE k \in 1 .. Len(m)
  <2>1. CASE k < i
    BY <1>1, <2>1 DEF Merged
  <2>2. CASE k = i
    BY <1>1, <2>2 DEF Merged, SameBlock
  <2>3. CASE k > i
    <3>1. k \in i + 1 .. Len(m)
      BY <1>1, <2>3
    <3> QED
      BY <1>1, <2>3, <3>1 DEF Merged, SameBlock
  <2> QED
    BY <1>1, <2>1, <2>2, <2>3
<1>3. ASSUME NEW k \in 1 .. Len(m) - 1, m[k].is_free, m[k + 1].is_free PROVE k \in E \ {i}
  <2>1. k \in 1 .. Len(m) /\ k + 1 \in 1 .. Len(m)
    BY <1>1
  <2>2. CASE k < i
    <3>1. bs[k].is_free /\ bs[k + 1].is_free
      BY <1>1, <1>2, <1>3, <2>1, <2>2
    <3> QED
      BY <1>1, <2>2, <3>1 DEF FreePairs
  <2>3. CASE k >= i
    <3>1. bs[k + 1].is_free /\ bs[k + 1 + 1].is_free
      <4>1. CASE k = i
        BY <1>1, <1>2, <1>3, <2>1, <4>1
      <4>2. CASE k # i
        BY <1>1, <1>2, <1>3, <2>1, <2>3, <4>2
      <4> QED
        BY <4>1, <4>2
    <3>2. k + 1 \in 1 .. Len(bs) - 1 /\ k + 1 # i - 1 /\ k + 1 # i
      BY <1>1, <2>3
    <3> QED
      BY <3>1, <3>2 DEF FreePairs
  <2> QED
    BY <1>1, <2>2, <2>3
<1> QED
  BY <1>3 DEF FreePairs

\* The blocks of the allocations that stay are not merged away.
LEMMA MergeHeld ==
  ASSUME NEW bs \in Seq(Block), NEW i \in 1 .. Len(bs) - 1, NEW alive, HeldOK(bs, alive),
         bs[i].is_free, bs[i + 1].is_free, NEW m, Merged(m, bs, i)
  PROVE  HeldOK(m, alive)
<1>1. Len(bs) \in Nat /\ Len(m) = Len(bs) - 1 /\ i \in Nat /\ i >= 1 /\ i + 1 <= Len(bs)
  BY DEF Merged
<1>2. ASSUME NEW r \in alive PROVE \E k \in 1 .. Len(m) : Holds(m, k, r)
  <2>1. PICK j \in 1 .. Len(bs) : Holds(bs, j, r)
    BY DEF HeldOK
  <2>2. j # i /\ j # i + 1
    BY <2>1 DEF Holds
  <2>3. CASE j < i
    <3>1. j \in 1 .. Len(m) /\ m[j] = bs[j]
      BY <1>1, <2>3 DEF Merged
    <3> QED
      BY <2>1, <3>1 DEF Holds
  <2>4. CASE j > i
    <3>1. j - 1 \in i + 1 .. Len(m) /\ (j - 1) + 1 = j /\ j - 1 \in 1 .. Len(m)
      BY <1>1, <2>2, <2>4
    <3>2. SameBlock(m[j - 1], bs[j]) /\ m[j - 1].size = bs[j].size
      BY <3>1 DEF Merged
    <3> QED
      BY <2>1, <3>1, <3>2 DEF Holds, SameBlock
  <2> QED
    BY <1>1, <2>2, <2>3, <2>4
<1> QED
  BY <1>2 DEF HeldOK

\* get_block_addr() finds a block that is not empty by its pointer: every earlier block ends before it.
LEMMA BlockAt ==
  ASSUME HeapInv, NEW i \in 1 .. Len(blocks), blocks[i].size # 0
  PROVE  get_block_addr(blocks[i].ptr) = i /\ blocks[i].ptr < _heap_byte_size
<1> DEFINE a == blocks[i].ptr
           reach == {j \in 1 .. Len(blocks) : blocks[j].ptr + blocks[j].size >= a}
           first == CHOOSE j \in reach : \A k \in reach : j <= k
<1>1. \A j \in 1 .. Len(blocks) :
        /\ blocks[j].ptr \in Nat /\ blocks[j].size \in Nat /\ blocks[j].at \in Nat /\ blocks[j].at < blocks[j].ptr
        /\ blocks[j].ptr + blocks[j].size <= _heap_byte_size
  <2> TAKE j \in 1 .. Len(blocks)
  <2>1. blocks[j] \in Block /\ BlockOK(blocks, j, _heap_byte_size, _heap_va_end)
    BY DEF HeapInv, HeapOK, BlocksOK
  <2>2. data(blocks[j]) <= blocks[j].ptr
    BY <2>1 DEF BlockOK
  <2> QED
    BY <2>1, <2>2, BlockFields DEF BlockOK
<1>2. _heap_byte_size \in Nat /\ Len(blocks) \in Nat
  BY DEF HeapInv, HeapOK, BlocksOK
<1>3. a < _heap_byte_size
  BY <1>1, <1>2
<1>4. i \in reach
  BY <1>1
<1>5. \A j \in reach : i <= j
  <2> SUFFICES ASSUME NEW j \in 1 .. Len(blocks), j < i PROVE ~(blocks[j].ptr + blocks[j].size >= a)
    BY <1>2
  <2>1. blocks[j].ptr + blocks[j].size <= blocks[i].at
    BY DEF HeapInv, HeapOK, BlocksOK
  <2> QED
    BY <1>1, <2>1
<1>6. first = i
  <2>1. first \in reach /\ \A k \in reach : first <= k
    BY <1>4, <1>5
  <2>2. first <= i /\ i <= first
    BY <1>4, <1>5, <2>1
  <2> QED
    BY <1>2, <2>1, <2>2
<1>7. get_block_addr(a) = IF a >= _heap_byte_size \/ reach = {} \/ blocks[first].ptr > a THEN 0 ELSE first
  BY DEF get_block_addr
<1> HIDE DEF reach, first
<1> QED
  BY <1>1, <1>2, <1>3, <1>4, <1>6, <1>7

\* The block that kfree() finds gets back the bytes before its data.
Freed(ptr, i) ==
  [blocks EXCEPT ![i] = [blocks[i] EXCEPT !.is_free = TRUE, !.ptr = data(blocks[i]),
                                          !.size = blocks[i].size + ptr - data(blocks[i])]]

\* Freeing a block, before the merges: only it and a neighbour can now both be free.
LEMMA FreedKeeps ==
  ASSUME HeapInv, NEW r \in live, NEW i \in 1 .. Len(blocks), Holds(blocks, i, r)
  PROVE  /\ BlocksOK(Freed(r[1], i), _heap_byte_size, _heap_va_end)
         /\ FreePairs(Freed(r[1], i), {i - 1, i})
         /\ HeldOK(Freed(r[1], i), live \ {r})
         /\ Len(Freed(r[1], i)) = Len(blocks) /\ Freed(r[1], i)[i].is_free
<1> DEFINE b == blocks[i]
           n == b.size + r[1] - data(b)
           c == [b EXCEPT !.is_free = TRUE, !.ptr = data(b), !.size = n]
           bs == Freed(r[1], i)
<1>1. BlocksOK(blocks, _heap_byte_size, _heap_va_end) /\ blocks \in Seq(Block) /\ Len(blocks) \in Nat
  BY DEF HeapInv, HeapOK, BlocksOK
<1>2. \A k \in 1 .. Len(blocks) : blocks[k] \in Block /\ BlockOK(blocks, k, _heap_byte_size, _heap_va_end)
  BY <1>1 DEF BlocksOK
<1>3. b \in Block /\ b.ptr = r[1] /\ data(b) <= b.ptr /\ ~b.is_free
  BY <1>2 DEF BlockOK, Holds
<1>4. b.size \in Nat /\ b.ptr \in Nat /\ data(b) \in Nat
  BY <1>3, BlockFields
<1>5. n \in Nat /\ data(b) + n = b.ptr + b.size
  <2> HIDE DEF b
  <2> QED
    BY <1>3, <1>4
<1>6. /\ c \in Block /\ c.ptr = data(b) /\ c.is_free = TRUE /\ c.at = b.at /\ c.previous = b.previous
      /\ c.ptr + c.size = b.ptr + b.size /\ data(c) = data(b)
  <2> HIDE DEF b, n
  <2>1. c \in Block /\ c.size = n /\ c.ptr = data(b) /\ c.is_free = TRUE /\ c.at = b.at /\ c.previous = b.previous
    BY <1>3, <1>4, <1>5 DEF Block
  <2> QED
    BY <1>5, <2>1 DEF data
<1>7. bs = [blocks EXCEPT ![i] = c]
  BY DEF Freed
<1> HIDE DEF c, b, n, bs
<1>8. bs \in Seq(Block) /\ Len(bs) = Len(blocks) /\ bs[i] = c /\ \A k \in 1 .. Len(blocks) : k # i => bs[k] = blocks[k]
  BY <1>1, <1>6, <1>7
<1>9. ASSUME NEW k \in 1 .. Len(bs) PROVE bs[k].at = blocks[k].at /\ bs[k].previous = blocks[k].previous
                                          /\ bs[k].ptr + bs[k].size = blocks[k].ptr + blocks[k].size
  BY <1>6, <1>8 DEF b
<1>10. ASSUME NEW k \in 1 .. Len(bs) PROVE BlockOK(bs, k, _heap_byte_size, _heap_va_end)
  <2>1. BlockOK(blocks, k, _heap_byte_size, _heap_va_end)
    BY <1>2, <1>8
  <2>2. data(bs[k]) <= bs[k].ptr /\ (bs[k].is_free => bs[k].ptr = data(bs[k]))
    <3>1. CASE k = i
      BY <1>4, <1>6, <1>8, <3>1
    <3>2. CASE k # i
      BY <1>8, <2>1, <3>2 DEF BlockOK
    <3> QED
      BY <3>1, <3>2
  <2>3. bs[k].previous = IF k = 1 THEN null_block ELSE bs[k - 1].at
    <3>1. k # 1 => k - 1 \in 1 .. Len(bs)
      BY <1>1, <1>8
    <3> QED
      BY <1>9, <2>1, <3>1 DEF BlockOK
  <2> QED
    BY <1>9, <2>1, <2>2, <2>3 DEF BlockOK
<1>11. BlocksOK(bs, _heap_byte_size, _heap_va_end)
  <2>1. ASSUME NEW k \in 1 .. Len(bs), NEW l \in 1 .. Len(bs), k < l PROVE bs[k].ptr + bs[k].size <= bs[l].at
    BY <1>1, <1>8, <1>9, <2>1 DEF BlocksOK
  <2> QED
    BY <1>1, <1>8, <1>10, <2>1 DEF BlocksOK
<1>12. FreePairs(bs, {i - 1, i})
  <2> SUFFICES ASSUME NEW k \in 1 .. Len(bs) - 1, bs[k].is_free, bs[k + 1].is_free, k # i, k # i - 1
               PROVE  FALSE
    BY DEF FreePairs
  <2>1. k \in 1 .. Len(blocks) - 1 /\ k + 1 \in 1 .. Len(blocks) /\ k \in 1 .. Len(blocks) /\ k + 1 # i
    BY <1>1, <1>8
  <2>2. blocks[k].is_free /\ blocks[k + 1].is_free
    BY <1>8, <2>1
  <2> QED
    BY <2>1, <2>2 DEF HeapInv, HeapOK, FreePairs
<1>13. HeldOK(bs, live \ {r})
  <2>1. ASSUME NEW s \in live \ {r} PROVE \E k \in 1 .. Len(bs) : Holds(bs, k, s)
    <3>1. PICK k \in 1 .. Len(blocks) : Holds(blocks, k, s)
      BY DEF HeapInv, HeapOK, HeldOK
    <3>2. k # i
      BY <3>1 DEF HeapInv, HeapOK, HeldOK, Holds
    <3> QED
      BY <1>8, <3>1, <3>2 DEF Holds
  <2> QED
    BY <2>1 DEF HeapInv, HeapOK, HeldOK
<1> QED
  BY <1>6, <1>8, <1>11, <1>12, <1>13 DEF bs

\* kfree() leaves a heap without the allocation: it merges to the right, then to the left.
LEMMA FreeKeeps ==
  ASSUME HeapInv, NEW r \in live
  PROVE  HeapOK(kfree(r[1]), live \ {r}, _heap_byte_size, _heap_va_end)
<1>1. BlocksOK(blocks, _heap_byte_size, _heap_va_end) /\ blocks \in Seq(Block) /\ Len(blocks) \in Nat
  BY DEF HeapInv, HeapOK, BlocksOK
<1>2. PICK i \in 1 .. Len(blocks) : Holds(blocks, i, r)
  BY DEF HeapInv, HeapOK, HeldOK
<1>3. get_block_addr(r[1]) = i
  <2>1. r[2] \in Nat \ {0}
    BY DEF HeapInv, HeapOK, HeldOK
  <2>2. blocks[i].size \in Nat
    BY <1>1, BlockFields
  <2>3. blocks[i].size # 0
    BY <1>2, <2>1, <2>2 DEF Holds
  <2> QED
    BY <1>2, <2>3, BlockAt DEF Holds
<1> DEFINE freed == Freed(r[1], i)
           merged == IF i < Len(freed) /\ freed[i + 1].is_free THEN merge_block(freed, i) ELSE freed
           result == IF i > 1 /\ merged[i].previous = merged[i - 1].at /\ merged[i - 1].is_free
                     THEN merge_block(merged, i - 1) ELSE merged
<1>4. kfree(r[1]) = result
  BY <1>3 DEF kfree, Freed
<1> DEFINE Good(bs, E) == /\ BlocksOK(bs, _heap_byte_size, _heap_va_end) /\ FreePairs(bs, E)
                          /\ HeldOK(bs, live \ {r})
<1>5. Good(freed, {i - 1, i}) /\ Len(freed) = Len(blocks) /\ freed[i].is_free
  BY <1>2, FreedKeeps
<1> HIDE DEF freed
<1>6. Good(merged, {i - 1}) /\ merged[i].is_free /\ i \in 1 .. Len(merged)
  <2>1. CASE i < Len(freed) /\ freed[i + 1].is_free
    <3>1. freed \in Seq(Block) /\ i \in 1 .. Len(freed) - 1 /\ Len(freed) \in Nat
      BY <1>5, <2>1 DEF BlocksOK
    <3>2. merged = merge_block(freed, i) /\ Merged(merged, freed, i)
      BY <2>1, <3>1, MergeShape
    <3> HIDE DEF merged
    <3>3. BlocksOK(merged, _heap_byte_size, _heap_va_end)
      BY <1>5, <2>1, <3>1, <3>2, MergeBlocks
    <3>4. FreePairs(merged, {i - 1, i} \ {i})
      BY <1>5, <2>1, <3>1, <3>2, MergePairs
    <3>5. HeldOK(merged, live \ {r})
      BY <1>5, <2>1, <3>1, <3>2, MergeHeld
    <3>6. {i - 1, i} \ {i} = {i - 1}
      BY <3>1
    <3>7. merged[i].is_free /\ i \in 1 .. Len(merged)
      BY <1>5, <3>1, <3>2 DEF Merged, SameBlock
    <3> QED
      BY <3>3, <3>4, <3>5, <3>6, <3>7
  <2>2. CASE ~(i < Len(freed) /\ freed[i + 1].is_free)
    <3>1. merged = freed
      BY <2>2
    <3>2. FreePairs(freed, {i - 1})
      BY <1>1, <1>5, <2>2 DEF FreePairs
    <3> QED
      BY <1>5, <3>1, <3>2
  <2> QED
    BY <2>1, <2>2
<1> HIDE DEF merged
<1>7. merged \in Seq(Block) /\ Len(merged) \in Nat
  BY <1>6 DEF BlocksOK
<1>8. Good(result, {})
  <2>1. CASE i > 1 /\ merged[i - 1].is_free
    <3>1. i - 1 \in 1 .. Len(merged) - 1 /\ (i - 1) + 1 = i
      BY <1>6, <1>7, <2>1
    <3>2. merged[i].previous = merged[i - 1].at
      BY <1>6, <2>1 DEF BlocksOK, BlockOK
    <3>3. result = merge_block(merged, i - 1) /\ Merged(result, merged, i - 1)
      BY <1>7, <2>1, <3>1, <3>2, MergeShape
    <3> HIDE DEF result
    <3>4. BlocksOK(result, _heap_byte_size, _heap_va_end)
      BY <1>6, <2>1, <3>1, <3>3, MergeBlocks
    <3>5. FreePairs(result, {i - 1} \ {i - 1})
      BY <1>6, <1>7, <2>1, <3>1, <3>3, MergePairs
    <3>6. HeldOK(result, live \ {r})
      BY <1>6, <1>7, <2>1, <3>1, <3>3, MergeHeld
    <3>7. {i - 1} \ {i - 1} = {}
      OBVIOUS
    <3> QED
      BY <3>4, <3>5, <3>6, <3>7
  <2>2. CASE ~(i > 1 /\ merged[i - 1].is_free)
    <3>1. result = merged
      BY <2>2
    <3>2. FreePairs(merged, {})
      BY <1>6, <1>7, <2>2 DEF FreePairs
    <3> QED
      BY <1>6, <3>1, <3>2
  <2> QED
    BY <2>1, <2>2
<1> QED
  BY <1>4, <1>8 DEF HeapOK

\* A block that is taken, from its first aligned byte on.
LEMMA TakenBlock ==
  ASSUME NEW b \in Block, NEW alignment \in Nat \ {0}, NEW n \in Nat, b.size >= n + offset(b, alignment)
  PROVE  LET c == take(b, alignment)
         IN /\ c \in Block /\ c.at = b.at /\ c.previous = b.previous /\ ~c.is_free
            /\ b.ptr <= c.ptr /\ c.ptr + c.size = b.ptr + b.size /\ c.size >= n
<1> DEFINE o == offset(b, alignment)
           c == [b EXCEPT !.ptr = b.ptr + o, !.size = b.size - o, !.is_free = FALSE]
<1>1. b.ptr \in Nat /\ b.size \in Nat
  BY BlockFields
<1>2. o \in Nat
  BY <1>1, AlignsUp DEF offset
<1>3. take(b, alignment) = c
  BY DEF take
<1>4. b.size - o \in Nat /\ b.size - o >= n /\ b.ptr + o \in Nat /\ (b.ptr + o) + (b.size - o) = b.ptr + b.size
  BY <1>1, <1>2
<1> HIDE DEF o
<1>5. /\ c \in Block /\ c.at = b.at /\ c.previous = b.previous /\ c.is_free = FALSE
      /\ c.ptr = b.ptr + o /\ c.size = b.size - o
  BY <1>4 DEF Block
<1> QED
  BY <1>1, <1>2, <1>3, <1>4, <1>5

\* Giving a live set one more allocation, whose block is block i.
LEMMA HoldOneMore ==
  ASSUME NEW bs, NEW new, NEW alive, HeldOK(bs, alive), NEW i \in 1 .. Len(new), NEW p \in Nat, NEW n \in Nat \ {0},
         Holds(new, i, <<p, n>>),
         \A r \in alive : r[1] # p /\ \E j \in 1 .. Len(new) : Holds(new, j, r)
  PROVE  HeldOK(new, alive \cup {<<p, n>>})
<1>1. <<p, n>>[1] = p /\ <<p, n>> \in Nat \X (Nat \ {0})
  OBVIOUS
<1>2. \A r, s \in alive \cup {<<p, n>>} : r # s => r[1] # s[1]
  BY <1>1 DEF HeldOK
<1>3. \A r \in alive \cup {<<p, n>>} : \E j \in 1 .. Len(new) : Holds(new, j, r)
  OBVIOUS
<1> QED
  BY <1>1, <1>2, <1>3 DEF HeldOK

\* kmalloc() takes a free block: its bytes stay where they were, and it is nobody else's.
LEMMA TakeKeeps ==
  ASSUME NEW bs, NEW alive, HeapOK(bs, alive, _heap_byte_size, _heap_va_end),
         NEW n \in Nat \ {0}, NEW alignment \in Nat \ {0}, NEW i \in Suitable(bs, n, alignment)
  PROVE  HeapOK([bs EXCEPT ![i] = take(bs[i], alignment)], alive \cup {<<take(bs[i], alignment).ptr, n>>},
                _heap_byte_size, _heap_va_end)
<1> DEFINE b == bs[i]
           c == take(b, alignment)
           new == [bs EXCEPT ![i] = c]
<1>1. /\ BlocksOK(bs, _heap_byte_size, _heap_va_end) /\ bs \in Seq(Block) /\ Len(bs) \in Nat
      /\ FreePairs(bs, {}) /\ HeldOK(bs, alive)
  BY DEF HeapOK, BlocksOK
<1>2. i \in 1 .. Len(bs) /\ b \in Block /\ b.is_free /\ b.size >= n + offset(b, alignment)
  BY <1>1 DEF Suitable
<1>3. /\ c \in Block /\ c.at = b.at /\ c.previous = b.previous /\ ~c.is_free
      /\ b.ptr <= c.ptr /\ c.ptr + c.size = b.ptr + b.size /\ c.size >= n
  BY <1>2, TakenBlock
<1> HIDE DEF c
<1>4. /\ new \in Seq(Block) /\ Len(new) = Len(bs) /\ new[i] = c
      /\ \A k \in 1 .. Len(bs) : k # i => new[k] = bs[k]
  BY <1>1, <1>2, <1>3
<1> HIDE DEF new
<1>5. ASSUME NEW k \in 1 .. Len(new)
      PROVE  /\ new[k].at = bs[k].at /\ new[k].previous = bs[k].previous
             /\ new[k].ptr + new[k].size = bs[k].ptr + bs[k].size /\ (new[k].is_free => bs[k].is_free)
  BY <1>3, <1>4
<1>6. ASSUME NEW k \in 1 .. Len(new) PROVE BlockOK(new, k, _heap_byte_size, _heap_va_end)
  <2>1. BlockOK(bs, k, _heap_byte_size, _heap_va_end)
    BY <1>1, <1>4 DEF BlocksOK
  <2>2. data(new[k]) <= new[k].ptr /\ (new[k].is_free => new[k].ptr = data(new[k]))
    <3>1. CASE k = i
      <4>1. data(b) <= b.ptr /\ data(c) = data(b) /\ data(b) \in Nat /\ b.ptr \in Nat /\ c.ptr \in Nat
        BY <1>2, <1>3, <2>1, <3>1, BlockFields DEF BlockOK, data
      <4> QED
        BY <1>3, <1>4, <3>1, <4>1
    <3>2. CASE k # i
      BY <1>4, <2>1, <3>2 DEF BlockOK
    <3> QED
      BY <3>1, <3>2
  <2>3. new[k].previous = IF k = 1 THEN null_block ELSE new[k - 1].at
    <3>1. k # 1 => k - 1 \in 1 .. Len(new)
      BY <1>1, <1>4
    <3> QED
      BY <1>5, <2>1, <3>1 DEF BlockOK
  <2> QED
    BY <1>5, <2>1, <2>2, <2>3 DEF BlockOK
<1>7. BlocksOK(new, _heap_byte_size, _heap_va_end)
  <2>1. ASSUME NEW k \in 1 .. Len(new), NEW l \in 1 .. Len(new), k < l PROVE new[k].ptr + new[k].size <= new[l].at
    BY <1>1, <1>4, <1>5, <2>1 DEF BlocksOK
  <2> QED
    BY <1>1, <1>4, <1>6, <2>1 DEF BlocksOK
<1>8. FreePairs(new, {})
  <2> SUFFICES ASSUME NEW k \in 1 .. Len(new) - 1, new[k].is_free, new[k + 1].is_free PROVE FALSE
    BY DEF FreePairs
  <2>1. k \in 1 .. Len(new) /\ k + 1 \in 1 .. Len(new) /\ k \in 1 .. Len(bs) - 1
    BY <1>1, <1>4
  <2>2. bs[k].is_free /\ bs[k + 1].is_free
    BY <1>5, <2>1
  <2> QED
    BY <1>1, <2>1, <2>2 DEF FreePairs
<1>9. HeldOK(new, alive \cup {<<c.ptr, n>>})
  <2>1. c.ptr \in Nat /\ c.size \in Nat /\ i \in 1 .. Len(new)
    BY <1>2, <1>3, <1>4, BlockFields
  <2>2. Holds(new, i, <<c.ptr, n>>)
    BY <1>3, <1>4, <2>1 DEF Holds
  <2>3. ASSUME NEW r \in alive PROVE r[1] # c.ptr /\ \E j \in 1 .. Len(new) : Holds(new, j, r)
    <3>1. PICK j \in 1 .. Len(bs) : Holds(bs, j, r)
      BY <1>1 DEF HeldOK
    <3>2. j # i /\ j \in 1 .. Len(new) /\ new[j] = bs[j]
      BY <1>2, <1>4, <3>1 DEF Holds
    <3>3. new[j].ptr # new[i].ptr
      <4>1. r[2] \in Nat \ {0} /\ r[2] <= new[j].size
        BY <1>1, <3>1, <3>2 DEF HeldOK, Holds
      <4>2. /\ new[j].ptr \in Nat /\ new[j].size \in Nat /\ new[i].ptr \in Nat /\ new[i].size \in Nat
            /\ new[j].at \in Nat /\ new[i].at \in Nat /\ new[i].size > 0
            /\ new[j].at < new[j].ptr /\ new[i].at < new[i].ptr
        <5>0. new[j] \in Block /\ new[i] \in Block
          BY <1>4, <2>1, <3>2
        <5>1. data(new[j]) <= new[j].ptr /\ data(new[i]) <= new[i].ptr
          BY <1>6, <2>1, <3>2 DEF BlockOK
        <5>2. new[i].size > 0
          BY <1>3, <1>4, <2>1
        <5>3. ASSUME NEW b1 \in Block, data(b1) <= b1.ptr
              PROVE  b1.ptr \in Nat /\ b1.size \in Nat /\ b1.at \in Nat /\ b1.at < b1.ptr
          BY <5>3, BlockFields
        <5> QED
          BY <5>0, <5>1, <5>2, <5>3
      <4>3. j < i \/ i < j
        BY <1>2, <3>2
      <4>4. new[j].ptr + new[j].size <= new[i].at \/ new[i].ptr + new[i].size <= new[j].at
        BY <1>7, <2>1, <3>2, <4>3 DEF BlocksOK
      <4> QED
        BY <4>2, <4>4
    <3> QED
      BY <1>4, <3>1, <3>2, <3>3 DEF Holds
  <2> QED
    BY <1>1, <2>1, <2>2, <2>3, HoldOneMore
<1> QED
  BY <1>7, <1>8, <1>9 DEF HeapOK, c, new

\* However far change_heap_end() comes, the heap and its pages only grow.
LEMMA HeapGrows ==
  ASSUME NEW size \in Nat, NEW va_end \in Nat, NEW bytes \in Nat, NEW brk \in change_heap_end(size, va_end, bytes)
  PROVE  brk[1] = size + bytes /\ brk[2] \in Nat /\ brk[2] >= va_end
<1> DEFINE end == size + bytes
           missing == IF va_end >= end THEN 0 ELSE (end - va_end + PAGE_SIZE - 1) \div PAGE_SIZE
<1>1. missing \in Int
  <2>1. end - va_end + PAGE_SIZE - 1 \in Int /\ PAGE_SIZE \in Nat /\ PAGE_SIZE > 0
    BY PageSizeAssumption
  <2>2. (end - va_end + PAGE_SIZE - 1) \div PAGE_SIZE \in Int
    BY <2>1
  <2> QED
    BY <2>2
<1>2. PICK k \in 0 .. missing : brk = <<end, va_end + k * PAGE_SIZE>>
  BY DEF change_heap_end
<1> HIDE DEF missing
<1>3. k \in Nat
  BY <1>1
<1>4. k * PAGE_SIZE \in Nat
  BY <1>3, PageSizeAssumption
<1> QED
  BY <1>2, <1>4

\* The blocks are as well in a larger heap with more pages.
LEMMA BlocksInLarger ==
  ASSUME NEW bs, NEW size, NEW va_end, BlocksOK(bs, size, va_end),
         NEW size2 \in Nat, NEW va_end2 \in Nat, size2 >= size, va_end2 >= va_end
  PROVE  BlocksOK(bs, size2, va_end2)
<1>1. bs \in Seq(Block) /\ size \in Nat /\ va_end \in Nat
  BY DEF BlocksOK
<1>2. ASSUME NEW i \in 1 .. Len(bs) PROVE BlockOK(bs, i, size2, va_end2)
  <2>1. BlockOK(bs, i, size, va_end) /\ bs[i] \in Block
    BY <1>1 DEF BlocksOK
  <2>2. bs[i].ptr + bs[i].size \in Nat
    BY <2>1, BlockFields
  <2>3. bs[i].ptr + bs[i].size <= size2 /\ bs[i].ptr + bs[i].size <= va_end2
    <3>1. bs[i].ptr + bs[i].size <= size /\ bs[i].ptr + bs[i].size <= va_end
      BY <2>1 DEF BlockOK
    <3> DEFINE e == bs[i].ptr + bs[i].size
    <3> HIDE DEF e
    <3>2. e \in Nat /\ e <= size /\ e <= va_end
      BY <2>2, <3>1 DEF e
    <3>3. e <= size2 /\ e <= va_end2
      BY <1>1, <3>2
    <3> QED
      BY <3>3 DEF e
  <2> QED
    BY <2>1, <2>3 DEF BlockOK
<1> QED
  BY <1>2 DEF BlocksOK

\* extend_heap(): the new block begins at the old end and reaches to the new one.
LEMMA ExtendKeeps ==
  ASSUME NEW bs, NEW alive, NEW size, NEW va_end, HeapOK(bs, alive, size, va_end),
         NEW n \in Nat \ {0}, NEW alignment \in Nat \ {0},
         NEW size2, size2 = size + heap_offset(size, n, alignment), NEW va_end2 \in Nat, va_end2 >= size2
  PROVE  LET new == extend_heap(bs, size, n, alignment)
         IN HeapOK(new, alive \cup {<<new[Len(new)].ptr, n>>}, size2, va_end2)
<1> DEFINE p == align_to_next(size + META_BLOCK_SIZE, alignment)
           previous == IF bs = <<>> THEN null_block ELSE bs[Len(bs)].at
           b == [at |-> size, size |-> n, previous |-> previous, is_free |-> FALSE, ptr |-> p]
           new == extend_heap(bs, size, n, alignment)
<1>1. /\ BlocksOK(bs, size, va_end) /\ bs \in Seq(Block) /\ Len(bs) \in Nat /\ size \in Nat
      /\ FreePairs(bs, {}) /\ HeldOK(bs, alive)
  BY DEF HeapOK, BlocksOK
<1>2. p \in Nat /\ p >= size + META_BLOCK_SIZE
  <2>1. size + META_BLOCK_SIZE \in Nat
    BY <1>1, HeapAssumption
  <2> QED
    BY <2>1, AlignsUp
<1>3. size2 = p + n
  BY <1>1, <1>2 DEF heap_offset
<1> HIDE DEF p
<1>4. \A k \in 1 .. Len(bs) : bs[k] \in Block
  BY <1>1
<1>5. previous \in Nat \cup {null_block}
  <2>1. CASE bs = <<>>
    BY <2>1
  <2>2. CASE bs # <<>>
    <3>1. bs[Len(bs)] \in Block
      BY <1>1, <2>2
    <3> QED
      BY <2>2, <3>1, BlockFields
  <2> QED
    BY <2>1, <2>2
<1>6. b \in Block /\ b.at = size /\ b.size = n /\ b.previous = previous /\ ~b.is_free /\ b.ptr = p
  <2> HIDE DEF previous
  <2> QED
    BY <1>1, <1>2, <1>5 DEF Block
<1>7. new = Append(bs, b)
  BY DEF extend_heap, p
<1> HIDE DEF b, new, previous
<1>8. /\ new \in Seq(Block) /\ Len(new) = Len(bs) + 1 /\ new[Len(new)] = b
      /\ \A k \in 1 .. Len(bs) : new[k] = bs[k]
  BY <1>1, <1>6, <1>7
<1>9. size2 \in Nat /\ size2 >= size /\ META_BLOCK_SIZE \in Nat \ {0}
  BY <1>1, <1>2, <1>3, HeapAssumption
<1>10. ASSUME NEW k \in 1 .. Len(bs)
       PROVE  /\ new[k] = bs[k] /\ BlockOK(bs, k, size, va_end) /\ bs[k].ptr + bs[k].size <= size
              /\ bs[k].ptr \in Nat /\ bs[k].size \in Nat
  BY <1>1, <1>4, <1>8, BlockFields DEF BlocksOK, BlockOK
<1>11. ASSUME NEW k \in 1 .. Len(new) PROVE BlockOK(new, k, size2, va_end2)
  <2>1. CASE k = Len(new)
    <3>1. new[k] = b /\ k = Len(bs) + 1
      BY <1>8, <2>1
    <3>2. data(b) <= b.ptr
      BY <1>2, <1>6 DEF data
    <3>3. b.ptr + b.size <= size2 /\ b.ptr + b.size <= va_end2
      BY <1>2, <1>3, <1>6, <1>9
    <3>4. b.previous = IF k = 1 THEN null_block ELSE new[k - 1].at
      <4>1. CASE bs = <<>>
        BY <1>6, <3>1, <4>1 DEF previous
      <4>2. CASE bs # <<>>
        <5>1. k # 1 /\ k - 1 = Len(bs) /\ Len(bs) \in 1 .. Len(bs)
          BY <1>1, <3>1, <4>2
        <5> QED
          BY <1>6, <1>8, <4>2, <5>1 DEF previous
      <4> QED
        BY <4>1, <4>2
    <3> QED
      BY <1>6, <3>1, <3>2, <3>3, <3>4 DEF BlockOK
  <2>2. CASE k # Len(new)
    <3>1. k \in 1 .. Len(bs) /\ (k # 1 => k - 1 \in 1 .. Len(bs))
      BY <1>1, <1>8, <2>2
    <3>2. BlockOK(bs, k, size, va_end) /\ new[k] = bs[k] /\ (k # 1 => new[k - 1] = bs[k - 1])
      BY <1>8, <1>10, <3>1
    <3>3. bs[k].ptr + bs[k].size <= size2 /\ bs[k].ptr + bs[k].size <= va_end2
      <4>1. PICK e : e = bs[k].ptr + bs[k].size
        OBVIOUS
      <4>2. e \in Nat /\ e <= size
        BY <1>10, <3>1, <4>1
      <4>3. e <= size2 /\ e <= va_end2
        BY <1>1, <1>9, <4>2
      <4> QED
        BY <4>1, <4>3
    <3> QED
      BY <3>2, <3>3 DEF BlockOK
  <2> QED
    BY <2>1, <2>2
<1>12. BlocksOK(new, size2, va_end2)
  <2>1. ASSUME NEW k \in 1 .. Len(new), NEW l \in 1 .. Len(new), k < l PROVE new[k].ptr + new[k].size <= new[l].at
    <3>1. k \in 1 .. Len(bs) /\ (l = Len(new) \/ l \in 1 .. Len(bs))
      BY <1>1, <1>8, <2>1
    <3>2. CASE l = Len(new)
      BY <1>6, <1>8, <1>10, <3>1, <3>2
    <3>3. CASE l \in 1 .. Len(bs)
      BY <1>1, <1>8, <2>1, <3>1, <3>3 DEF BlocksOK
    <3> QED
      BY <3>1, <3>2, <3>3
  <2> QED
    BY <1>8, <1>9, <1>11, <2>1 DEF BlocksOK
<1>13. FreePairs(new, {})
  <2> SUFFICES ASSUME NEW k \in 1 .. Len(new) - 1, new[k].is_free, new[k + 1].is_free PROVE FALSE
    BY DEF FreePairs
  <2>1. k + 1 # Len(new)
    BY <1>6, <1>8
  <2>2. k \in 1 .. Len(bs) - 1 /\ k \in 1 .. Len(bs) /\ k + 1 \in 1 .. Len(bs)
    BY <1>1, <1>8, <2>1
  <2>3. bs[k].is_free /\ bs[k + 1].is_free
    BY <1>8, <2>2
  <2> QED
    BY <1>1, <2>2, <2>3 DEF FreePairs
<1>14. HeldOK(new, alive \cup {<<p, n>>})
  <2>1. Len(new) \in 1 .. Len(new)
    BY <1>1, <1>8
  <2>2. Holds(new, Len(new), <<p, n>>)
    BY <1>6, <1>8 DEF Holds
  <2>3. ASSUME NEW r \in alive PROVE r[1] # p /\ \E j \in 1 .. Len(new) : Holds(new, j, r)
    <3>1. PICK j \in 1 .. Len(bs) : Holds(bs, j, r)
      BY <1>1 DEF HeldOK
    <3>2. j \in 1 .. Len(new) /\ new[j] = bs[j]
      BY <1>1, <1>8
    <3>3. bs[j].ptr # p
      BY <1>1, <1>2, <1>9, <1>10
    <3> QED
      BY <3>1, <3>2, <3>3 DEF Holds
  <2> QED
    BY <1>1, <1>2, <2>1, <2>2, <2>3, HoldOneMore
<1>15. new[Len(new)].ptr = p
  BY <1>6, <1>8
<1>16. HeapOK(new, alive \cup {<<new[Len(new)].ptr, n>>}, size2, va_end2)
  BY <1>12, <1>13, <1>14, <1>15 DEF HeapOK
<1> QED
  BY <1>16 DEF new

\* kmalloc() leaves a heap, whether it has found a block, extended the heap or failed.
LEMMA MallocKeeps ==
  ASSUME NEW bs, NEW alive, HeapOK(bs, alive, _heap_byte_size, _heap_va_end),
         NEW byte_count \in Nat, NEW align \in Nat, NEW s \in kmalloc(bs, alive, byte_count, align)
  PROVE  HeapOK(s.blocks, s.live, s.size, s.va_end)
<1> DEFINE n == AtLeastOne(byte_count)
           alignment == AtLeastOne(align)
           fits == Suitable(bs, n, alignment)
<1>1. n \in Nat \ {0} /\ alignment \in Nat \ {0}
  BY DEF AtLeastOne
<1> DEFINE i == CHOOSE i \in fits : \A j \in fits : i <= j
           b == take(bs[i], alignment)
           taken == [blocks |-> [bs EXCEPT ![i] = b], size |-> _heap_byte_size, va_end |-> _heap_va_end,
                     live |-> alive \cup {<<b.ptr, n>>}]
           new == extend_heap(bs, _heap_byte_size, n, alignment)
           brks == change_heap_end(_heap_byte_size, _heap_va_end, heap_offset(_heap_byte_size, n, alignment))
           grown(brk) == IF brk[2] >= brk[1]
                         THEN [blocks |-> new, size |-> brk[1], va_end |-> brk[2],
                               live |-> alive \cup {<<new[Len(new)].ptr, n>>}]
                         ELSE [blocks |-> bs, size |-> brk[1], va_end |-> brk[2], live |-> alive]
<1>2. kmalloc(bs, alive, byte_count, align) = IF fits # {} THEN {taken} ELSE {grown(brk) : brk \in brks}
  BY DEF kmalloc
<1>3. CASE fits # {}
  <2>1. i \in fits
    <3>1. fits \subseteq Nat
      BY DEF Suitable
    <3>2. \E x \in fits : \A y \in fits : x <= y
      BY <1>3, <3>1, LeastNatural
    <3> QED
      BY <3>2
  <2>2. HeapOK([bs EXCEPT ![i] = b], alive \cup {<<b.ptr, n>>}, _heap_byte_size, _heap_va_end)
    <3> HIDE DEF n, alignment, i
    <3> QED
      BY <1>1, <2>1, TakeKeeps
  <2>3. s = taken
    BY <1>2, <1>3
  <2> HIDE DEF i, b, n
  <2> QED
    BY <2>2, <2>3
<1>4. CASE fits = {}
  <2>1. PICK brk \in brks : s = grown(brk)
    BY <1>2, <1>4
  <2>2. _heap_byte_size \in Nat /\ _heap_va_end \in Nat
    BY DEF HeapOK, BlocksOK
  <2>3. heap_offset(_heap_byte_size, n, alignment) \in Nat
    <3>1. _heap_byte_size + META_BLOCK_SIZE \in Nat
      BY <2>2, HeapAssumption
    <3> HIDE DEF n, alignment
    <3> DEFINE p == align_to_next(_heap_byte_size + META_BLOCK_SIZE, alignment)
    <3>2. p \in Nat /\ p >= _heap_byte_size + META_BLOCK_SIZE
      BY <1>1, <3>1, AlignsUp
    <3>3. heap_offset(_heap_byte_size, n, alignment) = p - _heap_byte_size + n
      BY DEF heap_offset
    <3> HIDE DEF p
    <3> QED
      BY <1>1, <2>2, <3>2, <3>3, HeapAssumption
  <2>4. /\ brk[1] = _heap_byte_size + heap_offset(_heap_byte_size, n, alignment)
        /\ brk[2] \in Nat /\ brk[2] >= _heap_va_end
    BY <2>2, <2>3, HeapGrows
  <2> HIDE DEF n, alignment, brks
  <2>5. CASE brk[2] >= brk[1]
    <3>1. HeapOK(new, alive \cup {<<new[Len(new)].ptr, n>>}, brk[1], brk[2])
      BY <1>1, <2>4, <2>5, ExtendKeeps
    <3>2. /\ s.blocks = new /\ s.live = alive \cup {<<new[Len(new)].ptr, n>>}
          /\ s.size = brk[1] /\ s.va_end = brk[2]
      <4> HIDE DEF new
      <4> QED
        BY <2>1, <2>5
    <3> QED
      BY <3>1, <3>2
  <2>6. CASE ~(brk[2] >= brk[1])
    <3>1. brk[1] \in Nat /\ brk[1] >= _heap_byte_size
      BY <2>2, <2>3, <2>4
    <3>2. BlocksOK(bs, brk[1], brk[2])
      BY <2>4, <3>1, BlocksInLarger DEF HeapOK
    <3>3. s.blocks = bs /\ s.live = alive /\ s.size = brk[1] /\ s.va_end = brk[2]
      <4> HIDE DEF new
      <4> QED
        BY <2>1, <2>6
    <3> QED
      BY <3>2, <3>3 DEF HeapOK
  <2> QED
    BY <2>5, <2>6
<1> QED
  BY <1>3, <1>4

\* kmalloc(), kfree() and krealloc() keep the invariant.
LEMMA HeapStep == ASSUME HeapInv, [HeapNext]_heapVars PROVE HeapInv'
<1>1. ASSUME NEW n \in Sizes, NEW a \in Alignments, Kmalloc(n, a) PROVE HeapInv'
  <2>1. PICK s \in kmalloc(blocks, live, n, a) : Becomes(s)
    BY <1>1 DEF Kmalloc
  <2>2. HeapOK(s.blocks, s.live, s.size, s.va_end)
    BY HeapAssumption, MallocKeeps DEF HeapInv
  <2> QED
    BY <2>1, <2>2 DEF Becomes, HeapInv
<1>2. ASSUME NEW r \in live, Kfree(r) PROVE HeapInv'
  <2>1. HeapOK(kfree(r[1]), live \ {r}, _heap_byte_size, _heap_va_end)
    BY FreeKeeps
  <2> QED
    BY <1>2, <2>1 DEF Kfree, HeapInv
<1>3. ASSUME NEW r \in live, NEW n \in Sizes, Krealloc(r, n) PROVE HeapInv'
  <2>1. PICK s \in kmalloc(kfree(r[1]), live \ {r}, n, alignof_max_align_t) : Becomes(s)
    BY <1>3 DEF Krealloc
  <2>2. HeapOK(kfree(r[1]), live \ {r}, _heap_byte_size, _heap_va_end)
    BY FreeKeeps
  <2>3. HeapOK(s.blocks, s.live, s.size, s.va_end)
    BY <2>2, HeapAssumption, MallocKeeps
  <2> QED
    BY <2>1, <2>3 DEF Becomes, HeapInv
<1>4. CASE UNCHANGED heapVars
  BY <1>4 DEF heapVars, HeapInv
<1> QED
  BY <1>1, <1>2, <1>3, <1>4 DEF HeapNext, Allocations, Frees, Reallocations

\* What the invariant says of the headers, and of every allocation: the search of kfree() finds it.
LEMMA HeapInvMeans == HeapInv => HeapIsSafe
<1> SUFFICES ASSUME HeapInv PROVE HeapIsSafe
  OBVIOUS
<1>1. /\ BlocksOK(blocks, _heap_byte_size, _heap_va_end) /\ blocks \in Seq(Block) /\ Len(blocks) \in Nat
      /\ _heap_byte_size \in Nat /\ _heap_va_end \in Nat /\ FreePairs(blocks, {}) /\ HeldOK(blocks, live)
  BY DEF HeapInv, HeapOK, BlocksOK
<1>2. HeapTypeOK
  BY <1>1 DEF HeapTypeOK, HeldOK
<1>3. ASSUME NEW i \in 1 .. Len(blocks) PROVE BlockOK(blocks, i, _heap_byte_size, _heap_va_end)
  BY <1>1 DEF BlocksOK
<1>4. Linked
  <2> SUFFICES ASSUME NEW i \in 1 .. Len(blocks)
               PROVE  /\ data(blocks[i]) <= blocks[i].ptr
                      /\ blocks[i].ptr + blocks[i].size <= Limit(i)
                      /\ blocks[i].previous = IF i = 1 THEN null_block ELSE blocks[i - 1].at
                      /\ blocks[i].is_free => blocks[i].ptr = data(blocks[i])
                      /\ i < Len(blocks) => ~(blocks[i].is_free /\ blocks[i + 1].is_free)
    BY DEF Linked
  <2>1. blocks[i].ptr + blocks[i].size <= Limit(i)
    <3>1. CASE i < Len(blocks)
      <4>1. i + 1 \in 1 .. Len(blocks) /\ i < i + 1
        BY <1>1, <3>1
      <4> QED
        BY <1>1, <3>1, <4>1 DEF Limit, BlocksOK
    <3>2. CASE ~(i < Len(blocks))
      BY <1>3, <3>2 DEF Limit, BlockOK
    <3> QED
      BY <3>1, <3>2
  <2>2. i < Len(blocks) => ~(blocks[i].is_free /\ blocks[i + 1].is_free)
    BY <1>1 DEF FreePairs
  <2> QED
    BY <1>3, <2>1, <2>2 DEF BlockOK
<1>5. AllocationsSafe
  <2> SUFFICES ASSUME NEW r \in live
               PROVE  \E i \in 1 .. Len(blocks) :
                        /\ blocks[i].ptr = r[1] /\ ~blocks[i].is_free
                        /\ r[2] <= blocks[i].size
                        /\ r[1] + r[2] <= _heap_va_end
                        /\ is_addr_valid(r[1]) /\ get_block_addr(r[1]) = i
                        /\ \A s \in live : s # r => s[1] # r[1]
    BY DEF AllocationsSafe
  <2>1. PICK i \in 1 .. Len(blocks) : Holds(blocks, i, r)
    BY <1>1 DEF HeldOK
  <2>2. blocks[i].ptr = r[1] /\ ~blocks[i].is_free /\ r[2] <= blocks[i].size
    BY <2>1 DEF Holds
  <2>3. /\ r[1] \in Nat /\ r[2] \in Nat \ {0} /\ blocks[i].ptr \in Nat /\ blocks[i].size \in Nat
        /\ blocks[1].at \in Nat /\ blocks[i].at \in Nat /\ blocks[1].ptr \in Nat /\ blocks[1].size \in Nat
        /\ blocks[i].at < blocks[i].ptr
    <3>1. blocks[i] \in Block /\ blocks[1] \in Block
      BY <1>1
    <3>2. data(blocks[i]) <= blocks[i].ptr
      BY <1>3 DEF BlockOK
    <3>3. r[1] \in Nat /\ r[2] \in Nat \ {0}
      BY <1>1 DEF HeldOK
    <3>4. blocks[i].at < blocks[i].ptr
      BY <3>1, <3>2, BlockFields
    <3> QED
      BY <3>1, <3>3, <3>4, BlockFields
  <2>4. r[1] + r[2] <= _heap_va_end
    <3>1. blocks[i].ptr + blocks[i].size <= _heap_va_end
      BY <1>3 DEF BlockOK
    <3> QED
      BY <1>1, <2>2, <2>3, <3>1
  <2>5. get_block_addr(r[1]) = i
    <3>1. blocks[i].size # 0
      BY <2>2, <2>3
    <3> QED
      BY <2>2, <3>1, BlockAt
  <2>6. blocks[1].at < r[1]
    <3>1. CASE i = 1
      BY <2>2, <2>3, <3>1
    <3>2. CASE i # 1
      <4>1. 1 \in 1 .. Len(blocks) /\ 1 < i
        BY <1>1, <3>2
      <4>2. blocks[1].ptr + blocks[1].size <= blocks[i].at
        BY <1>1, <4>1 DEF BlocksOK
      <4>3. blocks[1].at < blocks[1].ptr
        <5>1. data(blocks[1]) <= blocks[1].ptr /\ blocks[1] \in Block
          BY <1>1, <1>3, <4>1 DEF BlockOK
        <5> QED
          BY <5>1, BlockFields
      <4> QED
        BY <2>2, <2>3, <4>2, <4>3
    <3> QED
      BY <3>1, <3>2
  <2>7. is_addr_valid(r[1])
    <3>1. blocks # <<>> /\ i # 0
      BY <1>1
    <3> QED
      BY <2>2, <2>3, <2>5, <2>6, <3>1 DEF is_addr_valid
  <2> QED
    BY <1>1, <2>2, <2>4, <2>5, <2>7 DEF HeldOK
<1> QED
  BY <1>2, <1>4, <1>5 DEF HeapIsSafe

\* After any sequence of kmalloc(), kfree() and krealloc(), with any sizes and alignments and with pages
\* that run out anywhere, the headers describe the heap and no two allocations share a byte.
THEOREM HeapCorrect == HeapSpec => []HeapIsSafe
<1>1. HeapInit => HeapInv
  <2> SUFFICES ASSUME HeapInit PROVE HeapInv
    OBVIOUS
  <2>1. blocks = <<>> /\ live = {} /\ _heap_byte_size = 0 /\ _heap_va_end = 0
    BY DEF HeapInit
  <2>2. Len(blocks) = 0 /\ blocks \in Seq(Block)
    BY <2>1
  <2> QED
    BY <2>1, <2>2 DEF HeapInv, HeapOK, BlocksOK, FreePairs, HeldOK
<1>2. HeapInv /\ [HeapNext]_heapVars => HeapInv'
  BY HeapStep
<1> QED
  BY <1>1, <1>2, HeapInvMeans, PTL DEF HeapSpec

(***************************************************************************)
(* Physical memory.                                                        *)
(***************************************************************************)

\* The chunks that were parsed are sections of whole pages, and apart; apart from them is the reservation,
\* and from all these what is left to parse.
Sections ==
  /\ \A k \in DOMAIN _list : /\ IsPageStart(_list[k][1]) /\ IsPageStart(_list[k][2])
                            /\ _list[k][1] <= _list[k][2]
                            /\ Bytes(_list[k]) \cap Bytes(reserved) = {}
                            /\ \A j \in DOMAIN _list : j # k => Bytes(_list[j]) \cap Bytes(_list[k]) = {}
  /\ IsPageStart(reserved[1]) /\ IsPageStart(reserved[2]) /\ reserved[1] <= reserved[2]

Unparsed ==
  /\ IsLayout(nodes)
  /\ \A n \in DOMAIN nodes : \A i \in DOMAIN nodes[n] :
       /\ ChunkBytes(nodes[n][i]) \cap Bytes(reserved) = {}
       /\ \A k \in DOMAIN _list : ChunkBytes(nodes[n][i]) \cap Bytes(_list[k]) = {}

\* A page of an allocator is free, in use or protected: one of the three.
Protected(p) == \E r \in protected : PageBytes(p) \cap Bytes(r) # {}
PageOwners ==
  /\ free \subseteq Nat /\ pages \subseteq Nat /\ free \cap pages = {}
  /\ \A p \in free \cup pages : IsPageStart(p) /\ ~Protected(p) /\ \E k \in DOMAIN _list : p \in Bytes(_list[k])
  /\ \A k \in DOMAIN _list : \A p \in Bytes(_list[k]) :
       IsPageStart(p) => p \in free \cup pages \/ Protected(p)

\* The numbers of a buffer's pages: in the reservation, not free, and of no other buffer.
FirstOf(b) == (b[1] - reserved[1]) \div PAGE_SIZE
LastOf(b) == (b[2] - reserved[1]) \div PAGE_SIZE
NumbersOf(b) == FirstOf(b) .. LastOf(b)
InReserved(i) == i \in Nat /\ reserved[1] + (i + 1) * PAGE_SIZE <= reserved[2]
BufferOwners ==
  /\ \A i \in contiguous : InReserved(i)
  /\ \A b \in buffers : /\ FirstOf(b) \in Nat /\ FirstOf(b) <= LastOf(b) /\ InReserved(LastOf(b))
                       /\ b = <<FirstOf(b) * PAGE_SIZE + reserved[1], LastOf(b) * PAGE_SIZE + reserved[1]>>
                       /\ NumbersOf(b) \cap contiguous = {}
                       /\ \A c \in buffers : b # c => NumbersOf(b) \cap NumbersOf(c) = {}

Phases ==
  /\ phase \in {"parse", "contiguous", "protect", "running", "failed"}
  /\ phase # "running" => pages = {} /\ buffers = {}
  /\ phase \in {"parse", "contiguous"} => protected = {} /\ contiguous = {}
  /\ phase # "parse" => nodes = <<>>
  /\ phase \in {"protect", "running"} => reserved[1] + contiguous_res_bytes <= reserved[2]

MemTypes ==
  /\ reserved_ok \in BOOLEAN /\ section_ok \in BOOLEAN /\ nb_allocated \in Nat
  /\ _list \in Seq(Nat \X Nat) /\ reserved \in Nat \X Nat /\ nodes \in Seq(Seq(Nat \X Nat))
  /\ IsPlacement(todo) /\ protected \subseteq Nat \X Nat

MemInv == MemTypes /\ Phases /\ Sections /\ Unparsed /\ PageOwners /\ BufferOwners

\* The size of a page.
LEMMA PageBytesSize == PAGE_SIZE \in Nat /\ PAGE_SIZE \in Nat \ {0} /\ PAGE_SIZE > 1
  BY PageSizeAssumption, MemoryAssumption

\* The quotient of an address in the p-th page.
LEMMA PageNumber ==
  ASSUME NEW a \in Nat, NEW p \in Int, p * PAGE_SIZE <= a, a < p * PAGE_SIZE + PAGE_SIZE
  PROVE  a \div PAGE_SIZE = p /\ align_to_previous(a) = p * PAGE_SIZE
<1>1. /\ a \div PAGE_SIZE \in Nat /\ (a \div PAGE_SIZE) * PAGE_SIZE <= a
      /\ a < (a \div PAGE_SIZE) * PAGE_SIZE + PAGE_SIZE
  BY PageBytesSize, PageOfAddress
<1> DEFINE q == a \div PAGE_SIZE
<1> HIDE DEF q
<1>2. q \in Int /\ q * PAGE_SIZE \in Int /\ p * PAGE_SIZE \in Int
  BY <1>1, PageBytesSize DEF q
<1>3. q < p => q * PAGE_SIZE + PAGE_SIZE <= p * PAGE_SIZE
  BY <1>2, PageBytesSize, PagesInOrder
<1>4. p < q => p * PAGE_SIZE + PAGE_SIZE <= q * PAGE_SIZE
  BY <1>2, PageBytesSize, PagesInOrder
<1>5. q * PAGE_SIZE <= a /\ a < q * PAGE_SIZE + PAGE_SIZE
  BY <1>1 DEF q
<1>6. ~(q < p) /\ ~(p < q)
  BY <1>2, <1>3, <1>4, <1>5, PageBytesSize
<1>7. q = p
  BY <1>2, <1>6
<1> QED
  BY <1>7 DEF align_to_previous, q

\* An address is a page's beginning if it is a multiple of the size.
LEMMA PageStart ==
  ASSUME NEW n \in Nat
  PROVE  /\ IsPageStart(n * PAGE_SIZE) /\ n * PAGE_SIZE \in Nat
         /\ (n * PAGE_SIZE) \div PAGE_SIZE = n /\ (n * PAGE_SIZE + 1) \div PAGE_SIZE = n
<1> DEFINE a == n * PAGE_SIZE
<1>1. a \in Nat
  BY PageBytesSize
<1>2. a = n * PAGE_SIZE /\ n \in Int
  OBVIOUS
<1> HIDE DEF a
<1>3. a \div PAGE_SIZE = n /\ align_to_previous(a) = a /\ (a + 1) \div PAGE_SIZE = n
  <2>1. n * PAGE_SIZE <= a /\ a < n * PAGE_SIZE + PAGE_SIZE /\ n * PAGE_SIZE <= a + 1
        /\ a + 1 < n * PAGE_SIZE + PAGE_SIZE /\ a + 1 \in Nat
    BY <1>1, <1>2, PageBytesSize
  <2> QED
    BY <1>1, <1>2, <2>1, PageNumber
<1> QED
  BY <1>1, <1>3 DEF a, IsPageStart

\* The beginning of a page is a multiple of the size.
LEMMA PageMultiple ==
  ASSUME NEW a, IsPageStart(a)
  PROVE  a \in Nat /\ \E n \in Nat : a = n * PAGE_SIZE
<1>1. a \in Nat /\ a \div PAGE_SIZE \in Nat
  BY PageBytesSize, PageOfAddress DEF IsPageStart
<1> QED
  BY <1>1 DEF IsPageStart, align_to_previous

\* Some pages behind the beginning of a page begins a page.
LEMMA PagePlus ==
  ASSUME NEW a, IsPageStart(a), NEW n \in Nat
  PROVE  a + n * PAGE_SIZE \in Nat /\ IsPageStart(a + n * PAGE_SIZE)
<1>1. PICK m \in Nat : a = m * PAGE_SIZE
  BY PageMultiple
<1>2. (m + n) * PAGE_SIZE = m * PAGE_SIZE + n * PAGE_SIZE /\ m + n \in Nat
  BY PageBytesSize, PagesInOrder
<1>3. IsPageStart((m + n) * PAGE_SIZE) /\ (m + n) * PAGE_SIZE \in Nat
  BY <1>2, PageStart
<1> QED
  BY <1>1, <1>2, <1>3

\* Between the beginnings of two pages there are whole pages, as many as the quotient of the distance,
\* with or without the one byte that the code adds.
LEMMA PageDistance ==
  ASSUME NEW a, IsPageStart(a), NEW b, IsPageStart(b), a <= b
  PROVE  /\ b - a \in Nat /\ (b - a) \div PAGE_SIZE \in Nat
         /\ b = a + ((b - a) \div PAGE_SIZE) * PAGE_SIZE
         /\ (b - a + 1) \div PAGE_SIZE = (b - a) \div PAGE_SIZE
         /\ IsPageStart(b - a)
         /\ a < b => a + PAGE_SIZE <= b
<1>1. PICK m \in Nat : a = m * PAGE_SIZE
  BY PageMultiple
<1>2. PICK n \in Nat : b = n * PAGE_SIZE
  BY PageMultiple
<1>3. a \in Nat /\ b \in Nat
  BY PageMultiple
<1>4. m <= n
  <2>1. n < m => n * PAGE_SIZE + PAGE_SIZE <= m * PAGE_SIZE
    BY PageBytesSize, PagesInOrder
  <2> QED
    BY <1>1, <1>2, <1>3, <2>1, PageBytesSize
<1>5. PICK d \in Nat : n = m + d
  <2>1. n - m \in Nat /\ n = m + (n - m)
    BY <1>4
  <2> QED
    BY <2>1
<1>6. n * PAGE_SIZE = m * PAGE_SIZE + d * PAGE_SIZE
  BY <1>5, PageBytesSize, PagesInOrder
<1>7. b - a = d * PAGE_SIZE
  <2>1. d * PAGE_SIZE \in Nat
    BY PageStart
  <2> QED
    BY <1>1, <1>2, <1>3, <1>6, <2>1
<1>8. /\ IsPageStart(b - a) /\ b - a \in Nat
      /\ (b - a) \div PAGE_SIZE = d /\ (b - a + 1) \div PAGE_SIZE = d
  BY <1>7, PageStart
<1>9. a < b => a + PAGE_SIZE <= b
  <2>1. m < n => m * PAGE_SIZE + PAGE_SIZE <= n * PAGE_SIZE
    BY PageBytesSize, PagesInOrder
  <2>2. m = n => a = b
    BY <1>1, <1>2
  <2> QED
    BY <1>1, <1>2, <1>3, <1>4, <2>1, <2>2
<1>10. b = a + d * PAGE_SIZE
  BY <1>3, <1>7, <1>8
<1> QED
  BY <1>8, <1>9, <1>10

\* The page that holds an address begins before it, and the address before its end.
LEMMA PageBelow ==
  ASSUME NEW a \in Nat
  PROVE  /\ align_to_previous(a) \in Nat /\ IsPageStart(align_to_previous(a))
         /\ align_to_previous(a) <= a /\ a < align_to_previous(a) + PAGE_SIZE
<1>1. a \div PAGE_SIZE \in Nat /\ (a \div PAGE_SIZE) * PAGE_SIZE <= a /\ a < (a \div PAGE_SIZE) * PAGE_SIZE + PAGE_SIZE
  BY PageBytesSize, PageOfAddress
<1>2. IsPageStart((a \div PAGE_SIZE) * PAGE_SIZE) /\ (a \div PAGE_SIZE) * PAGE_SIZE \in Nat
  BY <1>1, PageStart
<1> QED
  BY <1>1, <1>2 DEF align_to_previous

\* The pages of a section: the addresses in it where a page begins.
LEMMA PagesOfSection ==
  ASSUME NEW a, IsPageStart(a), NEW b, IsPageStart(b), a <= b, NEW p
  PROVE  p \in PagesOf(a, b) <=> p \in a .. b - 1 /\ IsPageStart(p)
<1> DEFINE d == (b - a) \div PAGE_SIZE
<1>1. /\ d \in Nat /\ b = a + d * PAGE_SIZE /\ (b - a + 1) \div PAGE_SIZE = d /\ a \in Nat /\ b \in Nat
  BY PageDistance, PageMultiple
<1>2. PagesOf(a, b) = {a + i * PAGE_SIZE : i \in 0 .. d - 1}
  BY <1>1 DEF PagesOf
<1> HIDE DEF d
<1>3. ASSUME p \in PagesOf(a, b)
      PROVE  p \in a .. b - 1 /\ IsPageStart(p)
  <2>1. PICK i \in 0 .. d - 1 : p = a + i * PAGE_SIZE
    BY <1>2, <1>3
  <2>2. i \in Nat /\ i < d
    BY <1>1, <2>1
  <2>3. IsPageStart(p) /\ p \in Nat
    BY <2>1, <2>2, PagePlus
  <2>4. i * PAGE_SIZE + PAGE_SIZE <= d * PAGE_SIZE /\ i * PAGE_SIZE \in Nat /\ d * PAGE_SIZE \in Nat
    BY <1>1, <2>2, PagesInOrder, PageBytesSize, PageStart
  <2>5. p >= a /\ p < b
    BY <1>1, <2>1, <2>4, PageBytesSize
  <2> QED
    BY <1>1, <2>3, <2>5
<1>4. ASSUME p \in a .. b - 1, IsPageStart(p)
      PROVE  p \in PagesOf(a, b)
  <2> DEFINE i == (p - a) \div PAGE_SIZE
  <2>0. a <= p /\ p \in Nat
    BY <1>1, <1>4
  <2>1. i \in Nat /\ p = a + i * PAGE_SIZE /\ p \in Nat
    BY <1>4, <2>0, PageDistance
  <2> HIDE DEF i
  <2>2. i * PAGE_SIZE < d * PAGE_SIZE
    <3>1. i * PAGE_SIZE \in Nat /\ d * PAGE_SIZE \in Nat
      BY <1>1, <2>1, PageStart
    <3> QED
      BY <1>1, <1>4, <2>1, <3>1
  <2>3. i < d
    BY <1>1, <2>1, <2>2, PageBefore, PageBytesSize
  <2> QED
    BY <1>1, <1>2, <2>1, <2>3
<1> QED
  BY <1>3, <1>4

\* Rounding down, also below 0.
LEMMA PageOfInteger ==
  ASSUME NEW x \in Int, NEW i \in Nat
  PROVE  /\ x \div PAGE_SIZE \in Int
         /\ i <= x \div PAGE_SIZE <=> i * PAGE_SIZE <= x
<1> DEFINE q == x \div PAGE_SIZE
<1>1. q \in Int /\ q * PAGE_SIZE <= x /\ x < q * PAGE_SIZE + PAGE_SIZE
  BY PageBytesSize
<1> HIDE DEF q
<1>2. i * PAGE_SIZE \in Nat /\ q * PAGE_SIZE \in Int
  BY <1>1, PageBytesSize, PageStart
<1>3. i < q => i * PAGE_SIZE + PAGE_SIZE <= q * PAGE_SIZE
  BY <1>1, PagesInOrder, PageBytesSize
<1>4. q < i => q * PAGE_SIZE + PAGE_SIZE <= i * PAGE_SIZE
  BY <1>1, PagesInOrder, PageBytesSize
<1>5. i = q => i * PAGE_SIZE = q * PAGE_SIZE
  OBVIOUS
<1>6. i <= q <=> i * PAGE_SIZE <= x
  BY <1>1, <1>2, <1>3, <1>4, <1>5, PageBytesSize
<1> QED
  BY <1>1, <1>6 DEF q

\* The greater and the smaller of two numbers.
LEMMA Extremes ==
  ASSUME NEW a \in Nat, NEW b \in Nat
  PROVE  /\ AtLeast(a, b) \in {a, b} /\ a <= AtLeast(a, b) /\ b <= AtLeast(a, b)
         /\ AtMost(a, b) \in {a, b} /\ AtMost(a, b) <= a /\ AtMost(a, b) <= b
  BY DEF AtLeast, AtMost

\* The addresses that are looked at of one section, and the pages they stand for.
Looked(start, end, s) ==
  LET from == AtLeast(start, s[1])
  IN {from + i * PAGE_SIZE : i \in 0 .. (AtMost(end, s[2]) - from - 1) \div PAGE_SIZE}
MarkedOf(start, end, s) == {s[1] + ((a - s[1]) \div PAGE_SIZE) * PAGE_SIZE : a \in Looked(start, end, s)}

\* They are the beginnings of the pages of the section that the range covers.
LEMMA MarkedSection ==
  ASSUME NEW s, IsPageStart(s[1]), IsPageStart(s[2]), NEW start, IsPageStart(start), NEW end \in Nat,
         NEW p
  PROVE  p \in MarkedOf(start, end, s) <=> IsPageStart(p) /\ s[1] <= p /\ start <= p /\ p < end /\ p < s[2]
<1> DEFINE from == AtLeast(start, s[1])
           upto == AtMost(end, s[2])
           x == upto - from - 1
<1>1. start \in Nat /\ s[1] \in Nat /\ s[2] \in Nat
  BY PageMultiple
<1>2. /\ from \in Nat /\ upto \in Nat /\ IsPageStart(from) /\ start <= from /\ s[1] <= from
      /\ upto <= end /\ upto <= s[2] /\ from \in {start, s[1]} /\ upto \in {end, s[2]}
  BY <1>1, Extremes
<1>3. Looked(start, end, s) = {from + i * PAGE_SIZE : i \in 0 .. x \div PAGE_SIZE}
  BY DEF Looked
<1> HIDE DEF from, upto
<1>4. x \in Int /\ x \div PAGE_SIZE \in Int
  BY <1>2, PageOfInteger
<1>5. ASSUME NEW a \in Looked(start, end, s)
      PROVE  /\ IsPageStart(a) /\ a \in Nat /\ s[1] <= a /\ start <= a /\ a < end /\ a < s[2]
             /\ s[1] + ((a - s[1]) \div PAGE_SIZE) * PAGE_SIZE = a
  <2> HIDE DEF x
  <2>1. PICK i \in 0 .. x \div PAGE_SIZE : a = from + i * PAGE_SIZE
    BY <1>3
  <2>2. i \in Nat /\ i <= x \div PAGE_SIZE
    BY <1>4, <2>1
  <2>3. i * PAGE_SIZE <= x /\ i * PAGE_SIZE \in Nat
    BY <1>4, <2>2, PageOfInteger, PageStart
  <2>4. IsPageStart(a) /\ a \in Nat
    BY <1>2, <2>1, <2>2, PagePlus
  <2>5. from <= a /\ a < upto
    BY <1>2, <2>1, <2>3 DEF x
  <2>6. s[1] <= a /\ start <= a /\ a < end /\ a < s[2]
    BY <1>1, <1>2, <2>4, <2>5
  <2>7. a = s[1] + ((a - s[1]) \div PAGE_SIZE) * PAGE_SIZE
    BY <2>4, <2>6, PageDistance
  <2> QED
    BY <2>4, <2>6, <2>7
<1>6. ASSUME IsPageStart(p), s[1] <= p, start <= p, p < end, p < s[2]
      PROVE  p \in Looked(start, end, s)
  <2>1. p \in Nat /\ from <= p /\ p < upto
    BY <1>1, <1>2, <1>6, PageMultiple
  <2> DEFINE i == (p - from) \div PAGE_SIZE
  <2>2. i \in Nat /\ p = from + i * PAGE_SIZE
    BY <1>2, <1>6, <2>1, PageDistance
  <2> HIDE DEF i
  <2>3. i * PAGE_SIZE <= x
    <3>1. i * PAGE_SIZE \in Nat
      BY <2>2, PageStart
    <3> QED
      BY <1>2, <2>1, <2>2, <3>1
  <2> HIDE DEF x
  <2>4. i <= x \div PAGE_SIZE
    BY <1>4, <2>2, <2>3, PageOfInteger
  <2> QED
    BY <1>3, <1>4, <2>2, <2>4
<1> QED
  BY <1>5, <1>6 DEF MarkedOf

\* The pages of the allocators that are marked are those the range meets.
LEMMA MarkedPages ==
  ASSUME MemTypes, Sections, NEW start, IsPageStart(start), NEW end \in Nat,
         NEW p, IsPageStart(p), NEW k \in DOMAIN _list, p \in Bytes(_list[k])
  PROVE  p \in marked_pages(start, end) <=> PageBytes(p) \cap (start .. end - 1) # {}
<1> DEFINE Met == {j \in 1 .. Len(_list) : end > _list[j][1] /\ start < _list[j][2]}
<1>1. marked_pages(start, end) = UNION {MarkedOf(start, end, _list[j]) : j \in Met}
  BY DEF marked_pages, MarkedOf, Looked
<1>2. /\ DOMAIN _list = 1 .. Len(_list) /\ start \in Nat /\ p \in Nat
      /\ \A j \in DOMAIN _list : IsPageStart(_list[j][1]) /\ IsPageStart(_list[j][2])
                                 /\ _list[j][1] \in Nat /\ _list[j][2] \in Nat
  <2>1. DOMAIN _list = 1 .. Len(_list)
    BY DEF MemTypes
  <2>2. start \in Nat /\ p \in Nat
    BY PageMultiple
  <2>3. \A j \in DOMAIN _list : IsPageStart(_list[j][1]) /\ IsPageStart(_list[j][2])
    BY DEF Sections
  <2> QED
    BY <2>1, <2>2, <2>3, PageMultiple
<1>3. _list[k][1] <= p /\ p < _list[k][2] /\ p + PAGE_SIZE <= _list[k][2]
  <2>1. _list[k][1] <= p /\ p < _list[k][2]
    BY <1>2 DEF Bytes
  <2> QED
    BY <1>2, <2>1, PageDistance
<1>4. ASSUME p \in marked_pages(start, end)
      PROVE  PageBytes(p) \cap (start .. end - 1) # {}
  <2>1. PICK j \in Met : p \in MarkedOf(start, end, _list[j])
    BY <1>1, <1>4
  <2>2. start <= p /\ p < end
    BY <1>2, <2>1, MarkedSection
  <2>3. p \in PageBytes(p) /\ p \in start .. end - 1
    BY <1>2, <2>2, PageBytesSize DEF PageBytes
  <2> QED
    BY <2>3
<1>5. ASSUME NEW x \in PageBytes(p) \cap (start .. end - 1)
      PROVE  p \in marked_pages(start, end)
  <2>1. x \in Nat /\ p <= x /\ x < p + PAGE_SIZE /\ start <= x /\ x < end
    BY <1>2, PageBytesSize DEF PageBytes
  <2>2. k \in Met
    BY <1>2, <1>3, <2>1, PageBytesSize
  <2>3. start <= p
    <3>1. p < start => p + PAGE_SIZE <= start
      BY <1>2, PageDistance
    <3> QED
      BY <1>2, <2>1, <3>1, PageBytesSize
  <2>4. p < end
    BY <1>2, <2>1
  <2>5. p \in MarkedOf(start, end, _list[k])
    BY <1>2, <1>3, <2>3, <2>4, MarkedSection
  <2> QED
    BY <1>1, <2>2, <2>5
<1> QED
  BY <1>4, <1>5

\* A page of a section lies in it with all its bytes.
LEMMA PageInside ==
  ASSUME NEW p, IsPageStart(p), NEW s, IsPageStart(s[1]), IsPageStart(s[2]), p \in Bytes(s)
  PROVE  PageBytes(p) \subseteq Bytes(s)
<1>1. p \in Nat /\ s[1] \in Nat /\ s[2] \in Nat /\ s[1] <= p /\ p < s[2]
  BY PageMultiple DEF Bytes
<1>2. p + PAGE_SIZE <= s[2]
  BY <1>1, PageDistance
<1> QED
  BY <1>1, <1>2, PageBytesSize DEF PageBytes, Bytes

\* The invariant excludes a second owner, and accounts for every page.
LEMMA OwnersAreSingle ==
  ASSUME MemInv
  PROVE  OneOwner
<1>1. /\ MemTypes /\ Phases /\ Sections /\ PageOwners /\ BufferOwners
      /\ reserved[1] \in Nat /\ reserved[2] \in Nat
  BY PageMultiple DEF MemInv, Sections
<1>2. \A b \in buffers :
        /\ FirstOf(b) \in Nat /\ LastOf(b) \in Nat /\ FirstOf(b) <= LastOf(b)
        /\ FirstOf(b) * PAGE_SIZE \in Nat /\ LastOf(b) * PAGE_SIZE \in Nat
        /\ b = <<FirstOf(b) * PAGE_SIZE + reserved[1], LastOf(b) * PAGE_SIZE + reserved[1]>>
        /\ reserved[1] + (LastOf(b) + 1) * PAGE_SIZE <= reserved[2]
        /\ (LastOf(b) + 1) * PAGE_SIZE = LastOf(b) * PAGE_SIZE + PAGE_SIZE
  <2>1. \A b \in buffers :
          /\ FirstOf(b) \in Nat /\ LastOf(b) \in Nat /\ FirstOf(b) <= LastOf(b)
          /\ b = <<FirstOf(b) * PAGE_SIZE + reserved[1], LastOf(b) * PAGE_SIZE + reserved[1]>>
          /\ reserved[1] + (LastOf(b) + 1) * PAGE_SIZE <= reserved[2]
    BY <1>1 DEF BufferOwners, InReserved
  <2>2. \A n \in Nat : n * PAGE_SIZE \in Nat /\ (n + 1) * PAGE_SIZE = n * PAGE_SIZE + PAGE_SIZE
    <3> TAKE n \in Nat
    <3>1. n * PAGE_SIZE \in Nat
      BY PageStart
    <3>2. (n + 1) * PAGE_SIZE = n * PAGE_SIZE + 1 * PAGE_SIZE /\ 1 * PAGE_SIZE = PAGE_SIZE
      BY PagesInOrder, PageBytesSize
    <3> QED
      BY <3>1, <3>2
  <2> QED
    BY <2>1, <2>2
<1>3. \A b \in buffers : /\ BufferBytes(b) \subseteq Bytes(reserved)
                         /\ BufferBytes(b) = FirstOf(b) * PAGE_SIZE + reserved[1]
                                             .. LastOf(b) * PAGE_SIZE + reserved[1] + PAGE_SIZE - 1
                         /\ b \in Nat \X Nat
  <2> TAKE b \in buffers
  <2> DEFINE f == FirstOf(b) * PAGE_SIZE
             l == LastOf(b) * PAGE_SIZE
  <2>1. f \in Nat /\ l \in Nat /\ b = <<f + reserved[1], l + reserved[1]>>
        /\ reserved[1] + (l + PAGE_SIZE) <= reserved[2]
    BY <1>2
  <2> HIDE DEF f, l
  <2>2. b[1] = f + reserved[1] /\ b[2] = l + reserved[1] /\ b \in Nat \X Nat
    BY <1>1, <2>1
  <2>3. BufferBytes(b) = f + reserved[1] .. l + reserved[1] + PAGE_SIZE - 1
    BY <2>2 DEF BufferBytes
  <2>4. BufferBytes(b) \subseteq Bytes(reserved)
    BY <1>1, <2>1, <2>3, PageBytesSize DEF Bytes
  <2>5. BufferBytes(b) = FirstOf(b) * PAGE_SIZE + reserved[1]
                         .. LastOf(b) * PAGE_SIZE + reserved[1] + PAGE_SIZE - 1
    BY <2>3, Zenon DEF f, l
  <2> QED
    BY <2>2, <2>4, <2>5, Zenon
<1>4. Exclusive
  <2>1. ASSUME NEW p \in pages
        PROVE  /\ p \notin free
               /\ \A r \in protected : PageBytes(p) \cap Bytes(r) = {}
               /\ \A b \in buffers : PageBytes(p) \cap BufferBytes(b) = {}
    <3>1. p \notin free /\ IsPageStart(p) /\ ~Protected(p)
      BY <1>1 DEF PageOwners
    <3>2. PICK k \in DOMAIN _list : p \in Bytes(_list[k])
      BY <1>1 DEF PageOwners
    <3>3. PageBytes(p) \subseteq Bytes(_list[k])
      BY <1>1, <3>1, <3>2, PageInside DEF Sections
    <3>4. Bytes(_list[k]) \cap Bytes(reserved) = {}
      BY <1>1 DEF Sections
    <3>5. \A r \in protected : PageBytes(p) \cap Bytes(r) = {}
      BY <3>1 DEF Protected
    <3> QED
      BY <1>3, <3>1, <3>3, <3>4, <3>5, Zenon
  <2>2. ASSUME NEW b \in buffers, NEW c \in buffers, b # c
        PROVE  BufferBytes(b) \cap BufferBytes(c) = {}
    <3>1. NumbersOf(b) \cap NumbersOf(c) = {}
      BY <1>1, <2>2 DEF BufferOwners
    <3>2. LastOf(b) < FirstOf(c) \/ LastOf(c) < FirstOf(b)
      <4>1. /\ FirstOf(b) \in Nat /\ LastOf(b) \in Nat /\ FirstOf(b) <= LastOf(b)
            /\ FirstOf(c) \in Nat /\ LastOf(c) \in Nat /\ FirstOf(c) <= LastOf(c)
        BY <1>2
      <4>2. FirstOf(c) \notin NumbersOf(b) \/ FirstOf(c) \notin NumbersOf(c)
        BY <3>1
      <4>3. FirstOf(b) \notin NumbersOf(b) \/ FirstOf(b) \notin NumbersOf(c)
        BY <3>1
      <4> QED
        BY <4>1, <4>2, <4>3 DEF NumbersOf
    <3>3. ASSUME NEW d \in buffers, NEW e \in buffers, LastOf(d) < FirstOf(e)
          PROVE  BufferBytes(d) \cap BufferBytes(e) = {}
      <4> DEFINE l == LastOf(d) * PAGE_SIZE
                 f == FirstOf(e) * PAGE_SIZE
                 g == FirstOf(d) * PAGE_SIZE
                 m == LastOf(e) * PAGE_SIZE
      <4>1. l \in Nat /\ f \in Nat /\ g \in Nat /\ m \in Nat
        BY <1>2
      <4>2. l + PAGE_SIZE <= f
        BY <1>2, <3>3, PagesInOrder, PageBytesSize
      <4>3. BufferBytes(d) = g + reserved[1] .. l + reserved[1] + PAGE_SIZE - 1
        BY <1>3, Zenon
      <4>4. BufferBytes(e) = f + reserved[1] .. m + reserved[1] + PAGE_SIZE - 1
        BY <1>3, Zenon
      <4> HIDE DEF l, f, g, m
      <4> QED
        BY <1>1, <4>1, <4>2, <4>3, <4>4, PageBytesSize
    <3>4. CASE LastOf(b) < FirstOf(c)
      BY <3>3, <3>4
    <3>5. CASE LastOf(c) < FirstOf(b)
      <4>1. BufferBytes(c) \cap BufferBytes(b) = {}
        BY <3>3, <3>5
      <4> QED
        BY <4>1
    <3> QED
      BY <3>2, <3>4, <3>5
  <2>3. ASSUME NEW b \in buffers, NEW i \in contiguous
        PROVE  reserved[1] + i * PAGE_SIZE \notin BufferBytes(b)
    <3>1. i \in Nat /\ i \notin NumbersOf(b)
      BY <1>1 DEF BufferOwners, InReserved
    <3>2. i < FirstOf(b) \/ LastOf(b) < i
      BY <1>2, <3>1 DEF NumbersOf
    <3> DEFINE l == LastOf(b) * PAGE_SIZE
               f == FirstOf(b) * PAGE_SIZE
               x == i * PAGE_SIZE
    <3>3. l \in Nat /\ f \in Nat /\ x \in Nat
      BY <1>2, <3>1, PageStart
    <3>4. x + PAGE_SIZE <= f \/ l + PAGE_SIZE <= x
      BY <1>2, <3>1, <3>2, PagesInOrder, PageBytesSize
    <3>5. BufferBytes(b) = f + reserved[1] .. l + reserved[1] + PAGE_SIZE - 1
      BY <1>3, Zenon
    <3> HIDE DEF l, f, x
    <3>6. reserved[1] + x \notin BufferBytes(b)
      BY <1>1, <3>3, <3>4, <3>5, PageBytesSize
    <3> QED
      BY <3>6 DEF x
  <2> QED
    BY <2>1, <2>2, <2>3 DEF Exclusive
<1>5. Accounted
  <2> SUFFICES ASSUME NEW k \in 1 .. Len(_list), NEW p \in PagesOf(_list[k][1], _list[k][2])
               PROVE  p \in free \cup pages \/ Protected(p)
    BY DEF Accounted, Protected
  <2>1. k \in DOMAIN _list
    BY <1>1 DEF MemTypes
  <2>2. IsPageStart(p) /\ p \in Bytes(_list[k])
    BY <1>1, <2>1, PagesOfSection DEF Sections, Bytes
  <2> QED
    BY <1>1, <2>1, <2>2 DEF PageOwners
<1>6. ReservationHolds
  <2>1. DOMAIN _list = 1 .. Len(_list)
    BY <1>1 DEF MemTypes
  <2> QED
    BY <1>1, <2>1 DEF ReservationHolds, Phases, Sections
<1>7. MemoryTypeOK
  <2>1. contiguous \subseteq Nat /\ buffers \subseteq Nat \X Nat
    BY <1>1, <1>3 DEF BufferOwners, InReserved
  <2> QED
    BY <1>1, <2>1 DEF MemoryTypeOK, MemTypes, Phases, PageOwners, IsPlacement
<1> QED
  BY <1>4, <1>5, <1>6, <1>7 DEF OneOwner

\* The parts of a chunk: its section ends with it or before the reservation, which are both whole pages.
LEMMA ChunkParts ==
  ASSUME reserved_ok \in BOOLEAN, NEW a, IsPageStart(a), NEW size \in Nat
  PROVE  LET z == align_to_previous(a + size)
         IN /\ IsPageStart(z) /\ a <= z /\ z <= a + size /\ a \in Nat /\ z \in Nat
            /\ reserves(a, z) => /\ IsPageStart(cut(a, z)) /\ cut(a, z) \in Nat
                                 /\ a <= cut(a, z) /\ cut(a, z) <= z
                                 /\ cut(a, z) = z - asked - PAGE_SIZE
<1> DEFINE z == align_to_previous(a + size)
<1>1. a \in Nat /\ a + size \in Nat
  BY PageMultiple
<1>2. IsPageStart(z) /\ z \in Nat /\ z <= a + size /\ a + size < z + PAGE_SIZE
  BY <1>1, PageBelow
<1>3. a <= z
  <2> HIDE DEF z
  <2>1. z < a => z + PAGE_SIZE <= a
    BY <1>1, <1>2, PageDistance
  <2> QED
    BY <1>1, <1>2, <2>1, PageBytesSize
<1>4. ASSUME reserves(a, z)
      PROVE  /\ IsPageStart(cut(a, z)) /\ cut(a, z) \in Nat /\ a <= cut(a, z) /\ cut(a, z) <= z
             /\ cut(a, z) = z - asked - PAGE_SIZE
  <2> HIDE DEF z
  <2>1. IsPageStart(asked)
    <3>1. IsPageStart(0 * PAGE_SIZE) /\ 0 * PAGE_SIZE = 0
      BY PageStart, PageBytesSize
    <3> QED
      BY <3>1, MemoryAssumption DEF asked
  <2>2. PICK k \in Nat : asked = k * PAGE_SIZE
    BY <2>1, PageMultiple
  <2>3. asked \in Nat /\ k * PAGE_SIZE \in Nat
    BY <2>2, PageStart
  <2> DEFINE d == (z - a) \div PAGE_SIZE
  <2>4. d \in Nat /\ z = a + d * PAGE_SIZE
    BY <1>1, <1>2, <1>3, PageDistance
  <2>5. (asked + PAGE_SIZE - 1) \div PAGE_SIZE = k
    <3> DEFINE x == asked + PAGE_SIZE - 1
    <3>1. x \in Nat /\ k * PAGE_SIZE <= x /\ x < k * PAGE_SIZE + PAGE_SIZE
      BY <2>2, <2>3, PageBytesSize
    <3> HIDE DEF x
    <3>2. x \div PAGE_SIZE = k
      BY <3>1, PageNumber
    <3> QED
      BY <3>2 DEF x
  <2>6. d > 2 * k
    BY <1>4, <2>5 DEF reserves
  <2> HIDE DEF d
  <2>7. PICK n \in Nat : d = n + (k + 1)
    <3>1. d - (k + 1) \in Nat /\ d = (d - (k + 1)) + (k + 1)
      BY <2>4, <2>6
    <3> QED
      BY <3>1
  <2>8. /\ d * PAGE_SIZE = n * PAGE_SIZE + (k + 1) * PAGE_SIZE
        /\ (k + 1) * PAGE_SIZE = k * PAGE_SIZE + PAGE_SIZE /\ n * PAGE_SIZE \in Nat
    <3>1. (k + 1) * PAGE_SIZE = k * PAGE_SIZE + 1 * PAGE_SIZE /\ 1 * PAGE_SIZE = PAGE_SIZE
      BY PagesInOrder, PageBytesSize
    <3>2. (n + (k + 1)) * PAGE_SIZE = n * PAGE_SIZE + (k + 1) * PAGE_SIZE
      BY PagesInOrder, PageBytesSize
    <3> QED
      BY <2>7, <3>1, <3>2, PageStart
  <2>9. z - asked - PAGE_SIZE = a + n * PAGE_SIZE
    BY <1>1, <2>2, <2>3, <2>4, <2>8, PageBytesSize
  <2>10. IsPageStart(a + n * PAGE_SIZE) /\ a + n * PAGE_SIZE \in Nat
    BY PagePlus
  <2>11. a <= a + n * PAGE_SIZE /\ a + n * PAGE_SIZE <= z
    BY <1>1, <1>2, <2>3, <2>4, <2>8, PageBytesSize
  <2> QED
    BY <2>9, <2>10, <2>11 DEF cut
<1> QED
  BY <1>1, <1>2, <1>3, <1>4

\* What is left when the first item of the first of several sequences is taken.
IsTaken(l, m) ==
  /\ m \in Seq(Seq(Nat \X Nat)) /\ DOMAIN m = DOMAIN l
  /\ \A n \in DOMAIN m : \A i \in DOMAIN m[n] :
       IF n = 1 THEN i + 1 \in DOMAIN l[n] /\ m[n][i] = l[n][i + 1] /\ i + 1 # 1
       ELSE i \in DOMAIN l[n] /\ m[n][i] = l[n][i]
  /\ 1 \in DOMAIN l /\ 1 \in DOMAIN l[1] /\ Head(Head(l)) = l[1][1] /\ l[1][1] \in Nat \X Nat
LEMMA FirstTaken ==
  ASSUME NEW l, l \in Seq(Seq(Nat \X Nat)), l # <<>>, Head(l) # <<>>
  PROVE  IsTaken(l, <<Tail(Head(l))>> \o Tail(l))
<1> DEFINE S == Nat \X Nat
           h == Head(l)
           t == Tail(l)
           u == Tail(h)
           m == <<u>> \o t
<1>1. h = l[1] /\ h \in Seq(S) /\ t \in Seq(Seq(S)) /\ Len(t) = Len(l) - 1 /\ Len(l) \in Nat \ {0}
      /\ \A n \in 1 .. Len(t) : t[n] = l[n + 1]
  OBVIOUS
<1>2. u \in Seq(S) /\ Len(u) = Len(h) - 1 /\ Len(h) \in Nat \ {0} /\ \A i \in 1 .. Len(u) : u[i] = h[i + 1]
      /\ Head(h) = h[1] /\ h[1] \in S
  BY <1>1
<1>9. Head(h) = l[1][1] /\ l[1][1] \in S
  <2>1. h = l[1]
    BY <1>1
  <2>2. Head(h) = h[1] /\ h[1] \in S
    BY <1>2
  <2> HIDE DEF h, S
  <2> QED
    BY <2>1, <2>2
<1> HIDE DEF h, t, u, S
<1>3. <<u>> \in Seq(Seq(S)) /\ Len(<<u>>) = 1 /\ <<u>>[1] = u
  BY <1>2
<1>4. /\ m \in Seq(Seq(S)) /\ Len(m) = Len(l) /\ m[1] = u
      /\ \A n \in 2 .. Len(l) : m[n] = t[n - 1]
  BY <1>1, <1>3, ConcatFacts
<1> HIDE DEF m
<1>5. DOMAIN m = DOMAIN l /\ DOMAIN l = 1 .. Len(l) /\ DOMAIN l[1] = 1 .. Len(h) /\ DOMAIN m[1] = 1 .. Len(h) - 1
  BY <1>1, <1>2, <1>4
<1>6. \A n \in 2 .. Len(l) : m[n] = l[n]
  <2>1. \A n \in 2 .. Len(l) : n - 1 \in 1 .. Len(t) /\ (n - 1) + 1 = n
    BY <1>1
  <2> QED
    BY <1>1, <1>4, <2>1
<1>7. ASSUME NEW n \in DOMAIN m, NEW i \in DOMAIN m[n]
      PROVE  IF n = 1 THEN i + 1 \in DOMAIN l[n] /\ m[n][i] = l[n][i + 1] /\ i + 1 # 1
             ELSE i \in DOMAIN l[n] /\ m[n][i] = l[n][i]
  <2>1. CASE n = 1
    <3>1. i \in 1 .. Len(h) - 1 /\ i \in 1 .. Len(u)
      BY <1>2, <1>5, <1>7, <2>1
    <3>2. m[n][i] = u[i] /\ u[i] = h[i + 1] /\ h = l[n]
      BY <1>1, <1>2, <1>4, <2>1, <3>1
    <3>3. i + 1 \in 1 .. Len(h) /\ i + 1 # 1
      BY <1>2, <3>1
    <3> QED
      BY <1>5, <2>1, <3>2, <3>3
  <2>2. CASE n # 1
    <3>1. n \in 2 .. Len(l)
      BY <1>1, <1>5, <1>7, <2>2
    <3> QED
      BY <1>6, <1>7, <2>2, <3>1
  <2> QED
    BY <2>1, <2>2
<1>8. 1 \in DOMAIN l /\ 1 \in DOMAIN l[1] /\ Head(h) = l[1][1] /\ l[1][1] \in S
  <2>1. 1 \in 1 .. Len(l) /\ 1 \in 1 .. Len(h)
    BY <1>1, <1>2
  <2>2. 1 \in DOMAIN l /\ 1 \in DOMAIN l[1]
    BY <1>5, <2>1, Zenon
  <2> QED
    BY <1>9, <2>2, Zenon
<1> QED
  BY <1>4, <1>5, <1>7, <1>8 DEF IsTaken, m, h, t, u, S

\* Chunks that come from a layout, different ones from different ones, are a layout.
LEMMA LayoutLess ==
  ASSUME NEW l, IsLayout(l), NEW m \in Seq(Seq(Nat \X Nat)),
         \A n \in DOMAIN m : \A i \in DOMAIN m[n] : \A k \in DOMAIN m : \A j \in DOMAIN m[k] :
           \E x \in DOMAIN l : \E s \in DOMAIN l[x] : \E y \in DOMAIN l : \E t \in DOMAIN l[y] :
             m[n][i] = l[x][s] /\ m[k][j] = l[y][t] /\ (n # k \/ i # j => x # y \/ s # t)
  PROVE  IsLayout(m)
<1>1. ASSUME NEW n \in DOMAIN m, NEW i \in DOMAIN m[n], NEW k \in DOMAIN m, NEW j \in DOMAIN m[k]
      PROVE  /\ IsPageStart(m[n][i][1])
             /\ n # k \/ i # j => ChunkBytes(m[n][i]) \cap ChunkBytes(m[k][j]) = {}
  <2>0. \E x \in DOMAIN l : \E s \in DOMAIN l[x] : \E y \in DOMAIN l : \E t \in DOMAIN l[y] :
          m[n][i] = l[x][s] /\ m[k][j] = l[y][t] /\ (n # k \/ i # j => x # y \/ s # t)
    BY <1>1, Zenon
  <2>3. PICK x \in DOMAIN l : \E s \in DOMAIN l[x] : \E y \in DOMAIN l : \E t \in DOMAIN l[y] :
          m[n][i] = l[x][s] /\ m[k][j] = l[y][t] /\ (n # k \/ i # j => x # y \/ s # t)
    BY <2>0, Zenon
  <2>4. PICK s \in DOMAIN l[x] : \E y \in DOMAIN l : \E t \in DOMAIN l[y] :
          m[n][i] = l[x][s] /\ m[k][j] = l[y][t] /\ (n # k \/ i # j => x # y \/ s # t)
    BY <2>3, Zenon
  <2>5. PICK y \in DOMAIN l : \E t \in DOMAIN l[y] :
          m[n][i] = l[x][s] /\ m[k][j] = l[y][t] /\ (n # k \/ i # j => x # y \/ s # t)
    BY <2>4, Zenon
  <2>1. PICK t \in DOMAIN l[y] :
          m[n][i] = l[x][s] /\ m[k][j] = l[y][t] /\ (n # k \/ i # j => x # y \/ s # t)
    BY <2>5, Zenon
  <2>2. IsPageStart(l[x][s][1]) /\ (x # y \/ s # t => ChunkBytes(l[x][s]) \cap ChunkBytes(l[y][t]) = {})
    BY <2>1, Zenon DEF IsLayout
  <2> QED
    BY <2>1, <2>2, Zenon
<1>2. \A n \in DOMAIN m : \A i \in DOMAIN m[n] : IsPageStart(m[n][i][1])
  BY <1>1
<1> QED
  BY <1>1, <1>2, Zenon DEF IsLayout

\* The chunks of the nodes are numbered.
LEMMA IndexType ==
  ASSUME NEW l, l \in Seq(Seq(Nat \X Nat)), NEW n \in DOMAIN l, NEW i \in DOMAIN l[n]
  PROVE  i \in Nat
<1>1. l[n] \in Seq(Nat \X Nat)
  OBVIOUS
<1> QED
  BY <1>1

\* What an appended list holds.
LEMMA Appended ==
  ASSUME NEW S, NEW l \in Seq(S), NEW x \in S
  PROVE  /\ Append(l, x) \in Seq(S) /\ DOMAIN Append(l, x) = DOMAIN l \cup {Len(l) + 1} /\ Len(l) + 1 \notin DOMAIN l
         /\ Append(l, x)[Len(l) + 1] = x /\ \A k \in DOMAIN l : Append(l, x)[k] = l[k]
OBVIOUS

\* A chunk is parsed.
LEMMA ParseChunkInv ==
  ASSUME MemInv, ParseChunk
  PROVE  MemInv'
<1> DEFINE c == nodes[1][1]
           a == c[1]
           z == align_to_previous(a + c[2])
           takes == reserves(a, z)
           page_end == IF takes THEN cut(a, z) ELSE z
           s == <<a, page_end>>
<1>1. /\ MemTypes /\ Phases /\ Sections /\ Unparsed /\ PageOwners /\ BufferOwners
      /\ phase = "parse" /\ pages = {} /\ buffers = {} /\ protected = {} /\ contiguous = {}
  BY DEF MemInv, Phases, ParseChunk
<1>2. /\ nodes # <<>> /\ Head(nodes) # <<>> /\ nodes \in Seq(Seq(Nat \X Nat))
      /\ nodes' = <<Tail(Head(nodes))>> \o Tail(nodes)
  BY <1>1 DEF ParseChunk, MemTypes
<1>3. /\ nodes' \in Seq(Seq(Nat \X Nat)) /\ DOMAIN nodes' = DOMAIN nodes
      /\ \A n \in DOMAIN nodes' : \A i \in DOMAIN nodes'[n] :
           IF n = 1 THEN i + 1 \in DOMAIN nodes[n] /\ nodes'[n][i] = nodes[n][i + 1] /\ i + 1 # 1
           ELSE i \in DOMAIN nodes[n] /\ nodes'[n][i] = nodes[n][i]
      /\ 1 \in DOMAIN nodes /\ 1 \in DOMAIN nodes[1] /\ Head(Head(nodes)) = c /\ c \in Nat \X Nat
  <2>1. IsTaken(nodes, nodes')
    BY <1>2, FirstTaken
  <2> QED
    BY <2>1 DEF IsTaken
<1>4. /\ section_ok' = (section_ok \/ takes)
      /\ reserved' = IF takes THEN <<z - asked - PAGE_SIZE, z>> ELSE reserved
      /\ _list' = Append(_list, s)
      /\ free' = free \cup PagesOf(a, page_end)
      /\ nb_allocated' = nb_allocated + 1
      /\ UNCHANGED <<phase, reserved_ok, contiguous, todo, protected, pages, buffers>>
  BY <1>3, Zenon DEF ParseChunk, protectVars, usedVars
<1>5. IsPageStart(a) /\ a \in Nat /\ c[2] \in Nat
  <2>1. IsPageStart(a)
    BY <1>1, <1>3 DEF Unparsed, IsLayout
  <2> QED
    BY <1>3, <2>1
<1>6. /\ IsPageStart(z) /\ a <= z /\ z <= a + c[2] /\ z \in Nat
      /\ takes => /\ IsPageStart(cut(a, z)) /\ cut(a, z) \in Nat /\ a <= cut(a, z) /\ cut(a, z) <= z
                  /\ cut(a, z) = z - asked - PAGE_SIZE
  <2>1. reserved_ok \in BOOLEAN
    BY <1>1 DEF MemTypes
  <2> QED
    BY <1>5, <2>1, ChunkParts
<1>7. ChunkBytes(c) = a .. a + c[2] - 1
  BY DEF ChunkBytes
<1>8. takes \in BOOLEAN
  BY DEF reserves
<1> HIDE DEF takes, z, a
<1>9. IsPageStart(page_end) /\ page_end \in Nat /\ a <= page_end /\ page_end <= z
  BY <1>6
<1>10. Bytes(s) = a .. page_end - 1 /\ Bytes(s) \subseteq ChunkBytes(c) /\ s[1] = a /\ s[2] = page_end
       /\ s \in Nat \X Nat
  <2>1. Bytes(s) = a .. page_end - 1 /\ s[1] = a /\ s[2] = page_end /\ s \in Nat \X Nat
    BY <1>5, <1>9 DEF Bytes
  <2> HIDE DEF page_end, s, c
  <2>2. a .. page_end - 1 \subseteq a .. a + c[2] - 1
    BY <1>5, <1>6, <1>9
  <2> QED
    BY <1>7, <2>1, <2>2
<1> HIDE DEF s
<1>11. /\ IsPageStart(reserved'[1]) /\ IsPageStart(reserved'[2]) /\ reserved'[1] <= reserved'[2]
       /\ reserved' \in Nat \X Nat /\ Bytes(s) \cap Bytes(reserved') = {}
       /\ reserved' = reserved \/ Bytes(reserved') \subseteq ChunkBytes(c)
  <2>1. CASE takes
    <3> DEFINE w == z - asked - PAGE_SIZE
    <3>1. reserved' = <<w, z>> /\ page_end = w
      BY <1>4, <1>6, <2>1
    <3>2. w \in Nat /\ IsPageStart(w) /\ a <= w /\ w <= z
      BY <1>6, <2>1
    <3> HIDE DEF w, page_end, c
    <3>3. Bytes(reserved') = w .. z - 1
      BY <3>1 DEF Bytes
    <3>4. Bytes(s) \cap Bytes(reserved') = {}
      BY <1>5, <1>6, <1>10, <3>1, <3>2, <3>3
    <3>5. Bytes(reserved') \subseteq ChunkBytes(c)
      BY <1>5, <1>6, <1>7, <3>2, <3>3
    <3> QED
      BY <1>6, <3>1, <3>2, <3>4, <3>5
  <2>2. CASE ~takes
    <3>1. reserved' = reserved
      BY <1>4, <2>2
    <3>2. ChunkBytes(c) \cap Bytes(reserved) = {}
      BY <1>1, <1>3 DEF Unparsed
    <3> QED
      BY <1>1, <1>10, <3>1, <3>2 DEF Sections, MemTypes
  <2> QED
    BY <2>1, <2>2
<1>12. IsLayout(nodes')
  <2>1. IsLayout(nodes)
    BY <1>1 DEF Unparsed
  <2>2. ASSUME NEW n \in DOMAIN nodes', NEW i \in DOMAIN nodes'[n],
               NEW k \in DOMAIN nodes', NEW j \in DOMAIN nodes'[k]
        PROVE  \E x \in DOMAIN nodes : \E r \in DOMAIN nodes[x] : \E y \in DOMAIN nodes : \E t \in DOMAIN nodes[y] :
                 nodes'[n][i] = nodes[x][r] /\ nodes'[k][j] = nodes[y][t] /\ (n # k \/ i # j => x # y \/ r # t)
    <3> DEFINE r == IF n = 1 THEN i + 1 ELSE i
               t == IF k = 1 THEN j + 1 ELSE j
    <3>1. r \in DOMAIN nodes[n] /\ nodes'[n][i] = nodes[n][r] /\ n \in DOMAIN nodes
      BY <1>3, <2>2
    <3>2. t \in DOMAIN nodes[k] /\ nodes'[k][j] = nodes[k][t] /\ k \in DOMAIN nodes
      BY <1>3, <2>2
    <3>3. n = k /\ i # j => r # t
      <4>1. nodes' \in Seq(Seq(Nat \X Nat))
        BY <1>3
      <4>2. i \in Nat /\ j \in Nat
        BY <2>2, <4>1, IndexType
      <4> QED
        BY <4>2
    <3> HIDE DEF r, t
    <3> QED
      BY <3>1, <3>2, <3>3, Zenon
  <2> QED
    BY <1>3, <2>1, <2>2, LayoutLess
<1>13. ASSUME NEW n \in DOMAIN nodes', NEW i \in DOMAIN nodes'[n]
       PROVE  /\ ChunkBytes(nodes'[n][i]) \cap ChunkBytes(c) = {}
              /\ ChunkBytes(nodes'[n][i]) \cap Bytes(reserved) = {}
              /\ \A k \in DOMAIN _list : ChunkBytes(nodes'[n][i]) \cap Bytes(_list[k]) = {}
  <2> DEFINE r == IF n = 1 THEN i + 1 ELSE i
  <2>1. r \in DOMAIN nodes[n] /\ nodes'[n][i] = nodes[n][r] /\ n \in DOMAIN nodes /\ (n # 1 \/ r # 1)
    BY <1>3, <1>13
  <2> HIDE DEF r, c
  <2>2. ChunkBytes(nodes[n][r]) \cap ChunkBytes(nodes[1][1]) = {}
    BY <1>1, <1>3, <2>1, Zenon DEF Unparsed, IsLayout
  <2>3. /\ ChunkBytes(nodes[n][r]) \cap Bytes(reserved) = {}
        /\ \A k \in DOMAIN _list : ChunkBytes(nodes[n][r]) \cap Bytes(_list[k]) = {}
    BY <1>1, <2>1, Zenon DEF Unparsed
  <2> QED
    BY <2>1, <2>2, <2>3 DEF c
<1>14. /\ _list' \in Seq(Nat \X Nat) /\ DOMAIN _list' = DOMAIN _list \cup {Len(_list) + 1}
       /\ Len(_list) + 1 \notin DOMAIN _list /\ _list'[Len(_list) + 1] = s
       /\ \A k \in DOMAIN _list : _list'[k] = _list[k]
  <2>1. _list \in Seq(Nat \X Nat)
    BY <1>1 DEF MemTypes
  <2>2. _list' = Append(_list, s)
    BY <1>4
  <2> QED
    BY <1>10, <2>1, <2>2, Appended
<1> DEFINE last == Len(_list) + 1
<1> HIDE DEF last, c
<1>15. \A k \in DOMAIN _list : /\ ChunkBytes(c) \cap Bytes(_list[k]) = {}
                               /\ Bytes(_list[k]) \cap Bytes(reserved) = {}
  BY <1>1, <1>3 DEF Unparsed, Sections, c
<1>16. Unparsed'
  <2>1. ASSUME NEW n \in DOMAIN nodes', NEW i \in DOMAIN nodes'[n]
        PROVE  /\ ChunkBytes(nodes'[n][i]) \cap Bytes(reserved') = {}
               /\ \A k \in DOMAIN _list' : ChunkBytes(nodes'[n][i]) \cap Bytes(_list'[k]) = {}
    <3>1. ChunkBytes(nodes'[n][i]) \cap Bytes(reserved') = {}
      BY <1>11, <1>13, <2>1
    <3>2. ASSUME NEW k \in DOMAIN _list'
          PROVE  ChunkBytes(nodes'[n][i]) \cap Bytes(_list'[k]) = {}
      BY <1>10, <1>13, <1>14, <2>1, <3>2
    <3> QED
      BY <3>1, <3>2
  <2> QED
    BY <1>12, <2>1, Zenon DEF Unparsed
<1>17. Sections'
  <2>1. ASSUME NEW k \in DOMAIN _list'
        PROVE  /\ IsPageStart(_list'[k][1]) /\ IsPageStart(_list'[k][2]) /\ _list'[k][1] <= _list'[k][2]
               /\ Bytes(_list'[k]) \cap Bytes(reserved') = {}
               /\ \A j \in DOMAIN _list' : j # k => Bytes(_list'[j]) \cap Bytes(_list'[k]) = {}
    <3>1. CASE k \in DOMAIN _list
      <4>1. /\ _list'[k] = _list[k] /\ Bytes(_list[k]) \cap Bytes(s) = {}
            /\ Bytes(_list[k]) \cap Bytes(reserved') = {}
        BY <1>10, <1>11, <1>14, <1>15, <3>1
      <4>2. ASSUME NEW j \in DOMAIN _list', j # k
            PROVE  Bytes(_list'[j]) \cap Bytes(_list'[k]) = {}
        BY <1>1, <1>14, <3>1, <4>1, <4>2 DEF Sections
      <4> QED
        BY <1>1, <3>1, <4>1, <4>2 DEF Sections
    <3>2. CASE k = Len(_list) + 1
      <4>1. _list'[k] = s
        BY <1>14, <3>2
      <4>2. ASSUME NEW j \in DOMAIN _list', j # k
            PROVE  Bytes(_list'[j]) \cap Bytes(_list'[k]) = {}
        BY <1>10, <1>14, <1>15, <3>2, <4>1, <4>2
      <4> QED
        BY <1>5, <1>9, <1>10, <1>11, <4>1, <4>2
    <3> QED
      BY <1>14, <2>1, <3>1, <3>2
  <2> QED
    BY <1>11, <2>1, Zenon DEF Sections
<1>18. \A p : p \in PagesOf(a, page_end) <=> p \in Bytes(s) /\ IsPageStart(p)
  BY <1>5, <1>9, <1>10, PagesOfSection
<1>19. PageOwners'
  <2> HIDE DEF page_end
  <2>1. free' \subseteq Nat /\ pages' = {} /\ protected' = {} /\ \A p : ~Protected(p)'
    <3>1. PagesOf(a, page_end) \subseteq Nat
      BY <1>5, <1>9, <1>10, <1>18
    <3> QED
      BY <1>1, <1>4, <3>1 DEF PageOwners, Protected
  <2>2. ASSUME NEW p \in free'
        PROVE  IsPageStart(p) /\ \E k \in DOMAIN _list' : p \in Bytes(_list'[k])
    <3>1. CASE p \in free
      <4>1. IsPageStart(p) /\ \E k \in DOMAIN _list : p \in Bytes(_list[k])
        BY <1>1, <3>1 DEF PageOwners
      <4> QED
        BY <1>14, <4>1
    <3>2. CASE p \in PagesOf(a, page_end)
      BY <1>14, <1>18, <3>2
    <3> QED
      BY <1>4, <2>2, <3>1, <3>2
  <2>3. ASSUME NEW k \in DOMAIN _list', NEW p \in Bytes(_list'[k]), IsPageStart(p)
        PROVE  p \in free'
    <3>1. CASE k \in DOMAIN _list
      <4>1. p \in free \cup pages \/ Protected(p)
        BY <1>1, <1>14, <2>3, <3>1 DEF PageOwners
      <4> QED
        BY <1>1, <1>4, <4>1 DEF Protected
    <3>2. CASE k = Len(_list) + 1
      BY <1>4, <1>14, <1>18, <2>3, <3>2
    <3> QED
      BY <1>14, <2>3, <3>1, <3>2
  <2> QED
    BY <2>1, <2>2, <2>3 DEF PageOwners
<1>20. BufferOwners'
  BY <1>1, <1>4 DEF BufferOwners
<1>21. MemTypes'
  <2>1. todo' = todo /\ protected' = protected
    BY <1>4
  <2>2. IsPlacement(todo')
    BY <1>1, <2>1 DEF MemTypes
  <2> QED
    BY <1>1, <1>3, <1>4, <1>8, <1>11, <1>14, <2>1, <2>2 DEF MemTypes
<1>22. Phases'
  BY <1>1, <1>4 DEF Phases
<1> QED
  BY <1>16, <1>17, <1>19, <1>20, <1>21, <1>22 DEF MemInv

\* The steps that leave the sections, the pages and the buffers alone.
LEMMA Unmoved ==
  ASSUME MemInv, UNCHANGED <<_list, reserved, free, contiguous, protected, pages, buffers>>
  PROVE  Sections' /\ PageOwners' /\ BufferOwners'
<1>1. Sections /\ PageOwners /\ BufferOwners
  BY DEF MemInv
<1>2. Sections'
  BY <1>1 DEF Sections
<1>3. PageOwners'
  BY <1>1 DEF PageOwners, Protected
<1>4. BufferOwners'
  BY <1>1 DEF BufferOwners, InReserved, NumbersOf, FirstOf, LastOf
<1> QED
  BY <1>2, <1>3, <1>4

\* The end of a node.
LEMMA NodeDoneInv ==
  ASSUME MemInv, NodeDone
  PROVE  MemInv'
<1>1. /\ MemTypes /\ Phases /\ Unparsed /\ phase = "parse" /\ nodes # <<>> /\ nodes' = Tail(nodes)
      /\ reserved_ok' \in BOOLEAN /\ section_ok' = FALSE
      /\ UNCHANGED <<phase, nb_allocated, _list, reserved, free, contiguous, todo, protected, pages, buffers>>
  BY DEF MemInv, NodeDone, MemTypes, protectVars, usedVars
<1>2. nodes \in Seq(Seq(Nat \X Nat)) /\ IsLayout(nodes)
  BY <1>1 DEF MemTypes, Unparsed
<1>3. /\ nodes' \in Seq(Seq(Nat \X Nat))
      /\ \A n \in DOMAIN nodes' : n \in Nat /\ n + 1 \in DOMAIN nodes /\ nodes'[n] = nodes[n + 1]
  <2> DEFINE S == Seq(Nat \X Nat)
  <2>1. nodes \in Seq(S) /\ nodes # <<>> /\ nodes' = Tail(nodes)
    BY <1>1, <1>2
  <2> HIDE DEF S
  <2>2. /\ nodes' \in Seq(S)
        /\ \A n \in DOMAIN nodes' : n \in Nat /\ n + 1 \in DOMAIN nodes /\ nodes'[n] = nodes[n + 1]
    BY <2>1
  <2> QED
    BY <2>2 DEF S
<1>4. IsLayout(nodes')
  <2>1. ASSUME NEW n \in DOMAIN nodes', NEW i \in DOMAIN nodes'[n],
               NEW k \in DOMAIN nodes', NEW j \in DOMAIN nodes'[k]
        PROVE  \E x \in DOMAIN nodes : \E r \in DOMAIN nodes[x] : \E y \in DOMAIN nodes : \E t \in DOMAIN nodes[y] :
                 nodes'[n][i] = nodes[x][r] /\ nodes'[k][j] = nodes[y][t] /\ (n # k \/ i # j => x # y \/ r # t)
    <3>1. PICK x \in DOMAIN nodes : x = n + 1 /\ nodes'[n] = nodes[x]
      BY <1>3, <2>1
    <3>2. PICK y \in DOMAIN nodes : y = k + 1 /\ nodes'[k] = nodes[y]
      BY <1>3, <2>1
    <3>3. n # k => x # y
      BY <1>3, <2>1, <3>1, <3>2
    <3> QED
      BY <2>1, <3>1, <3>2, <3>3, Zenon
  <2> QED
    BY <1>2, <1>3, <2>1, LayoutLess
<1>5. Unparsed'
  <2>1. \A n \in DOMAIN nodes' : \A i \in DOMAIN nodes'[n] :
          /\ ChunkBytes(nodes'[n][i]) \cap Bytes(reserved) = {}
          /\ \A k \in DOMAIN _list : ChunkBytes(nodes'[n][i]) \cap Bytes(_list[k]) = {}
    BY <1>1, <1>3 DEF Unparsed
  <2> QED
    BY <1>1, <1>4, <2>1, Zenon DEF Unparsed
<1>6. MemTypes'
  <2>1. IsPlacement(todo')
    BY <1>1 DEF MemTypes
  <2> QED
    BY <1>1, <1>3, <2>1 DEF MemTypes
<1>7. Phases'
  BY <1>1 DEF Phases
<1>8. Sections' /\ PageOwners' /\ BufferOwners'
  BY <1>1, Unmoved
<1> QED
  BY <1>5, <1>6, <1>7, <1>8 DEF MemInv

\* The parsing is over, or the protecting, or nothing happens.
LEMMA PhaseInv ==
  ASSUME MemInv, ParseDone \/ ProtectDone \/ UNCHANGED memoryVars
  PROVE  MemInv'
<1>1. UNCHANGED <<nodes, reserved_ok, section_ok, nb_allocated, _list, reserved, free, contiguous, todo,
                  protected, pages, buffers>>
  BY DEF ParseDone, ProtectDone, memoryVars, parseVars, protectVars, usedVars
<1>2. MemTypes /\ Phases /\ Unparsed
  BY DEF MemInv
<1>3. MemTypes'
  BY <1>1, <1>2 DEF MemTypes, IsPlacement
<1>4. Unparsed'
  BY <1>1, <1>2 DEF Unparsed
<1>5. Phases'
  BY <1>1, <1>2 DEF Phases, ParseDone, ProtectDone, memoryVars
<1> QED
  BY <1>1, <1>3, <1>4, <1>5, Unmoved DEF MemInv

\* The allocator of buffers gets the pages of the reservation.
LEMMA SetupContiguousInv ==
  ASSUME MemInv, SetupContiguous
  PROVE  MemInv'
<1>1. /\ MemTypes /\ Phases /\ Sections /\ Unparsed /\ PageOwners /\ BufferOwners /\ phase = "contiguous"
      /\ UNCHANGED <<nodes, reserved_ok, section_ok, _list, reserved, free, protected, pages, buffers>>
  BY DEF MemInv, SetupContiguous, usedVars
<1>2. /\ reserved[1] \in Nat /\ reserved[2] \in Nat /\ contiguous_res_bytes \in Nat
      /\ pages = {} /\ buffers = {} /\ contiguous = {} /\ nodes = <<>>
  BY <1>1, MemoryAssumption, PageMultiple DEF Sections, Phases
<1>3. \/ phase' = "failed" /\ UNCHANGED <<nb_allocated, contiguous, todo>>
      \/ /\ phase' = "protect" /\ reserved[1] + contiguous_res_bytes <= reserved[2]
         /\ nb_allocated' = nb_allocated + 1
         /\ contiguous' = 0 .. (reserved[2] - reserved[1] + 1) \div PAGE_SIZE - 1
         /\ todo' = Append(todo, <<lin_first_page, lin_first_page + nb_allocated' * PAGE_SIZE>>)
  BY <1>2 DEF SetupContiguous
<1>4. Sections' /\ Unparsed'
  BY <1>1 DEF Sections, Unparsed
<1>5. PageOwners'
  BY <1>1 DEF PageOwners, Protected
<1>6. Phases'
  BY <1>1, <1>3 DEF Phases
<1>7. MemTypes'
  <2>1. IsPlacement(todo') /\ nb_allocated' \in Nat
    <3>1. CASE UNCHANGED <<nb_allocated, contiguous, todo>>
      BY <1>1, <3>1 DEF MemTypes
    <3>2. CASE /\ nb_allocated' = nb_allocated + 1
               /\ todo' = Append(todo, <<lin_first_page, lin_first_page + nb_allocated' * PAGE_SIZE>>)
      <4> DEFINE x == <<lin_first_page, lin_first_page + nb_allocated' * PAGE_SIZE>>
      <4>1. nb_allocated' \in Nat
        BY <1>1, <3>2 DEF MemTypes
      <4>2. nb_allocated' * PAGE_SIZE \in Nat /\ lin_first_page \in Nat /\ IsPageStart(lin_first_page)
        BY <4>1, PageStart, MemoryAssumption, PageMultiple
      <4>3. x \in Nat \X Nat /\ IsPageStart(x[1])
        BY <4>2
      <4>4. todo \in Seq(Nat \X Nat) /\ \A i \in DOMAIN todo : IsPageStart(todo[i][1])
        BY <1>1 DEF MemTypes, IsPlacement
      <4>5. todo' = Append(todo, x)
        BY <3>2
      <4> HIDE DEF x
      <4>6. /\ todo' \in Seq(Nat \X Nat) /\ DOMAIN todo' = DOMAIN todo \cup {Len(todo) + 1}
            /\ todo'[Len(todo) + 1] = x /\ \A k \in DOMAIN todo : todo'[k] = todo[k]
        BY <4>3, <4>4, <4>5, Appended
      <4>7. \A i \in DOMAIN todo' : IsPageStart(todo'[i][1])
        BY <4>3, <4>4, <4>6
      <4> QED
        BY <4>1, <4>6, <4>7 DEF IsPlacement
    <3> QED
      BY <1>3, <3>1, <3>2
  <2> QED
    BY <1>1, <2>1 DEF MemTypes
<1>8. BufferOwners'
  <2>1. ASSUME NEW i \in contiguous'
        PROVE  InReserved(i)'
    <3> DEFINE d == (reserved[2] - reserved[1]) \div PAGE_SIZE
    <3>1. /\ d \in Nat /\ reserved[2] = reserved[1] + d * PAGE_SIZE
          /\ (reserved[2] - reserved[1] + 1) \div PAGE_SIZE = d
      BY <1>1, PageDistance DEF Sections
    <3> HIDE DEF d
    <3>2. i \in 0 .. d - 1
      BY <1>2, <1>3, <2>1, <3>1
    <3>3. i \in Nat /\ i + 1 <= d
      BY <3>1, <3>2
    <3>4. (i + 1) * PAGE_SIZE <= d * PAGE_SIZE /\ (i + 1) * PAGE_SIZE \in Nat /\ d * PAGE_SIZE \in Nat
      <4>1. (i + 1) * PAGE_SIZE \in Nat /\ d * PAGE_SIZE \in Nat
        BY <3>1, <3>3, PageStart
      <4>2. i + 1 < d => (i + 1) * PAGE_SIZE + PAGE_SIZE <= d * PAGE_SIZE
        BY <3>1, <3>3, PagesInOrder, PageBytesSize
      <4>3. i + 1 = d => (i + 1) * PAGE_SIZE = d * PAGE_SIZE
        OBVIOUS
      <4> QED
        BY <3>1, <3>3, <4>1, <4>2, <4>3, PageBytesSize
    <3>5. InReserved(i)
      BY <1>2, <3>1, <3>3, <3>4 DEF InReserved
    <3> QED
      BY <1>1, <3>5 DEF InReserved
  <2> QED
    BY <1>1, <1>2, <2>1 DEF BufferOwners
<1> QED
  BY <1>4, <1>5, <1>6, <1>7, <1>8 DEF MemInv

\* Something that the boot has placed is protected.
LEMMA ProtectInv ==
  ASSUME MemInv, Protect
  PROVE  MemInv'
<1> DEFINE r == Head(todo)
           start == r[1]
           end == r[2]
<1>1. /\ MemTypes /\ Phases /\ Sections /\ Unparsed /\ PageOwners /\ BufferOwners /\ phase = "protect"
      /\ todo # <<>> /\ todo' = Tail(todo) /\ protected' = protected \cup {r}
      /\ free' = IF start < end THEN free \ marked_pages(start, end) ELSE free
      /\ contiguous' \subseteq contiguous
      /\ UNCHANGED <<phase, nodes, reserved_ok, section_ok, nb_allocated, _list, reserved, pages, buffers>>
      /\ pages = {} /\ buffers = {}
  BY DEF MemInv, Protect, Phases, parseVars, usedVars
<1>2. /\ r \in Nat \X Nat /\ start \in Nat /\ end \in Nat /\ IsPageStart(start) /\ IsPlacement(todo')
  <2>1. todo \in Seq(Nat \X Nat) /\ \A i \in DOMAIN todo : IsPageStart(todo[i][1])
    BY <1>1 DEF MemTypes, IsPlacement
  <2> DEFINE S == Nat \X Nat
  <2>2. todo \in Seq(S) /\ todo # <<>> /\ todo' = Tail(todo)
    BY <1>1, <2>1
  <2> HIDE DEF S
  <2>3. /\ r \in S /\ r = todo[1] /\ 1 \in DOMAIN todo /\ todo' \in Seq(S)
        /\ \A i \in DOMAIN todo' : i + 1 \in DOMAIN todo /\ todo'[i] = todo[i + 1]
    BY <2>2
  <2>4. \A i \in DOMAIN todo' : IsPageStart(todo'[i][1])
    BY <2>1, <2>3
  <2>5. IsPageStart(start)
    BY <2>1, <2>3
  <2> HIDE DEF r
  <2> QED
    BY <2>3, <2>4, <2>5 DEF S, IsPlacement
<1>3. Bytes(r) = start .. end - 1
  BY DEF Bytes
<1>4. \A p : Protected(p)' <=> Protected(p) \/ PageBytes(p) \cap Bytes(r) # {}
  BY <1>1 DEF Protected
<1> HIDE DEF r
<1>5. ASSUME NEW p, IsPageStart(p), NEW k \in DOMAIN _list, p \in Bytes(_list[k])
      PROVE  p \in free' <=> p \in free /\ ~(PageBytes(p) \cap Bytes(r) # {})
  <2>1. CASE start < end
    <3>1. p \in marked_pages(start, end) <=> PageBytes(p) \cap (start .. end - 1) # {}
      BY <1>1, <1>2, <1>5, MarkedPages
    <3> QED
      BY <1>1, <1>3, <2>1, <3>1
  <2>2. CASE ~(start < end)
    <3>1. Bytes(r) = {}
      BY <1>2, <1>3, <2>2
    <3> QED
      BY <1>1, <2>2, <3>1
  <2> QED
    BY <2>1, <2>2
<1>6. free' \subseteq free
  BY <1>1
<1>7. PageOwners'
  <2>1. ASSUME NEW p \in free'
        PROVE  IsPageStart(p) /\ ~Protected(p)' /\ \E k \in DOMAIN _list : p \in Bytes(_list[k])
    <3>1. p \in free /\ IsPageStart(p) /\ ~Protected(p)
      BY <1>1, <1>6, <2>1 DEF PageOwners
    <3>2. PICK k \in DOMAIN _list : p \in Bytes(_list[k])
      BY <1>1, <3>1 DEF PageOwners
    <3>3. ~(PageBytes(p) \cap Bytes(r) # {})
      BY <1>5, <2>1, <3>1, <3>2
    <3> QED
      BY <1>4, <3>1, <3>2, <3>3
  <2>2. ASSUME NEW k \in DOMAIN _list, NEW p \in Bytes(_list[k]), IsPageStart(p)
        PROVE  p \in free' \/ Protected(p)'
    <3>1. p \in free \/ Protected(p)
      BY <1>1, <2>2 DEF PageOwners
    <3> QED
      BY <1>4, <1>5, <2>2, <3>1
  <2>3. free' \subseteq Nat /\ pages' = {} /\ _list' = _list
    BY <1>1, <1>6 DEF PageOwners
  <2> QED
    BY <2>1, <2>2, <2>3 DEF PageOwners
<1>8. Sections' /\ Unparsed'
  BY <1>1 DEF Sections, Unparsed
<1>9. BufferOwners'
  <2>1. \A i \in contiguous' : InReserved(i)'
    BY <1>1 DEF BufferOwners, InReserved
  <2> QED
    BY <1>1, <2>1 DEF BufferOwners
<1>10. MemTypes' /\ Phases'
  <2>1. MemTypes'
    BY <1>1, <1>2 DEF MemTypes
  <2>2. Phases'
    BY <1>1 DEF Phases
  <2> QED
    BY <2>1, <2>2
<1> QED
  BY <1>7, <1>8, <1>9, <1>10 DEF MemInv

\* A page is handed out, or comes back.
LEMMA PageOpsInv ==
  ASSUME MemInv, PageOps
  PROVE  MemInv'
<1>1. /\ MemTypes /\ Phases /\ Sections /\ Unparsed /\ PageOwners /\ BufferOwners /\ phase = "running"
      /\ UNCHANGED <<phase, nodes, reserved_ok, section_ok, nb_allocated, _list, reserved, contiguous, todo,
                     protected, buffers>>
  BY DEF MemInv, PageOps, FreshPage, FreePage, parseVars, protectVars
<1>2. PageOwners'
  <2>1. CASE FreshPage
    <3>1. PICK p \in free : free' = free \ {p} /\ pages' = pages \cup {p}
      BY <2>1 DEF FreshPage, FreeOf
    <3>2. free' \cup pages' = free \cup pages /\ free' \cap pages' = {}
      BY <1>1, <3>1 DEF PageOwners
    <3> QED
      BY <1>1, <3>1, <3>2 DEF PageOwners, Protected
  <2>2. CASE \E p \in pages : FreePage(p)
    <3>1. PICK p \in pages : FreePage(p)
      BY <2>2
    <3>2. PICK k \in DOMAIN _list : p \in Bytes(_list[k])
      BY <1>1 DEF PageOwners
    <3>3. \E j \in 1 .. Len(_list) : p >= _list[j][1] /\ p < _list[j][2]
      <4>1. DOMAIN _list = 1 .. Len(_list)
        BY <1>1 DEF MemTypes
      <4>2. _list[k][1] \in Nat /\ _list[k][2] \in Nat
        BY <1>1, PageMultiple DEF Sections
      <4>3. p >= _list[k][1] /\ p < _list[k][2]
        BY <3>2, <4>2 DEF Bytes
      <4> QED
        BY <4>1, <4>3
    <3>4. free' = free \cup {p} /\ pages' = pages \ {p}
      BY <3>1, <3>3 DEF FreePage
    <3>5. free' \cup pages' = free \cup pages /\ free' \cap pages' = {} /\ free' \subseteq Nat
      BY <1>1, <3>1, <3>4 DEF PageOwners
    <3> QED
      BY <1>1, <3>4, <3>5 DEF PageOwners, Protected
  <2> QED
    BY <2>1, <2>2 DEF PageOps
<1>3. Sections' /\ Unparsed'
  BY <1>1 DEF Sections, Unparsed
<1>4. BufferOwners'
  BY <1>1 DEF BufferOwners, InReserved, NumbersOf, FirstOf, LastOf
<1>5. MemTypes'
  BY <1>1 DEF MemTypes, IsPlacement
<1>6. Phases'
  BY <1>1 DEF Phases
<1> QED
  BY <1>2, <1>3, <1>4, <1>5, <1>6 DEF MemInv

\* The numbers of a buffer that is made of a run of pages.
LEMMA BufferNumbers ==
  ASSUME reserved[1] \in Nat, NEW i \in Nat, NEW j \in Nat
  PROVE  LET b == <<i * PAGE_SIZE + reserved[1], j * PAGE_SIZE + reserved[1]>>
         IN FirstOf(b) = i /\ LastOf(b) = j /\ NumbersOf(b) = i .. j
<1> DEFINE x == i * PAGE_SIZE
           y == j * PAGE_SIZE
           b == <<x + reserved[1], y + reserved[1]>>
<1>1. x \in Nat /\ y \in Nat /\ x \div PAGE_SIZE = i /\ y \div PAGE_SIZE = j
  BY PageStart
<1> HIDE DEF x, y
<1>2. b[1] - reserved[1] = x /\ b[2] - reserved[1] = y
  BY <1>1
<1>3. FirstOf(b) = i /\ LastOf(b) = j
  BY <1>1, <1>2 DEF FirstOf, LastOf
<1>4. NumbersOf(b) = i .. j
  BY <1>3 DEF NumbersOf
<1> HIDE DEF b
<1> QED
  BY <1>3, <1>4 DEF b, x, y

\* A buffer is handed out, or comes back.
LEMMA BufferOpsInv ==
  ASSUME MemInv, BufferOps
  PROVE  MemInv'
<1>1. /\ MemTypes /\ Phases /\ Sections /\ Unparsed /\ PageOwners /\ BufferOwners /\ phase = "running"
      /\ UNCHANGED <<phase, nodes, reserved_ok, section_ok, nb_allocated, _list, reserved, free, todo,
                     protected, pages>>
  BY DEF MemInv, BufferOps, AllocateBuffer, FreeBuffer, parseVars, protectVars
<1>2. reserved[1] \in Nat /\ reserved[2] \in Nat
  BY <1>1, PageMultiple DEF Sections
<1>3. \A b : /\ FirstOf(b)' = FirstOf(b')
             /\ LastOf(b)' = LastOf(b')
  BY <1>1 DEF FirstOf, LastOf
<1>4. \A i : InReserved(i)' <=> InReserved(i)
  BY <1>1 DEF InReserved
<1>5. BufferOwners'
  <2>1. ASSUME NEW n \in 1 .. MaxBuffer, AllocateBuffer(n)
        PROVE  /\ \A i \in contiguous' : InReserved(i)
               /\ \A b \in buffers' :
                    /\ FirstOf(b) \in Nat /\ FirstOf(b) <= LastOf(b) /\ InReserved(LastOf(b))
                    /\ b = <<FirstOf(b) * PAGE_SIZE + reserved[1], LastOf(b) * PAGE_SIZE + reserved[1]>>
                    /\ NumbersOf(b) \cap contiguous' = {}
                    /\ \A c \in buffers' : b # c => NumbersOf(b) \cap NumbersOf(c) = {}
    <3>1. PICK i \in contiguous :
            /\ i .. i + n - 1 \subseteq contiguous
            /\ contiguous' = contiguous \ (i .. i + n - 1)
            /\ buffers' = buffers \cup {<<i * PAGE_SIZE + reserved[1], (i + n - 1) * PAGE_SIZE + reserved[1]>>}
      BY <2>1 DEF AllocateBuffer
    <3>2. i \in Nat
      BY <1>1 DEF BufferOwners, InReserved
    <3> DEFINE j == i + n - 1
               new == <<i * PAGE_SIZE + reserved[1], j * PAGE_SIZE + reserved[1]>>
    <3>3. j \in Nat /\ i <= j /\ j \in contiguous
      <4>1. n \in Nat /\ n >= 1
        BY <2>1, MemoryAssumption
      <4>2. j \in Nat /\ i <= j
        BY <3>2, <4>1
      <4>3. j \in i .. j
        BY <3>2, <4>2
      <4> QED
        BY <3>1, <4>2, <4>3
    <3>4. i .. j \subseteq contiguous /\ contiguous' = contiguous \ (i .. j) /\ buffers' = buffers \cup {new}
      BY <3>1
    <3> HIDE DEF j
    <3>5. FirstOf(new) = i /\ LastOf(new) = j /\ NumbersOf(new) = i .. j
      BY <1>2, <3>2, <3>3, BufferNumbers
    <3>6. InReserved(j)
      BY <1>1, <3>3 DEF BufferOwners
    <3>7. new = <<FirstOf(new) * PAGE_SIZE + reserved[1], LastOf(new) * PAGE_SIZE + reserved[1]>>
      BY <3>5
    <3> HIDE DEF new
    <3>8. ASSUME NEW b \in buffers
          PROVE  /\ FirstOf(b) \in Nat /\ FirstOf(b) <= LastOf(b) /\ InReserved(LastOf(b))
                 /\ b = <<FirstOf(b) * PAGE_SIZE + reserved[1], LastOf(b) * PAGE_SIZE + reserved[1]>>
                 /\ NumbersOf(b) \cap contiguous = {}
                 /\ \A c \in buffers : b # c => NumbersOf(b) \cap NumbersOf(c) = {}
      BY <1>1, <3>8, Zenon DEF BufferOwners
    <3>9. ASSUME NEW b \in buffers', NEW c \in buffers', b # c
          PROVE  NumbersOf(b) \cap NumbersOf(c) = {}
      <4>1. CASE b \in buffers /\ c \in buffers
        BY <3>8, <3>9, <4>1
      <4>2. CASE b = new /\ c \in buffers
        BY <3>4, <3>5, <3>8, <4>2
      <4>3. CASE c = new /\ b \in buffers
        BY <3>4, <3>5, <3>8, <4>3
      <4> QED
        BY <3>4, <3>9, <4>1, <4>2, <4>3
    <3>10. ASSUME NEW b \in buffers'
           PROVE  /\ FirstOf(b) \in Nat /\ FirstOf(b) <= LastOf(b) /\ InReserved(LastOf(b))
                  /\ b = <<FirstOf(b) * PAGE_SIZE + reserved[1], LastOf(b) * PAGE_SIZE + reserved[1]>>
                  /\ NumbersOf(b) \cap contiguous' = {}
      <4>1. CASE b \in buffers
        BY <3>4, <3>8, <4>1
      <4>2. CASE b = new
        BY <3>2, <3>3, <3>4, <3>5, <3>6, <3>7, <4>2
      <4> QED
        BY <3>4, <3>10, <4>1, <4>2
    <3>11. \A k \in contiguous' : InReserved(k)
      BY <1>1, <3>4 DEF BufferOwners
    <3> QED
      BY <3>9, <3>10, <3>11, Zenon
  <2>2. ASSUME NEW d \in buffers, FreeBuffer(d)
        PROVE  /\ \A i \in contiguous' : InReserved(i)
               /\ \A b \in buffers' :
                    /\ FirstOf(b) \in Nat /\ FirstOf(b) <= LastOf(b) /\ InReserved(LastOf(b))
                    /\ b = <<FirstOf(b) * PAGE_SIZE + reserved[1], LastOf(b) * PAGE_SIZE + reserved[1]>>
                    /\ NumbersOf(b) \cap contiguous' = {}
                    /\ \A c \in buffers' : b # c => NumbersOf(b) \cap NumbersOf(c) = {}
    <3>1. contiguous' = contiguous \cup NumbersOf(d) /\ buffers' = buffers \ {d}
      BY <2>2 DEF FreeBuffer, NumbersOf, FirstOf, LastOf
    <3>2. ASSUME NEW i \in NumbersOf(d)
          PROVE  InReserved(i)
      <4>1. FirstOf(d) \in Nat /\ FirstOf(d) <= LastOf(d) /\ InReserved(LastOf(d))
        BY <1>1 DEF BufferOwners
      <4>2. i \in Nat /\ LastOf(d) \in Nat /\ i <= LastOf(d)
        BY <3>2, <4>1 DEF NumbersOf, InReserved
      <4>3. (i + 1) * PAGE_SIZE <= (LastOf(d) + 1) * PAGE_SIZE
        <5> DEFINE l == LastOf(d)
        <5>1. i \in Nat /\ l \in Nat /\ i <= l
          BY <4>2
        <5> HIDE DEF l
        <5>2. (i + 1) * PAGE_SIZE \in Nat /\ (l + 1) * PAGE_SIZE \in Nat
          BY <5>1, PageStart
        <5>3. i + 1 < l + 1 => (i + 1) * PAGE_SIZE + PAGE_SIZE <= (l + 1) * PAGE_SIZE
          BY <5>1, PagesInOrder, PageBytesSize
        <5>4. i = l => (i + 1) * PAGE_SIZE = (l + 1) * PAGE_SIZE
          OBVIOUS
        <5>5. (i + 1) * PAGE_SIZE <= (l + 1) * PAGE_SIZE
          BY <5>1, <5>2, <5>3, <5>4, PageBytesSize
        <5> QED
          BY <5>5 DEF l
      <4>4. (i + 1) * PAGE_SIZE \in Nat /\ (LastOf(d) + 1) * PAGE_SIZE \in Nat
        BY <4>2, PageStart
      <4>5. reserved[1] + (LastOf(d) + 1) * PAGE_SIZE <= reserved[2]
        BY <4>1 DEF InReserved
      <4>6. reserved[1] + (i + 1) * PAGE_SIZE <= reserved[2]
        <5> DEFINE x == (i + 1) * PAGE_SIZE
                   y == (LastOf(d) + 1) * PAGE_SIZE
        <5>1. x \in Nat /\ y \in Nat /\ x <= y /\ reserved[1] + y <= reserved[2]
          BY <4>3, <4>4, <4>5
        <5> HIDE DEF x, y
        <5>2. reserved[1] + x <= reserved[2]
          BY <1>2, <5>1
        <5> QED
          BY <5>2 DEF x
      <4> QED
        BY <4>2, <4>6 DEF InReserved
    <3>3. \A i \in contiguous' : InReserved(i)
      BY <1>1, <3>1, <3>2 DEF BufferOwners
    <3>4. ASSUME NEW b \in buffers'
          PROVE  /\ FirstOf(b) \in Nat /\ FirstOf(b) <= LastOf(b) /\ InReserved(LastOf(b))
                 /\ b = <<FirstOf(b) * PAGE_SIZE + reserved[1], LastOf(b) * PAGE_SIZE + reserved[1]>>
                 /\ NumbersOf(b) \cap contiguous' = {}
                 /\ \A c \in buffers' : b # c => NumbersOf(b) \cap NumbersOf(c) = {}
      <4>1. b \in buffers /\ b # d
        BY <3>1, <3>4
      <4>2. /\ FirstOf(b) \in Nat /\ FirstOf(b) <= LastOf(b) /\ InReserved(LastOf(b))
            /\ b = <<FirstOf(b) * PAGE_SIZE + reserved[1], LastOf(b) * PAGE_SIZE + reserved[1]>>
            /\ NumbersOf(b) \cap contiguous = {}
            /\ \A c \in buffers : b # c => NumbersOf(b) \cap NumbersOf(c) = {}
        BY <1>1, <4>1, Zenon DEF BufferOwners
      <4>3. NumbersOf(b) \cap contiguous' = {}
        BY <3>1, <4>1, <4>2
      <4> QED
        BY <3>1, <4>2, <4>3
    <3> QED
      BY <3>3, <3>4, Zenon
  <2>3. /\ \A i \in contiguous' : InReserved(i)
        /\ \A b \in buffers' :
             /\ FirstOf(b) \in Nat /\ FirstOf(b) <= LastOf(b) /\ InReserved(LastOf(b))
             /\ b = <<FirstOf(b) * PAGE_SIZE + reserved[1], LastOf(b) * PAGE_SIZE + reserved[1]>>
             /\ NumbersOf(b) \cap contiguous' = {}
             /\ \A c \in buffers' : b # c => NumbersOf(b) \cap NumbersOf(c) = {}
    BY <2>1, <2>2, Zenon DEF BufferOps
  <2> QED
    BY <1>1, <2>3 DEF BufferOwners, InReserved, NumbersOf, FirstOf, LastOf
<1>6. Sections' /\ Unparsed' /\ PageOwners'
  BY <1>1 DEF Sections, Unparsed, PageOwners, Protected
<1>7. MemTypes' /\ Phases'
  BY <1>1 DEF MemTypes, IsPlacement, Phases
<1> QED
  BY <1>5, <1>6, <1>7 DEF MemInv

\* Every page has one owner at a time, and none is lost, for any device tree whose chunks are apart, any
\* reservation, anything the boot has placed, and any sequence of requests (kernel_internal_memory.cpp
\* init(), page_alloc_list.cpp).
THEOREM MemoryCorrect == MemorySpec => []OneOwner
<1>1. MemoryInit => MemInv
  <2> SUFFICES ASSUME MemoryInit
               PROVE  MemInv
    OBVIOUS
  <2>1. IsLayout(nodes) /\ IsPlacement(todo) /\ nodes \in Seq(Seq(Nat \X Nat))
    BY LayoutAssumption DEF MemoryInit, IsLayout
  <2>2. IsPageStart(0) /\ Bytes(<<0, 0>>) = {} /\ DOMAIN _list = {} /\ _list \in Seq(Nat \X Nat)
    <3>1. IsPageStart(0 * PAGE_SIZE) /\ 0 * PAGE_SIZE = 0
      BY PageStart, PageBytesSize
    <3> QED
      BY <3>1 DEF MemoryInit, Bytes
  <2>3. reserved = <<0, 0>> /\ Bytes(reserved) = {} /\ protected = {}
    BY <2>2 DEF MemoryInit
  <2>4. Sections
    <3>1. reserved[1] = 0 /\ reserved[2] = 0
      BY <2>3
    <3> QED
      BY <2>2, <3>1 DEF Sections
  <2>5. Unparsed
    <3>1. ASSUME NEW c
          PROVE  /\ ChunkBytes(c) \cap Bytes(reserved) = {}
                 /\ \A k \in DOMAIN _list : ChunkBytes(c) \cap Bytes(_list[k]) = {}
      BY <2>2, <2>3
    <3> QED
      BY <2>1, <3>1, Zenon DEF Unparsed
  <2>7. MemTypes /\ Phases
    <3>1. /\ reserved_ok = FALSE /\ section_ok = FALSE /\ nb_allocated = 0
          /\ phase = "parse" /\ contiguous = {} /\ pages = {} /\ buffers = {}
      BY DEF MemoryInit
    <3>2. nodes \in Seq(Seq(Nat \X Nat)) /\ IsPlacement(todo) /\ _list \in Seq(Nat \X Nat)
      BY <2>1, <2>2
    <3>3. MemTypes
      BY <2>3, <3>1, <3>2 DEF MemTypes
    <3> QED
      BY <2>3, <3>1, <3>3 DEF Phases
  <2>6. PageOwners /\ BufferOwners
    BY <2>2, <2>3 DEF MemoryInit, PageOwners, BufferOwners
  <2> QED
    BY <2>4, <2>5, <2>6, <2>7 DEF MemInv
<1>2. MemInv /\ [MemoryNext]_memoryVars => MemInv'
  <2> SUFFICES ASSUME MemInv, [MemoryNext]_memoryVars
               PROVE  MemInv'
    OBVIOUS
  <2>1. CASE ParseChunk
    BY <2>1, ParseChunkInv
  <2>2. CASE NodeDone
    BY <2>2, NodeDoneInv
  <2>3. CASE SetupContiguous
    BY <2>3, SetupContiguousInv
  <2>4. CASE Protect
    BY <2>4, ProtectInv
  <2>5. CASE PageOps
    BY <2>5, PageOpsInv
  <2>6. CASE BufferOps
    BY <2>6, BufferOpsInv
  <2>7. CASE ParseDone \/ ProtectDone \/ UNCHANGED memoryVars
    BY <2>7, PhaseInv
  <2> QED
    BY <2>1, <2>2, <2>3, <2>4, <2>5, <2>6, <2>7 DEF MemoryNext, Boot
<1> QED
  BY <1>1, <1>2, OwnersAreSingle, PTL DEF MemorySpec

(***************************************************************************)
(* The ranges of the devices.                                              *)
(***************************************************************************)

\* What the firmware says, and in which widths.
MapInv ==
  /\ soc_map \in SocMaps /\ cells \in [soc : BOOLEAN, arm : BOOLEAN, size : BOOLEAN]
  /\ \A i \in DOMAIN soc_map, f \in {"soc", "arm", "size"} : soc_map[i][f] < WORD_VALUES \/ cells[f]

\* Its ranges.
LEMMA SocRangeTypes ==
  ASSUME MapInv
  PROVE  /\ Len(soc_map) \in Nat /\ DOMAIN soc_map = 1 .. Len(soc_map)
         /\ \A i \in 1 .. Len(soc_map) :
              /\ soc_map[i].soc \in Nat /\ soc_map[i].arm \in Nat /\ soc_map[i].size \in Nat \ {0}
              /\ soc_map[i].size % DT_PAGE_SIZE = 0
              /\ soc_map[i].soc < WORD_VALUES \/ cells.soc
              /\ soc_map[i].arm < WORD_VALUES \/ cells.arm
              /\ soc_map[i].size < WORD_VALUES \/ cells.size
<1>1. soc_map \in Seq([soc : Number64, arm : Number64, size : Number64])
  BY RangesAssumption DEF MapInv
<1>2. \A i \in DOMAIN soc_map : soc_map[i].size > 0 /\ soc_map[i].size % DT_PAGE_SIZE = 0
  BY RangesAssumption DEF MapInv
<1>3. Len(soc_map) \in Nat /\ DOMAIN soc_map = 1 .. Len(soc_map)
  BY <1>1
<1>4. \A n \in Number64 : n \in Nat
  BY RangesAssumption DEF Number64
<1>5. ASSUME NEW i \in 1 .. Len(soc_map)
      PROVE  soc_map[i].soc \in Nat /\ soc_map[i].arm \in Nat /\ soc_map[i].size \in Nat
  <2> DEFINE T == [soc : Number64, arm : Number64, size : Number64]
  <2>1. soc_map[i] \in T
    <3>1. soc_map \in Seq(T)
      BY <1>1
    <3> HIDE DEF T
    <3> QED
      BY <3>1
  <2> QED
    BY <1>4, <2>1
<1>6. ASSUME NEW i \in 1 .. Len(soc_map)
      PROVE  /\ soc_map[i].soc < WORD_VALUES \/ cells.soc
             /\ soc_map[i].arm < WORD_VALUES \/ cells.arm
             /\ soc_map[i].size < WORD_VALUES \/ cells.size
  <2>1. \A f \in {"soc", "arm", "size"} : soc_map[i][f] < WORD_VALUES \/ cells[f]
    BY <1>3 DEF MapInv
  <2> QED
    BY <2>1
<1> QED
  BY <1>2, <1>3, <1>5, <1>6

\* A number is read as it was written.
LEMMA CellFacts ==
  ASSUME NEW value \in Nat, NEW is_u64 \in BOOLEAN, value < WORD_VALUES \/ is_u64
  PROVE  /\ Cell(value, is_u64) \in Seq(Nat) /\ Len(Cell(value, is_u64)) = cell_words(is_u64)
         /\ cell_words(is_u64) \in {1, 2}
         /\ is_u64 => cell_words(is_u64) = 2 /\ Cell(value, is_u64)[1] * WORD_VALUES + Cell(value, is_u64)[2] = value
         /\ ~is_u64 => cell_words(is_u64) = 1 /\ Cell(value, is_u64)[1] = value
<1>1. WORD_VALUES \in Nat \ {0}
  BY RangesAssumption
<1>2. value \div WORD_VALUES \in Nat /\ value % WORD_VALUES \in Nat
      /\ (value \div WORD_VALUES) * WORD_VALUES + (value % WORD_VALUES) = value
  <2> DEFINE w == WORD_VALUES
  <2>1. w \in Nat \ {0}
    BY <1>1
  <2> HIDE DEF w
  <2>2. value \div w \in Nat /\ value % w \in Nat /\ w * (value \div w) + (value % w) = value
    BY <2>1
  <2>3. w * (value \div w) = (value \div w) * w
    BY <2>1, <2>2
  <2> QED
    BY <2>2, <2>3 DEF w
<1> DEFINE high == value \div WORD_VALUES
           low == value % WORD_VALUES
<1> HIDE DEF high, low
<1>3. high \in Nat /\ low \in Nat /\ high * WORD_VALUES + low = value
  BY <1>2 DEF high, low
<1>4. Cell(value, is_u64) = IF is_u64 THEN <<high, low>> ELSE <<value>>
  BY DEF Cell, high, low
<1> QED
  BY <1>3, <1>4 DEF cell_words

\* The rest of an address in its page.
LEMMA RestOfPage ==
  ASSUME NEW a \in Nat, NEW L \in Nat \ {0}
  PROVE  (a % L) = a - (a \div L) * L
OBVIOUS

\* The row and the column of an index.
LEMMA RowAndColumn ==
  ASSUME NEW q \in Nat, NEW e \in Nat, NEW W \in Nat \ {0}, e < W
  PROVE  (q * W + e) \div W = q /\ (q * W + e) % W = e
<1> DEFINE x == q * W + e
           d == x \div W
<1>1. x \in Nat
  OBVIOUS
<1>2. d \in Nat /\ d * W <= x /\ x < d * W + W /\ (x % W) = x - d * W
  <2> HIDE DEF x
  <2> QED
    BY <1>1, PageOfAddress, RestOfPage
<1> HIDE DEF d
<1>3. q * W \in Int /\ d * W \in Int /\ (d < q => d * W + W <= q * W) /\ (q < d => q * W + W <= d * W)
  BY <1>2, PagesInOrder
<1>4. d = q
  BY <1>2, <1>3
<1>5. (x % W) = e
  BY <1>2, <1>3, <1>4
<1> QED
  BY <1>4, <1>5 DEF d

\* Where the three numbers of the n-th range are.
LEMMA RangeAt ==
  ASSUME MapInv, NEW n \in 1 .. Len(soc_map)
  PROVE  LET begin == (n - 1) * range_words + 1
             r == range_at(begin)
         IN /\ r.soc = soc_map[n].soc /\ r.arm = soc_map[n].arm /\ r.size = soc_map[n].size
            /\ r.behind = n * range_words + 1
            /\ begin \in Nat /\ begin <= Len(soc_ranges) /\ Len(soc_ranges) = Len(soc_map) * range_words
            /\ range_words \in Nat \ {0}
<1> DEFINE W == range_words
           N == Len(soc_map)
           b == (n - 1) * W
           S == cell_words(cells.soc)
           A == cell_words(cells.arm)
           Z == cell_words(cells.size)
           rs == Cell(soc_map[n].soc, cells.soc)
           ra == Cell(soc_map[n].arm, cells.arm)
           rz == Cell(soc_map[n].size, cells.size)
           words == RangeData(soc_map[n])
<1>1. cells.soc \in BOOLEAN /\ cells.arm \in BOOLEAN /\ cells.size \in BOOLEAN
  BY DEF MapInv
<1>2. /\ soc_map[n].soc \in Nat /\ soc_map[n].arm \in Nat /\ soc_map[n].size \in Nat
      /\ soc_map[n].soc < WORD_VALUES \/ cells.soc
      /\ soc_map[n].arm < WORD_VALUES \/ cells.arm
      /\ soc_map[n].size < WORD_VALUES \/ cells.size
      /\ N \in Nat
  BY SocRangeTypes
<1>3. /\ rs \in Seq(Nat) /\ Len(rs) = S /\ S \in {1, 2}
      /\ cells.soc => S = 2 /\ rs[1] * WORD_VALUES + rs[2] = soc_map[n].soc
      /\ ~cells.soc => S = 1 /\ rs[1] = soc_map[n].soc
  BY <1>1, <1>2, CellFacts
<1>4. /\ ra \in Seq(Nat) /\ Len(ra) = A /\ A \in {1, 2}
      /\ cells.arm => A = 2 /\ ra[1] * WORD_VALUES + ra[2] = soc_map[n].arm
      /\ ~cells.arm => A = 1 /\ ra[1] = soc_map[n].arm
  BY <1>1, <1>2, CellFacts
<1>5. /\ rz \in Seq(Nat) /\ Len(rz) = Z /\ Z \in {1, 2}
      /\ cells.size => Z = 2 /\ rz[1] * WORD_VALUES + rz[2] = soc_map[n].size
      /\ ~cells.size => Z = 1 /\ rz[1] = soc_map[n].size
  BY <1>1, <1>2, CellFacts
<1>6. words = rs \o ra \o rz /\ W = S + A + Z
  BY DEF RangeData, range_words
<1>7. W \in Nat /\ W >= 3
  <2>1. W = S + A + Z /\ S \in {1, 2} /\ A \in {1, 2} /\ Z \in {1, 2}
    BY <1>3, <1>4, <1>5, <1>6
  <2> HIDE DEF W, S, A, Z
  <2> QED
    BY <2>1
<1> HIDE DEF W, N, S, A, Z, rs, ra, rz, words
<1>8. /\ b \in Nat /\ b + W <= N * W /\ N * W \in Nat /\ n * W = b + W
  <2>1. n - 1 \in Nat /\ n \in Nat /\ n <= N
    BY <1>2 DEF N
  <2>2. /\ (n - 1) * W \in Int /\ N * W \in Int /\ n * W \in Int
        /\ n - 1 < N => (n - 1) * W + W <= N * W
    BY <1>2, <1>7, <2>1, PagesInOrder
  <2>3. n * W = (n - 1) * W + W
    BY <1>7, <2>1
  <2>4. (n - 1) * W \in Nat
    BY <1>7, <2>1
  <2>5. n - 1 < N /\ N * W \in Nat
    BY <1>2, <1>7, <2>1
  <2> QED
    BY <2>2, <2>3, <2>4, <2>5
<1>9. Len(soc_ranges) = N * W /\ DOMAIN soc_ranges = 1 .. N * W
  BY <1>8 DEF soc_ranges, N, W
<1>10. ASSUME NEW k \in 1 .. W PROVE soc_ranges[b + k] = words[k]
  <2> DEFINE j == b + k
  <2>1. j \in 1 .. N * W /\ j - 1 = b + (k - 1) /\ k - 1 \in 0 .. W - 1
    BY <1>7, <1>8
  <2>2. (j - 1) \div W = n - 1 /\ (j - 1) % W = k - 1
    <3> DEFINE q == n - 1
               e == k - 1
    <3>1. q \in Nat /\ e \in Nat /\ e < W /\ W \in Nat \ {0} /\ j - 1 = q * W + e
      BY <1>2, <1>7, <2>1 DEF N
    <3> HIDE DEF q, e, j
    <3>2. (q * W + e) \div W = q /\ (q * W + e) % W = e
      BY <3>1, RowAndColumn
    <3>3. (j - 1) \div W = q /\ (j - 1) % W = e
      BY <3>1, <3>2
    <3> QED
      BY <3>3 DEF q, e
  <2> HIDE DEF j
  <2>3. soc_ranges[j] = RangeData(soc_map[(j - 1) \div W + 1])[((j - 1) % W) + 1]
    BY <2>1 DEF soc_ranges, N, W
  <2>4. n - 1 + 1 = n /\ k - 1 + 1 = k
    BY <1>7, <1>2 DEF N
  <2> QED
    BY <2>2, <2>3, <2>4 DEF words, j
<1>11. /\ \A k \in 1 .. S : words[k] = rs[k]
       /\ \A k \in 1 .. A : words[S + k] = ra[k]
       /\ \A k \in 1 .. Z : words[S + A + k] = rz[k]
  <2>1. /\ rs \o ra \in Seq(Nat) /\ Len(rs \o ra) = S + A
        /\ \A k \in 1 .. S : (rs \o ra)[k] = rs[k]
        /\ \A k \in 1 .. A : (rs \o ra)[S + k] = ra[k]
    <3>0. rs \in Seq(Nat) /\ Len(rs) = S /\ ra \in Seq(Nat) /\ Len(ra) = A
      BY <1>3, <1>4
    <3>1. /\ rs \o ra \in Seq(Nat) /\ Len(rs \o ra) = S + A
          /\ \A k \in 1 .. S : (rs \o ra)[k] = rs[k]
          /\ \A k \in S + 1 .. S + A : (rs \o ra)[k] = ra[k - S]
      BY <3>0, ConcatFacts
    <3>2. \A k \in 1 .. A : S + k \in S + 1 .. S + A /\ (S + k) - S = k
      BY <1>3, <1>4
    <3> QED
      BY <3>1, <3>2
  <2> DEFINE front == rs \o ra
  <2>2. front \in Seq(Nat) /\ Len(front) = S + A
    BY <2>1
  <2> HIDE DEF front
  <2>3. /\ \A k \in 1 .. S + A : (front \o rz)[k] = front[k]
        /\ \A k \in 1 .. Z : (front \o rz)[S + A + k] = rz[k]
    <3> DEFINE F == S + A
    <3>0. front \in Seq(Nat) /\ Len(front) = F /\ rz \in Seq(Nat) /\ Len(rz) = Z
      BY <1>5, <2>2
    <3> HIDE DEF F
    <3>1. /\ \A k \in 1 .. F : (front \o rz)[k] = front[k]
          /\ \A k \in F + 1 .. F + Z : (front \o rz)[k] = rz[k - F]
      BY <3>0, ConcatFacts
    <3> USE DEF F
    <3>2. \A k \in 1 .. Z : S + A + k \in S + A + 1 .. S + A + Z /\ (S + A + k) - (S + A) = k
      BY <1>3, <1>4, <1>5
    <3> QED
      BY <3>1, <3>2
  <2>4. words = front \o rz
    BY <1>6 DEF front
  <2>5. \A k \in 1 .. S : k \in 1 .. S + A
    BY <1>3, <1>4
  <2>6. \A k \in 1 .. A : S + k \in 1 .. S + A
    BY <1>3, <1>4
  <2> QED
    BY <2>1, <2>3, <2>4, <2>5, <2>6 DEF front
<1>12. b + 1 \in Nat /\ b + 1 <= N * W
  BY <1>7, <1>8
<1> DEFINE arm == b + 1 + S
           size == arm + A
<1>13. get_variable_int(b + 1, cells.soc) = soc_map[n].soc
  <2>1. soc_ranges[b + 1] = rs[1]
    <3>1. 1 \in 1 .. W /\ 1 \in 1 .. S
      BY <1>3, <1>7
    <3> QED
      BY <1>10, <1>11, <3>1
  <2>2. S = 2 => soc_ranges[b + 2] = rs[2]
    <3>1. 2 \in 1 .. W /\ (S = 2 => 2 \in 1 .. S)
      BY <1>7
    <3> QED
      BY <1>10, <1>11, <3>1
  <2>3. b + 1 + 1 = b + 2
    BY <1>8
  <2> QED
    BY <1>3, <2>1, <2>2, <2>3 DEF get_variable_int
<1>14. get_variable_int(arm, cells.arm) = soc_map[n].arm
  <2>1. arm = b + (S + 1) /\ arm + 1 = b + (S + 2)
    BY <1>3, <1>8
  <2>2. soc_ranges[arm] = ra[1]
    <3>1. S + 1 \in 1 .. W /\ 1 \in 1 .. A
      BY <1>3, <1>4, <1>5, <1>6
    <3> QED
      BY <1>10, <1>11, <2>1, <3>1
  <2>3. A = 2 => soc_ranges[arm + 1] = ra[2]
    <3>1. A = 2 => S + 2 \in 1 .. W /\ 2 \in 1 .. A
      BY <1>3, <1>4, <1>5, <1>6
    <3> QED
      BY <1>10, <1>11, <2>1, <3>1
  <2> QED
    BY <1>4, <2>2, <2>3 DEF get_variable_int
<1>15. get_variable_int(size, cells.size) = soc_map[n].size
  <2>1. size = b + (S + A + 1) /\ size + 1 = b + (S + A + 2)
    BY <1>3, <1>4, <1>8
  <2>2. soc_ranges[size] = rz[1]
    <3>1. S + A + 1 \in 1 .. W /\ 1 \in 1 .. Z
      BY <1>3, <1>4, <1>5, <1>6
    <3> QED
      BY <1>10, <1>11, <2>1, <3>1
  <2>3. Z = 2 => soc_ranges[size + 1] = rz[2]
    <3>1. Z = 2 => S + A + 2 \in 1 .. W /\ 2 \in 1 .. Z
      BY <1>3, <1>4, <1>5, <1>6
    <3> QED
      BY <1>10, <1>11, <2>1, <3>1
  <2> QED
    BY <1>5, <2>2, <2>3 DEF get_variable_int
<1>16. size + Z = n * W + 1
  BY <1>3, <1>4, <1>5, <1>6, <1>8
<1>17. /\ range_at(b + 1).soc = get_variable_int(b + 1, cells.soc)
       /\ range_at(b + 1).arm = get_variable_int(arm, cells.arm)
       /\ range_at(b + 1).size = get_variable_int(size, cells.size)
       /\ range_at(b + 1).behind = size + Z
  BY DEF range_at, S, A, Z
<1> HIDE DEF b, arm, size
<1> QED
  BY <1>7, <1>9, <1>12, <1>13, <1>14, <1>15, <1>16, <1>17 DEF b, W, N

\* One turn of the loops.
TurnStep(t) == IF t.index > Len(soc_ranges) THEN t
               ELSE [index |-> range_at(t.index).behind, offset |-> t.offset + range_at(t.index).size]

\* The indices the loops stop at, and the states before their turns.
TurnStates == [index : {i * range_words + 1 : i \in 0 .. Len(soc_map)}, offset : Nat]

\* A turn moves to the next range.
LEMMA TurnFacts ==
  ASSUME MapInv, NEW i \in 0 .. Len(soc_map), NEW t \in TurnStates, t.index = i * range_words + 1
  PROVE  /\ TurnStep(t) \in TurnStates
         /\ i = Len(soc_map) <=> t.index > Len(soc_ranges)
         /\ i = Len(soc_map) => TurnStep(t) = t
         /\ i # Len(soc_map) => /\ TurnStep(t).index = (i + 1) * range_words + 1
                                /\ TurnStep(t).offset = t.offset + soc_map[i + 1].size
                                /\ range_at(t.index).soc = soc_map[i + 1].soc
                                /\ range_at(t.index).arm = soc_map[i + 1].arm
                                /\ range_at(t.index).size = soc_map[i + 1].size
<1>1. Len(soc_map) \in Nat /\ t.offset \in Nat
  BY SocRangeTypes DEF TurnStates
<1>2. CASE i = Len(soc_map)
  <2>1. t.index > Len(soc_ranges)
    <3>1. Len(soc_ranges) = Len(soc_map) * range_words /\ Len(soc_map) * range_words \in Nat
      <4>1. range_words \in Nat
        <5>1. cells.soc \in BOOLEAN /\ cells.arm \in BOOLEAN /\ cells.size \in BOOLEAN
          BY DEF MapInv
        <5> QED
          BY <5>1 DEF range_words, cell_words
      <4>2. Len(soc_map) * range_words \in Nat
        BY <1>1, <4>1
      <4> QED
        BY <4>2 DEF soc_ranges
    <3> QED
      BY <1>2, <3>1
  <2> QED
    BY <1>2, <2>1 DEF TurnStep
<1>3. CASE i # Len(soc_map)
  <2> DEFINE n == i + 1
             r == range_at(t.index)
  <2>1. n \in 1 .. Len(soc_map) /\ n - 1 = i /\ n \in 0 .. Len(soc_map)
    BY <1>1, <1>3
  <2>2. soc_map[n].size \in Nat
    BY <2>1, SocRangeTypes
  <2> HIDE DEF n
  <2>3. /\ r.soc = soc_map[n].soc /\ r.arm = soc_map[n].arm /\ r.size = soc_map[n].size
        /\ r.behind = n * range_words + 1
        /\ t.index \in Nat /\ t.index <= Len(soc_ranges) /\ Len(soc_ranges) = Len(soc_map) * range_words
        /\ range_words \in Nat \ {0}
    <3>1. t.index = (n - 1) * range_words + 1
      BY <2>1
    <3> QED
      BY <2>1, <3>1, RangeAt
  <2>4. Len(soc_map) * range_words \in Nat
    BY <1>1, <2>3
  <2>5. ~(t.index > Len(soc_ranges))
    BY <2>3, <2>4
  <2> HIDE DEF r
  <2>6. TurnStep(t) = [index |-> r.behind, offset |-> t.offset + r.size]
    BY <2>5 DEF TurnStep, r
  <2>7. TurnStep(t).index = n * range_words + 1 /\ TurnStep(t).offset = t.offset + soc_map[n].size
    BY <2>3, <2>6
  <2>8. TurnStep(t) \in TurnStates
    <3>1. r.behind \in {j * range_words + 1 : j \in 0 .. Len(soc_map)}
      BY <2>1, <2>3
    <3>2. t.offset + r.size \in Nat
      BY <1>1, <2>2, <2>3
    <3> QED
      BY <2>6, <3>1, <3>2 DEF TurnStates
  <2> QED
    BY <1>3, <2>3, <2>5, <2>7, <2>8 DEF n, r
<1> QED
  BY <1>2, <1>3

\* The states follow one another.
LEMMA TurnsFollow ==
  ASSUME MapInv
  PROVE  /\ DOMAIN Turns = 0 .. Len(soc_ranges) /\ Len(soc_ranges) \in Nat /\ Len(soc_map) <= Len(soc_ranges)
         /\ Turns[0] = [index |-> 1, offset |-> 0]
         /\ \A k \in 0 .. Len(soc_ranges) : Turns[k] \in TurnStates
         /\ \A k \in 1 .. Len(soc_ranges) : Turns[k] = TurnStep(Turns[k - 1])
<1> DEFINE n == Len(soc_ranges)
           first == [index |-> 1, offset |-> 0]
           step == [k \in 1 .. n |-> [t \in TurnStates |-> TurnStep(t)]]
           Run(f) == f = [k \in 0 .. n |-> IF k = 0 THEN first ELSE TurnStep(f[k - 1])]
<1>1. n \in Nat /\ Len(soc_map) <= n /\ Len(soc_map) \in Nat
  <2>1. range_words \in Nat \ {0}
    <3>1. cells.soc \in BOOLEAN /\ cells.arm \in BOOLEAN /\ cells.size \in BOOLEAN
      BY DEF MapInv
    <3> QED
      BY <3>1 DEF range_words, cell_words
  <2>2. Len(soc_map) \in Nat
    BY SocRangeTypes
  <2>3. Len(soc_map) * range_words \in Nat /\ Len(soc_map) <= Len(soc_map) * range_words
    <3> DEFINE a == Len(soc_map)
               b == range_words
    <3>1. a \in Nat /\ b \in Nat \ {0}
      BY <2>1, <2>2
    <3> HIDE DEF a, b
    <3>2. b - 1 \in Nat
      BY <3>1
    <3>3. a * (b - 1) \in Nat /\ a * (b - 1) = a * b - a
      BY <3>1, <3>2
    <3>4. a * b \in Nat
      BY <3>1
    <3>5. a * b \in Nat /\ a <= a * b
      BY <3>1, <3>3, <3>4
    <3> QED
      BY <3>5 DEF a, b
  <2> QED
    BY <2>2, <2>3 DEF soc_ranges
<1>2. first \in TurnStates
  <2>1. 0 \in 0 .. Len(soc_map)
    BY <1>1
  <2>2. range_words \in Int
    <3>1. cells.soc \in BOOLEAN /\ cells.arm \in BOOLEAN /\ cells.size \in BOOLEAN
      BY DEF MapInv
    <3> QED
      BY <3>1 DEF range_words, cell_words
  <2>3. 0 * range_words + 1 = 1
    BY <2>2
  <2> QED
    BY <2>1, <2>3 DEF TurnStates
<1>3. ASSUME NEW t \in TurnStates PROVE TurnStep(t) \in TurnStates
  <2>1. PICK i \in 0 .. Len(soc_map) : t.index = i * range_words + 1
    BY DEF TurnStates
  <2> QED
    BY <2>1, TurnFacts
<1>4. Turns = CHOOSE f : Run(f)
  BY DEF Turns, TurnStep
<1> DEFINE run == Turns
<1> HIDE DEF first, run
<1>5. StepFunctions(step, n, TurnStates)
  BY <1>3 DEF StepFunctions
<1>6. PICK f : Iterates(f, step, first, n, TurnStates)
  <2> HIDE DEF step, n
  <2> QED
    BY <1>1, <1>2, <1>5, Iteration
<1>7. \A k \in 0 .. n : k # 0 => k \in 1 .. n /\ k - 1 \in 0 .. n
  BY <1>1
<1>8. ASSUME NEW k \in 1 .. n PROVE step[k][f[k - 1]] = TurnStep(f[k - 1])
  <2>1. k - 1 \in 0 .. n
    BY <1>1
  <2>2. f[k - 1] \in TurnStates
    BY <1>6, <2>1 DEF Iterates
  <2> QED
    BY <2>2
<1>9. \A k \in 0 .. n : f[k] = IF k = 0 THEN first ELSE TurnStep(f[k - 1])
  <2> HIDE DEF step, n
  <2> QED
    BY <1>6, <1>7, <1>8 DEF Iterates
<1>10. Run(f)
  <2>1. f = [k \in 0 .. n |-> f[k]]
    BY <1>6 DEF Iterates
  <2> QED
    BY <1>9, <2>1
<1>11. Run(run)
  <2>1. run = CHOOSE g : Run(g)
    BY <1>4 DEF run
  <2> HIDE DEF Run
  <2> QED
    BY <1>10, <2>1
<1>12. DOMAIN run = 0 .. n /\ run[0] = first /\ \A k \in 1 .. n : run[k] = TurnStep(run[k - 1])
  <2>1. \A k \in 1 .. n : k \in 0 .. n /\ k # 0
    BY <1>1
  <2>2. 0 \in 0 .. n
    BY <1>1
  <2> QED
    BY <1>11, <2>1, <2>2
<1>13. \A k \in 0 .. n : run[k] \in TurnStates
  <2> DEFINE Bad == {k \in 0 .. n : run[k] \notin TurnStates}
  <2> SUFFICES ASSUME Bad # {} PROVE FALSE
    OBVIOUS
  <2>1. Bad \in SUBSET Nat
    OBVIOUS
  <2>2. PICK m \in Bad : \A j \in Bad : m <= j
    <3> HIDE DEF Bad
    <3> QED
      BY <2>1, LeastNatural
  <2>3. m # 0
    BY <1>2, <1>12, <2>2
  <2>4. m \in 1 .. n /\ m - 1 \in 0 .. n /\ ~(m <= m - 1)
    BY <1>1, <2>2, <2>3
  <2>5. run[m - 1] \in TurnStates
    BY <2>2, <2>4
  <2>6. run[m] \in TurnStates
    BY <1>3, <1>12, <2>4, <2>5
  <2> QED
    BY <2>2, <2>6
<1> QED
  BY <1>1, <1>12, <1>13 DEF run, first

\* The n-th turn reads the range n + 1, and the offset is the size of the ranges before it.
ReadsInOrder ==
  /\ Taken = 0 .. Len(soc_map) - 1 /\ Turns[0].offset = 0
  /\ \A n \in 0 .. Len(soc_map) - 1 :
       /\ range_at(Turns[n].index).soc = soc_map[n + 1].soc
       /\ range_at(Turns[n].index).arm = soc_map[n + 1].arm
       /\ range_at(Turns[n].index).size = soc_map[n + 1].size
       /\ Turns[n].offset \in Nat /\ Turns[n + 1].offset = Turns[n].offset + soc_map[n + 1].size

\* The loops read the ranges in their order and end behind the last one.
LEMMA TurnsRead ==
  ASSUME MapInv
  PROVE  ReadsInOrder
<1> DEFINE N == Len(soc_map)
           L == Len(soc_ranges)
           run == Turns
           W == range_words
           Bad == {k \in Nat : k <= L /\ run[k].index # (IF k <= N THEN k ELSE N) * W + 1}
<1>1. /\ DOMAIN run = 0 .. L /\ L \in Nat /\ N <= L
      /\ run[0] = [index |-> 1, offset |-> 0]
      /\ \A k \in 0 .. L : run[k] \in TurnStates
      /\ \A k \in 1 .. L : run[k] = TurnStep(run[k - 1])
  BY TurnsFollow
<1>2. N \in Nat
  BY SocRangeTypes
<1>3. W \in Nat
  <2>1. cells.soc \in BOOLEAN /\ cells.arm \in BOOLEAN /\ cells.size \in BOOLEAN
    BY DEF MapInv
  <2> QED
    BY <2>1 DEF range_words, cell_words
<1> HIDE DEF N, L, run, W
<1>4. ASSUME NEW i \in 0 .. N, NEW k \in 0 .. L, run[k].index = i * W + 1
      PROVE  /\ i = N <=> run[k].index > L
             /\ i = N => TurnStep(run[k]) = run[k]
             /\ i # N => /\ TurnStep(run[k]).index = (i + 1) * W + 1
                         /\ TurnStep(run[k]).offset = run[k].offset + soc_map[i + 1].size
                         /\ range_at(run[k].index).soc = soc_map[i + 1].soc
                         /\ range_at(run[k].index).arm = soc_map[i + 1].arm
                         /\ range_at(run[k].index).size = soc_map[i + 1].size
  <2> DEFINE t == run[k]
  <2>1. t \in TurnStates
    BY <1>1
  <2>2. t.index = i * range_words + 1 /\ i \in 0 .. Len(soc_map)
    BY <1>4 DEF W, N
  <2> HIDE DEF t
  <2>3. /\ i = Len(soc_map) <=> t.index > Len(soc_ranges)
        /\ i = Len(soc_map) => TurnStep(t) = t
        /\ i # Len(soc_map) => /\ TurnStep(t).index = (i + 1) * range_words + 1
                               /\ TurnStep(t).offset = t.offset + soc_map[i + 1].size
                               /\ range_at(t.index).soc = soc_map[i + 1].soc
                               /\ range_at(t.index).arm = soc_map[i + 1].arm
                               /\ range_at(t.index).size = soc_map[i + 1].size
    BY <2>1, <2>2, TurnFacts
  <2> QED
    BY <2>3 DEF t, N, L, W
<1>5. Bad = {}
  <2> SUFFICES ASSUME Bad # {} PROVE FALSE
    OBVIOUS
  <2>1. Bad \in SUBSET Nat
    OBVIOUS
  <2>2. PICK m \in Bad : \A j \in Bad : m <= j
    <3> HIDE DEF Bad
    <3> QED
      BY <2>1, LeastNatural
  <2>3. m # 0
    <3>1. 0 * W + 1 = 1 /\ 0 <= N
      BY <1>2, <1>3
    <3> QED
      BY <1>1, <2>2, <3>1
  <2>4. m \in 1 .. L /\ m - 1 \in 0 .. L /\ ~(m <= m - 1) /\ m - 1 \in Nat /\ m - 1 <= L
    BY <1>1, <2>2, <2>3
  <2>5. run[m - 1].index = (IF m - 1 <= N THEN m - 1 ELSE N) * W + 1
    BY <2>2, <2>4
  <2>6. run[m] = TurnStep(run[m - 1])
    BY <1>1, <2>4
  <2>7. CASE m <= N
    <3>1. m - 1 \in 0 .. N /\ m - 1 # N /\ m - 1 <= N /\ m - 1 + 1 = m
      BY <1>2, <2>4, <2>7
    <3>2. run[m - 1].index = (m - 1) * W + 1
      BY <2>5, <3>1
    <3>3. TurnStep(run[m - 1]).index = (m - 1 + 1) * W + 1
      BY <1>4, <2>4, <3>1, <3>2
    <3> QED
      BY <2>2, <2>6, <2>7, <3>1, <3>3
  <2>8. CASE ~(m <= N)
    <3>1. (IF m - 1 <= N THEN m - 1 ELSE N) = N /\ N \in 0 .. N
      BY <1>2, <2>4, <2>8
    <3>2. run[m - 1].index = N * W + 1
      BY <2>5, <3>1
    <3>3. TurnStep(run[m - 1]) = run[m - 1]
      BY <1>4, <2>4, <3>1, <3>2
    <3> QED
      BY <2>2, <2>6, <2>8, <3>2, <3>3
  <2> QED
    BY <2>7, <2>8
<1>6. \A k \in 0 .. L : run[k].index = (IF k <= N THEN k ELSE N) * W + 1
  <2>1. \A k \in 0 .. L : k \in Nat /\ k <= L
    BY <1>1
  <2> QED
    BY <1>5, <2>1
<1>7. ASSUME NEW k \in 0 .. L
      PROVE  run[k].index <= L <=> k \in 0 .. N - 1
  <2> DEFINE i == IF k <= N THEN k ELSE N
  <2>1. i \in 0 .. N /\ run[k].index = i * W + 1 /\ (i = N <=> ~(k \in 0 .. N - 1))
    BY <1>1, <1>2, <1>6
  <2> HIDE DEF i
  <2>2. i = N <=> run[k].index > L
    BY <1>4, <2>1
  <2>3. run[k].index \in Nat
    <3>1. i * W \in Nat
      BY <1>2, <1>3, <2>1
    <3> QED
      BY <2>1, <3>1
  <2> QED
    BY <1>1, <2>1, <2>2, <2>3
<1>8. Taken = 0 .. N - 1
  <2>1. Taken = {k \in 0 .. L : run[k].index <= L}
    BY <1>1 DEF Taken, run, L
  <2>2. \A k \in 0 .. N - 1 : k \in 0 .. L
    BY <1>1, <1>2
  <2> QED
    BY <1>7, <2>1, <2>2
<1>9. ASSUME NEW k \in 0 .. N - 1
      PROVE  /\ range_at(run[k].index).soc = soc_map[k + 1].soc
             /\ range_at(run[k].index).arm = soc_map[k + 1].arm
             /\ range_at(run[k].index).size = soc_map[k + 1].size
             /\ run[k].offset \in Nat /\ run[k + 1].offset = run[k].offset + soc_map[k + 1].size
  <2>1. k \in 0 .. N /\ k \in 0 .. L /\ k # N /\ k <= N /\ k + 1 \in 1 .. L /\ k + 1 - 1 = k
    BY <1>1, <1>2
  <2>2. run[k].index = k * W + 1
    BY <1>6, <2>1
  <2>3. run[k + 1] = TurnStep(run[k])
    <3> DEFINE o == k + 1
    <3>1. o \in 1 .. L /\ o - 1 = k
      BY <2>1
    <3> HIDE DEF o
    <3>2. run[o] = TurnStep(run[o - 1])
      BY <1>1, <3>1
    <3> QED
      BY <3>1, <3>2 DEF o
  <2>4. run[k].offset \in Nat
    <3>1. run[k] \in TurnStates
      BY <1>1, <2>1
    <3> QED
      BY <3>1 DEF TurnStates
  <2> QED
    BY <1>4, <2>1, <2>2, <2>3, <2>4
<1> QED
  BY <1>1, <1>8, <1>9 DEF ReadsInOrder, N, run

\* A range ends before a later one begins.
LEMMA RangesApart ==
  ASSUME MapInv, NEW n \in 0 .. Len(soc_map) - 1, NEW m \in Nat, m < n
  PROVE  Turns[m].offset + soc_map[m + 1].size <= Turns[n].offset
<1> DEFINE N == Len(soc_map)
           off(k) == Turns[k].offset
           size(k) == soc_map[k + 1].size
           Bad == {k \in Nat : k < N /\ m < k /\ ~(off(m) + size(m) <= off(k))}
<1>1. N \in Nat /\ \A k \in 0 .. N - 1 : size(k) \in Nat
  <2>1. N \in Nat /\ \A i \in 1 .. N : soc_map[i].size \in Nat
    BY SocRangeTypes
  <2>2. \A k \in 0 .. N - 1 : k + 1 \in 1 .. N
    BY <2>1
  <2> QED
    BY <2>1, <2>2
<1>2. \A k \in 0 .. N - 1 : off(k) \in Nat /\ off(k + 1) = off(k) + size(k)
  BY TurnsRead DEF ReadsInOrder
<1> HIDE DEF off, size, N
<1>3. Bad = {}
  <2> SUFFICES ASSUME Bad # {} PROVE FALSE
    OBVIOUS
  <2>1. Bad \in SUBSET Nat
    OBVIOUS
  <2>2. PICK k \in Bad : \A j \in Bad : k <= j
    <3> HIDE DEF Bad
    <3> QED
      BY <2>1, LeastNatural
  <2> DEFINE j == k - 1
  <2>3. j \in 0 .. N - 1 /\ k = j + 1 /\ k \in Nat /\ m < k /\ k < N /\ ~(k <= j) /\ m \in 0 .. N - 1
    BY <1>1, <2>2
  <2>4. j = m \/ m < j
    BY <2>3
  <2> HIDE DEF j
  <2>5. off(k) = off(j) + size(j) /\ off(j) \in Nat /\ size(j) \in Nat /\ off(m) \in Nat /\ size(m) \in Nat
    BY <1>1, <1>2, <2>3
  <2>6. m < j => off(m) + size(m) <= off(j)
    <3>1. j \in Nat /\ j < N
      BY <1>1, <2>3
    <3> QED
      BY <2>2, <2>3, <3>1
  <2>7. off(m) + size(m) <= off(k)
    BY <2>4, <2>5, <2>6
  <2> QED
    BY <2>2, <2>7
<1>4. n \in Nat /\ n < N
  BY <1>1 DEF N
<1> QED
  BY <1>3, <1>4 DEF off, size

\* Where the pages lead to that an address is in.
Reached(va) == {m[2] - m[1] + va : m \in {m \in setup_device_mapping : va - m[1] \in 0 .. DT_PAGE_SIZE - 1}}

\* An address in a page.
LEMMA InPage ==
  ASSUME NEW d \in Int, NEW P \in Int, NEW p \in Int, NEW o \in Int, NEW s \in Int, NEW e \in Int,
         e = p + d - o - s, 0 <= e, e < P
  PROVE  o + s <= p + d /\ p + d < o + s + P
OBVIOUS

\* The address of a device is in a page that is mapped, and every page it is in is mapped for its range.
LEMMA Converts ==
  ASSUME MapInv, NEW a \in Nat, NEW i \in 1 .. Len(soc_map), soc_map[i].soc <= a, a < soc_map[i].soc + soc_map[i].size,
         NEW va, va = DEVICE_MEMORY + Turns[i - 1].offset + (a - soc_map[i].soc)
  PROVE  Reached(va) = {soc_map[i].arm + (a - soc_map[i].soc)}
<1> DEFINE N == Len(soc_map)
           P == DT_PAGE_SIZE
           h == i - 1
           off(k) == Turns[k].offset
           size(k) == soc_map[k + 1].size
           arm(k) == soc_map[k + 1].arm
           d == a - soc_map[i].soc
           DevicePage(n, k) == <<DEVICE_MEMORY + off(n) + k * P, arm(n) + k * P>>
<1>1. N \in Nat /\ h \in 0 .. N - 1 /\ h + 1 = i /\ P \in Nat \ {0} /\ DEVICE_MEMORY \in Nat
  BY SocRangeTypes, RangesAssumption
<1>2. \A k \in 0 .. N - 1 : size(k) \in Nat /\ arm(k) \in Nat /\ size(k) = (size(k) \div P) * P /\ size(k) \div P \in Nat
  <2>1. ASSUME NEW j \in 1 .. N
        PROVE  /\ soc_map[j].size \in Nat /\ soc_map[j].arm \in Nat
               /\ soc_map[j].size = (soc_map[j].size \div P) * P /\ soc_map[j].size \div P \in Nat
    <3> DEFINE z == soc_map[j].size
    <3>1. z \in Nat /\ soc_map[j].arm \in Nat /\ (z % P) = 0
      BY SocRangeTypes
    <3> HIDE DEF z
    <3>2. (z % P) = z - (z \div P) * P /\ z \div P \in Nat /\ (z \div P) * P \in Nat
      <4>1. (z % P) = z - (z \div P) * P /\ z \div P \in Nat
        BY <1>1, <3>1, RestOfPage, PageOfAddress
      <4> DEFINE o == z \div P
      <4>2. o \in Nat
        BY <4>1
      <4> HIDE DEF o
      <4>3. o * P \in Nat
        BY <1>1, <4>2
      <4> QED
        BY <4>1, <4>3 DEF o
    <3>3. z = (z \div P) * P
      BY <3>1, <3>2
    <3> QED
      BY <3>1, <3>2, <3>3 DEF z
  <2>2. \A k \in 0 .. N - 1 : k + 1 \in 1 .. N
    BY <1>1
  <2> QED
    BY <2>1, <2>2
<1>3. \A k \in 0 .. N - 1 : off(k) \in Nat
  BY TurnsRead DEF ReadsInOrder
<1>4. d \in Nat /\ d < size(h) /\ va = DEVICE_MEMORY + off(h) + d /\ soc_map[i].arm = arm(h)
  <2>1. soc_map[i].soc \in Nat /\ soc_map[i].size \in Nat
    BY SocRangeTypes
  <2> QED
    BY <1>1, <2>1
<1>5. setup_device_mapping = UNION {{DevicePage(n, k) : k \in 0 .. (size(n) \div P) - 1} : n \in 0 .. N - 1}
  <2> DEFINE MappedPages(n) == LET r == range_at(Turns[n].index)
                         IN {<<DEVICE_MEMORY + Turns[n].offset + k * DT_PAGE_SIZE, r.arm + k * DT_PAGE_SIZE>>
                               : k \in 0 .. (r.size \div DT_PAGE_SIZE) - 1}
  <2>1. setup_device_mapping = UNION {MappedPages(n) : n \in Taken}
    BY DEF setup_device_mapping
  <2>2. Taken = 0 .. N - 1
    BY TurnsRead DEF ReadsInOrder
  <2>3. ASSUME NEW n \in 0 .. N - 1 PROVE MappedPages(n) = {DevicePage(n, k) : k \in 0 .. (size(n) \div P) - 1}
    <3>1. range_at(Turns[n].index).arm = arm(n) /\ range_at(Turns[n].index).size = size(n)
      BY TurnsRead DEF ReadsInOrder
    <3> QED
      BY <3>1
  <2> HIDE DEF MappedPages, DevicePage, N, size, P
  <2> QED
    BY <2>1, <2>2, <2>3
<1>6. \A n \in 0 .. N - 1 : \A m \in 0 .. N - 1 : m < n => off(m) + size(m) <= off(n)
  <2>1. \A m \in 0 .. N - 1 : m \in Nat
    BY <1>1
  <2> QED
    BY <2>1, RangesApart
<1> HIDE DEF N, P, h, off, size, arm, d
<1>7. ASSUME NEW n \in 0 .. N - 1, NEW k \in 0 .. (size(n) \div P) - 1,
             va - (DEVICE_MEMORY + off(n) + k * P) \in 0 .. P - 1
      PROVE  n = h /\ (arm(n) + k * P) - (DEVICE_MEMORY + off(n) + k * P) + va = arm(h) + d
  <2> DEFINE z == size(n) \div P
             s == k * P
  <2>1. z \in Nat /\ k \in Nat /\ k < z /\ size(n) = z * P /\ off(n) \in Nat /\ size(n) \in Nat /\ arm(n) \in Nat
    BY <1>2, <1>3
  <2> HIDE DEF z
  <2>2. s \in Nat /\ s + P <= size(n)
    <3>1. k * P \in Nat
      BY <1>1, <2>1
    <3>2. k * P + P <= z * P
      BY <1>1, <2>1, PagesInOrder
    <3> QED
      BY <2>1, <3>1, <3>2
  <2>3. va - (DEVICE_MEMORY + off(n) + s) \in 0 .. P - 1
    BY <1>7
  <2> HIDE DEF s
  <2>4. off(h) \in Nat /\ size(h) \in Nat
    BY <1>1, <1>2, <1>3
  <2>5. off(n) + s <= off(h) + d /\ off(h) + d < off(n) + s + P
    <3> DEFINE e == va - (DEVICE_MEMORY + off(n) + s)
    <3>1. e \in Int /\ 0 <= e /\ e < P
      BY <1>1, <2>3
    <3>2. e = off(h) + d - off(n) - s
      BY <1>1, <1>4, <2>1, <2>2, <2>4
    <3> DEFINE o == off(n)
               p == off(h)
    <3>3. d \in Int /\ P \in Int /\ p \in Int /\ o \in Int /\ s \in Int /\ e = p + d - o - s
      BY <1>1, <1>4, <2>1, <2>2, <2>4, <3>2
    <3> HIDE DEF e, o, p
    <3>4. o + s <= p + d /\ p + d < o + s + P
      BY <3>1, <3>3, InPage
    <3> QED
      BY <3>4 DEF o, p
  <2>6. ~(n < h)
    <3> SUFFICES ASSUME n < h PROVE FALSE
      OBVIOUS
    <3>1. off(n) + size(n) <= off(h)
      BY <1>1, <1>6
    <3>2. P \in Nat /\ d \in Nat
      BY <1>1, <1>4
    <3> QED
      BY <2>1, <2>2, <2>4, <2>5, <3>1, <3>2
  <2>7. ~(h < n)
    <3> SUFFICES ASSUME h < n PROVE FALSE
      OBVIOUS
    <3>1. off(h) + size(h) <= off(n)
      BY <1>1, <1>6
    <3>2. d \in Nat /\ d < size(h)
      BY <1>1, <1>4
    <3>3. off(n) <= off(h) + d
      BY <2>1, <2>2, <2>4, <2>5, <3>2
    <3> QED
      BY <2>1, <2>4, <3>1, <3>2, <3>3
  <2>8. n = h
    BY <1>1, <2>6, <2>7
  <2>9. (arm(n) + s) - (DEVICE_MEMORY + off(n) + s) + va = arm(h) + d
    <3> DEFINE o == off(h)
               m == arm(h)
               D == DEVICE_MEMORY
    <3>1. o \in Int /\ m \in Int /\ D \in Int /\ s \in Int /\ d \in Int
      BY <1>1, <1>4, <2>1, <2>2, <2>4, <2>8
    <3>2. va = D + o + d
      BY <1>4
    <3> HIDE DEF o, m, D
    <3>3. (m + s) - (D + o + s) + va = m + d
      BY <3>1, <3>2
    <3> QED
      BY <2>8, <3>3 DEF o, m, D
  <2> QED
    BY <2>8, <2>9 DEF s
<1>8. \E k \in 0 .. (size(h) \div P) - 1 : va - (DEVICE_MEMORY + off(h) + k * P) \in 0 .. P - 1
  <2> DEFINE k == d \div P
             z == size(h) \div P
             s == k * P
  <2>1. z \in Nat /\ size(h) = z * P /\ size(h) \in Nat /\ off(h) \in Nat
    BY <1>1, <1>2, <1>3
  <2>2. k \in Nat /\ s <= d /\ d < s + P /\ s \in Nat
    <3>1. k \in Nat /\ s <= d /\ d < s + P
      BY <1>1, <1>4, PageOfAddress
    <3> HIDE DEF k
    <3>2. k * P \in Nat
      BY <1>1, <3>1
    <3> QED
      BY <3>1, <3>2
  <2> HIDE DEF k, z
  <2>3. k < z
    <3>1. z <= k => z * P <= k * P
      <4>1. z < k => z * P + P <= k * P
        BY <1>1, <2>1, <2>2, PagesInOrder
      <4>2. z * P \in Nat /\ k * P \in Nat
        BY <1>1, <2>1, <2>2
      <4> QED
        BY <1>1, <2>1, <2>2, <4>1, <4>2
    <3> QED
      BY <1>4, <2>1, <2>2, <3>1
  <2>4. k \in 0 .. z - 1
    BY <2>1, <2>2, <2>3
  <2> HIDE DEF s
  <2>5. va - (DEVICE_MEMORY + off(h) + s) \in 0 .. P - 1
    BY <1>1, <1>4, <2>1, <2>2
  <2> QED
    BY <2>4, <2>5 DEF z, s
<1> DEFINE Near == {m \in setup_device_mapping : va - m[1] \in 0 .. P - 1}
<1>9. ASSUME NEW m \in Near PROVE m[2] - m[1] + va = arm(h) + d
  <2>1. PICK n \in 0 .. N - 1 : \E k \in 0 .. (size(n) \div P) - 1 : m = DevicePage(n, k)
    BY <1>5
  <2>2. PICK k \in 0 .. (size(n) \div P) - 1 : m = DevicePage(n, k)
    BY <2>1
  <2>3. m[1] = DEVICE_MEMORY + off(n) + k * P /\ m[2] = arm(n) + k * P
    BY <2>2
  <2>4. va - m[1] \in 0 .. P - 1
    OBVIOUS
  <2> QED
    BY <1>7, <2>3, <2>4
<1>10. \E m \in Near : TRUE
  <2>1. PICK k \in 0 .. (size(h) \div P) - 1 : va - (DEVICE_MEMORY + off(h) + k * P) \in 0 .. P - 1
    BY <1>8
  <2>2. DevicePage(h, k) \in setup_device_mapping
    BY <1>1, <1>5, <2>1
  <2>3. DevicePage(h, k)[1] = DEVICE_MEMORY + off(h) + k * P
    OBVIOUS
  <2> HIDE DEF DevicePage
  <2> QED
    BY <2>1, <2>2, <2>3
<1>11. {m[2] - m[1] + va : m \in Near} = {arm(h) + d}
  <2> HIDE DEF Near
  <2> QED
    BY <1>9, <1>10
<1>12. soc_map[i].arm + (a - soc_map[i].soc) = arm(h) + d
  BY <1>4 DEF d
<1> QED
  BY <1>11, <1>12 DEF P, Reached

\* The sizes of the ranges in front of a range, and the address that must be found with them.
Sums(off) ==
  off[0] = 0 /\ \A k \in 0 .. Len(soc_map) - 1 : off[k] \in Nat /\ off[k + 1] = off[k] + soc_map[k + 1].size
Inside(a) == {i \in DOMAIN soc_map : soc_map[i].soc <= a /\ a < soc_map[i].soc + soc_map[i].size}
Located(off, a, va) ==
  /\ Inside(a) = {} => va = NOT_FOUND
  /\ \A i \in Inside(a) : (\A j \in Inside(a) : i <= j) => va = DEVICE_MEMORY + off[i - 1] + (a - soc_map[i].soc)

\* The conversion finds it.
LEMMA ConversionLocates ==
  ASSUME MapInv, NEW a \in Nat
  PROVE  \E off : Sums(off) /\ Located(off, a, convert_soc_address(a))
<1> DEFINE N == Len(soc_map)
           off == [k \in 0 .. N |-> Turns[k].offset]
           va == convert_soc_address(a)
           In(i) == soc_map[i].soc <= a /\ a < soc_map[i].soc + soc_map[i].size
           hit == CHOOSE n \in Hits(a) : \A m \in Hits(a) : n <= m
<1>1. N \in Nat /\ DOMAIN soc_map = 1 .. N
  BY SocRangeTypes
<1>2. Hits(a) = {n \in 0 .. N - 1 : In(n + 1)}
  BY TurnsRead DEF ReadsInOrder, Hits
<1>3. Inside(a) = {i \in 1 .. N : In(i)}
  BY <1>1 DEF Inside
<1>4. Sums(off)
  <2>1. \A k \in 0 .. N - 1 : k \in 0 .. N /\ k + 1 \in 0 .. N
    BY <1>1
  <2>2. 0 \in 0 .. N
    BY <1>1
  <2>3. /\ Turns[0].offset = 0
        /\ \A k \in 0 .. N - 1 : Turns[k].offset \in Nat /\ Turns[k + 1].offset = Turns[k].offset + soc_map[k + 1].size
    BY TurnsRead DEF ReadsInOrder
  <2> QED
    BY <2>1, <2>2, <2>3 DEF Sums
<1> HIDE DEF In, N
<1>5. Inside(a) = {} => va = NOT_FOUND
  <2>1. \A n \in 0 .. N - 1 : n + 1 \in 1 .. N
    BY <1>1
  <2>2. Inside(a) = {} => Hits(a) = {}
    BY <1>2, <1>3, <2>1
  <2> QED
    BY <2>2 DEF convert_soc_address
<1>6. ASSUME NEW i \in Inside(a), \A j \in Inside(a) : i <= j
      PROVE  va = DEVICE_MEMORY + off[i - 1] + (a - soc_map[i].soc)
  <2>1. i \in 1 .. N /\ In(i) /\ i - 1 \in 0 .. N - 1 /\ i - 1 \in 0 .. N /\ i - 1 + 1 = i
    BY <1>1, <1>3
  <2>2. i - 1 \in Hits(a)
    BY <1>2, <2>1
  <2>3. ASSUME NEW m \in Hits(a) PROVE i - 1 <= m
    <3>1. m \in 0 .. N - 1 /\ m + 1 \in 1 .. N /\ In(m + 1)
      BY <1>1, <1>2
    <3>2. i <= m + 1
      BY <1>3, <1>6, <3>1
    <3> QED
      BY <1>1, <2>1, <3>1, <3>2
  <2>4. hit = i - 1
    <3>1. \A n \in Hits(a) : n \in Int
      BY <1>1, <1>2
    <3>2. \A n \in Hits(a) : (\A m \in Hits(a) : n <= m) => n = i - 1
      BY <2>2, <2>3, <3>1
    <3> QED
      BY <2>2, <2>3, <3>2
  <2>5. va = DEVICE_MEMORY + Turns[hit].offset + (a - range_at(Turns[hit].index).soc)
    BY <2>2 DEF convert_soc_address
  <2> HIDE DEF hit
  <2>6. range_at(Turns[i - 1].index).soc = soc_map[i].soc
    <3> DEFINE h == i - 1
    <3>1. h \in 0 .. N - 1 /\ h + 1 = i
      BY <2>1
    <3> HIDE DEF h
    <3>2. range_at(Turns[h].index).soc = soc_map[h + 1].soc
      BY <3>1, TurnsRead DEF ReadsInOrder, N
    <3> QED
      BY <3>1, <3>2 DEF h
  <2>7. off[i - 1] = Turns[i - 1].offset
    BY <2>1
  <2> QED
    BY <2>4, <2>5, <2>6, <2>7
<1>7. Located(off, a, va)
  <2> HIDE DEF off, va
  <2> QED
    BY <1>5, <1>6 DEF Located
<1> QED
  BY <1>4, <1>7

\* There is one such sum.
LEMMA SumsAgree ==
  ASSUME MapInv, NEW off, Sums(off), NEW n \in 0 .. Len(soc_map) - 1
  PROVE  off[n] = Turns[n].offset
<1> DEFINE N == Len(soc_map)
           o(k) == Turns[k].offset
           size(k) == soc_map[k + 1].size
           Bad == {k \in Nat : k < N /\ off[k] # o(k)}
<1>1. N \in Nat
  BY SocRangeTypes
<1>2. o(0) = 0 /\ \A k \in 0 .. N - 1 : o(k + 1) = o(k) + size(k)
  BY TurnsRead DEF ReadsInOrder
<1>3. off[0] = 0 /\ \A k \in 0 .. N - 1 : off[k + 1] = off[k] + size(k)
  BY DEF Sums
<1> HIDE DEF o, size, N
<1>4. Bad = {}
  <2> SUFFICES ASSUME Bad # {} PROVE FALSE
    OBVIOUS
  <2>1. Bad \in SUBSET Nat
    OBVIOUS
  <2>2. PICK k \in Bad : \A j \in Bad : k <= j
    <3> HIDE DEF Bad
    <3> QED
      BY <2>1, LeastNatural
  <2>3. k # 0
    BY <1>2, <1>3, <2>2
  <2> DEFINE j == k - 1
  <2>4. j \in 0 .. N - 1 /\ k = j + 1 /\ j \in Nat /\ j < N /\ ~(k <= j)
    BY <1>1, <2>2, <2>3
  <2> HIDE DEF j
  <2>5. off[j] = o(j)
    BY <2>2, <2>4
  <2>6. off[k] = o(k)
    BY <1>2, <1>3, <2>4, <2>5
  <2> QED
    BY <2>2, <2>6
<1>5. n \in Nat /\ n < N
  BY <1>1 DEF N
<1> QED
  BY <1>4, <1>5 DEF o

\* The conversion that was asked for, if any, has located the address.
SocRangesInv ==
  /\ MapInv
  /\ conversion.op = "convert" => conversion.soc \in Nat /\ \E off : Sums(off) /\ Located(off, conversion.soc, conversion.va)

\* The address the kernel computes for a device is mapped to its registers, for any ranges and any widths of
\* their numbers: both parsers of "/soc/ranges" read it in the same way (kernel_dt.cpp, mmu_init.cpp).
THEOREM DevicesCorrect == RangesSpec => []DevicesAreMapped
<1>1. RangesInit => SocRangesInv
  BY DEF RangesInit, SocRangesInv, MapInv
<1>2. SocRangesInv /\ [RangesNext]_rangesVars => SocRangesInv'
  <2> SUFFICES ASSUME SocRangesInv, [RangesNext]_rangesVars PROVE SocRangesInv'
    OBVIOUS
  <2>1. soc_map' = soc_map /\ cells' = cells
    BY DEF RangesNext, ConvertSocAddress, rangesVars
  <2>2. MapInv'
    BY <2>1 DEF SocRangesInv, MapInv
  <2>3. CASE RangesNext
    <3>1. PICK i \in DOMAIN soc_map : \E a \in soc_map[i].soc .. soc_map[i].soc + soc_map[i].size : ConvertSocAddress(a)
      BY <2>3 DEF RangesNext
    <3>2. PICK a \in soc_map[i].soc .. soc_map[i].soc + soc_map[i].size : ConvertSocAddress(a)
      BY <3>1
    <3>3. a \in Nat
      <4>1. soc_map[i].soc \in Nat /\ soc_map[i].size \in Nat
        BY SocRangeTypes DEF SocRangesInv
      <4> QED
        BY <3>2, <4>1
    <3>4. conversion'.op = "convert" /\ conversion'.soc = a /\ conversion'.va = convert_soc_address(a)
      BY <3>2 DEF ConvertSocAddress
    <3>5. PICK off : Sums(off) /\ Located(off, a, convert_soc_address(a))
      BY <3>3, ConversionLocates DEF SocRangesInv
    <3>6. (Sums(off))'
      BY <2>1, <3>5 DEF Sums
    <3>7. Located(off, a, conversion'.va)
      BY <3>4, <3>5
    <3>8. (Located(off, conversion.soc, conversion.va))'
      BY <2>1, <3>4, <3>7 DEF Located, Inside
    <3> QED
      BY <2>2, <3>3, <3>4, <3>6, <3>8 DEF SocRangesInv
  <2>4. CASE UNCHANGED rangesVars
    <3>1. conversion' = conversion
      BY <2>4 DEF rangesVars
    <3> QED
      BY <2>1, <2>2, <3>1 DEF SocRangesInv, Sums, Located, Inside
  <2> QED
    BY <2>3, <2>4
<1>3. SocRangesInv => DevicesAreMapped
  <2> SUFFICES ASSUME SocRangesInv, conversion.op = "convert" PROVE DevicesAreMapped
    BY DEF DevicesAreMapped
  <2> DEFINE a == conversion.soc
             va == conversion.va
             least == CHOOSE i \in Inside(a) : \A j \in Inside(a) : i <= j
  <2>1. MapInv /\ a \in Nat /\ \E off : Sums(off) /\ Located(off, a, va)
    BY DEF SocRangesInv
  <2>2. PICK off : Sums(off) /\ Located(off, a, va)
    BY <2>1
  <2>3. Len(soc_map) \in Nat /\ DOMAIN soc_map = 1 .. Len(soc_map)
    BY <2>1, SocRangeTypes
  <2>4. DevicesAreMapped <=> IF Inside(a) = {} THEN va = NOT_FOUND
                             ELSE Reached(va) = {soc_map[least].arm + (a - soc_map[least].soc)}
    BY DEF DevicesAreMapped, Inside, Reached
  <2> HIDE DEF a, va
  <2>5. CASE Inside(a) = {}
    BY <2>2, <2>4, <2>5 DEF Located
  <2>6. CASE Inside(a) # {}
    <3>1. Inside(a) \subseteq Nat
      BY <2>3 DEF Inside
    <3>2. \E i \in Inside(a) : \A j \in Inside(a) : i <= j
      BY <2>6, <3>1, LeastNatural
    <3>3. least \in Inside(a) /\ \A j \in Inside(a) : least <= j
      BY <3>2
    <3> HIDE DEF least
    <3>4. least \in 1 .. Len(soc_map) /\ soc_map[least].soc <= a /\ a < soc_map[least].soc + soc_map[least].size
          /\ least - 1 \in 0 .. Len(soc_map) - 1
      BY <2>3, <3>3 DEF Inside
    <3>5. va = DEVICE_MEMORY + off[least - 1] + (a - soc_map[least].soc)
      BY <2>2, <3>3 DEF Located
    <3>6. off[least - 1] = Turns[least - 1].offset
      BY <2>1, <2>2, <3>4, SumsAgree
    <3>7. va = DEVICE_MEMORY + Turns[least - 1].offset + (a - soc_map[least].soc)
      BY <3>5, <3>6
    <3>8. Reached(va) = {soc_map[least].arm + (a - soc_map[least].soc)}
      BY <2>1, <3>4, <3>7, Converts
    <3> QED
      BY <2>4, <2>6, <3>8
  <2> QED
    BY <2>5, <2>6
<1> QED
  BY <1>1, <1>2, <1>3, PTL DEF RangesSpec
=============================================================================
