-------------------------- MODULE ContainerProofs --------------------------
(***************************************************************************)
(* Three containers. The doubly linked list is the sequence its calls ask  *)
(* for: for any set of addresses, lists of any length and any order of     *)
(* calls. A pipe is a channel of bytes, for every capacity and every       *)
(* sequence of reads and writes of any size. The lists of open files and   *)
(* directories of the tasks hold the objects that are open, once each, for *)
(* any disk and whichever addresses the allocator hands out.               *)
(***************************************************************************)
EXTENDS LinkedList, Pipe, OpenFiles, SequenceTheorems, OrderTheorems

(***************************************************************************)
(* The doubly linked list. Each call puts a node at one position or takes  *)
(* one away; the lemmas prove the effect of the three link operations at a *)
(* position.                                                               *)
(***************************************************************************)

\* A sequence with an element more, and with one less.
LEMMA InsertedType ==
  ASSUME NEW s \in Seq(Node), NEW i \in 1 .. Len(s) + 1, NEW n \in Node
  PROVE  inserted(s, i, n) \in Seq(Node) /\ Len(inserted(s, i, n)) = Len(s) + 1
  BY DEF inserted

\* The same for the other.
LEMMA RemovedType ==
  ASSUME NEW s \in Seq(Node), NEW i \in 1 .. Len(s)
  PROVE  removed(s, i) \in Seq(Node) /\ Len(removed(s, i)) = Len(s) - 1
  BY DEF removed

\* A node at position i of the sequence that was not in use keeps the nodes different.
LEMMA InsertDistinct ==
  ASSUME ListTypeOK, Distinct, NEW i \in 1 .. Len(order) + 1, NEW n \in Node \ allocated,
         order' = inserted(order, i, n), allocated' = allocated \cup {n}
  PROVE  Distinct'
<1>1. order' \in Seq(Node) /\ Len(order') = Len(order) + 1
  BY InsertedType DEF ListTypeOK
<1>2. \A j \in 1 .. Len(order) + 1 : order'[j] = IF j < i THEN order[j] ELSE IF j = i THEN n ELSE order[j - 1]
  BY DEF inserted
<1>3. \A j \in 1 .. Len(order) : order[j] \in allocated
  BY DEF Distinct
<1>4. \A j, k \in 1 .. Len(order') : order'[j] = order'[k] => j = k
  <2> SUFFICES ASSUME NEW j \in 1 .. Len(order'), NEW k \in 1 .. Len(order'), order'[j] = order'[k]
               PROVE  j = k
    OBVIOUS
  <2> DEFINE old(x) == IF x < i THEN x ELSE x - 1
  <2>1. \A x \in 1 .. Len(order') :
          x # i => old(x) \in 1 .. Len(order) /\ order'[x] = order[old(x)] /\ order'[x] \in allocated
    BY <1>1, <1>2, <1>3 DEF ListTypeOK
  <2>2. order'[i] = n
    BY <1>2
  <2>3. CASE j # i /\ k # i
    <3>1. /\ old(j) \in 1 .. Len(order) /\ old(k) \in 1 .. Len(order)
          /\ order[old(j)] = order[old(k)]
      BY <2>1, <2>3
    <3>2. \A x, y \in 1 .. Len(order) : order[x] = order[y] => x = y
      BY DEF Distinct
    <3>3. old(j) = old(k)
      BY <3>1, <3>2
    <3> QED
      BY <1>1, <2>3, <3>3 DEF ListTypeOK
  <2>4. CASE j = i \/ k = i
    BY <2>1, <2>2, <2>4
  <2> QED
    BY <2>3, <2>4
<1>5. \A j \in 1 .. Len(order') : order'[j] \in allocated'
  BY <1>1, <1>2, <1>3 DEF ListTypeOK
<1>6. \A m \in allocated' : \E j \in 1 .. Len(order') : order'[j] = m
  <2> SUFFICES ASSUME NEW m \in allocated' PROVE \E j \in 1 .. Len(order') : order'[j] = m
    OBVIOUS
  <2>1. CASE m = n
    BY <1>1, <1>2, <2>1 DEF ListTypeOK
  <2>2. CASE m \in allocated
    <3>1. PICK j \in 1 .. Len(order) : order[j] = m
      BY <2>2 DEF Distinct
    <3>2. CASE j < i
      BY <1>1, <1>2, <3>1, <3>2 DEF ListTypeOK
    <3>3. CASE j >= i
      <4>1. j + 1 \in 1 .. Len(order) + 1 /\ j + 1 > i /\ (j + 1) - 1 = j
        BY <3>3 DEF ListTypeOK
      <4>2. order'[j + 1] = m
        BY <1>2, <3>1, <4>1
      <4> QED
        BY <1>1, <4>1, <4>2
    <3> QED
      BY <3>2, <3>3 DEF ListTypeOK
  <2> QED
    BY <2>1, <2>2
<1>7. allocated' = {order'[j] : j \in 1 .. Len(order')}
  BY <1>5, <1>6
<1> QED
  BY <1>4, <1>7 DEF Distinct

\* Without its i-th node the sequence is the nodes that are left.
LEMMA RemoveDistinct ==
  ASSUME ListTypeOK, Distinct, NEW i \in 1 .. Len(order),
         order' = removed(order, i), allocated' = allocated \ {order[i]}
  PROVE  Distinct'
<1>1. order' \in Seq(Node) /\ Len(order') = Len(order) - 1
  BY RemovedType DEF ListTypeOK
<1>2. \A j \in 1 .. Len(order) - 1 : order'[j] = IF j < i THEN order[j] ELSE order[j + 1]
  BY DEF removed
<1>3. \A j, k \in 1 .. Len(order') : order'[j] = order'[k] => j = k
  BY <1>1, <1>2 DEF Distinct, ListTypeOK
<1>4. \A j \in 1 .. Len(order') : order'[j] \in allocated'
  BY <1>1, <1>2 DEF Distinct, ListTypeOK
<1>5. \A m \in allocated' : \E j \in 1 .. Len(order') : order'[j] = m
  <2> SUFFICES ASSUME NEW m \in allocated' PROVE \E j \in 1 .. Len(order') : order'[j] = m
    OBVIOUS
  <2>1. PICK j \in 1 .. Len(order) : order[j] = m
    BY DEF Distinct
  <2>2. CASE j < i
    BY <1>1, <1>2, <2>1, <2>2 DEF ListTypeOK
  <2>3. CASE j > i
    <3>1. j - 1 \in 1 .. Len(order) - 1 /\ ~(j - 1 < i) /\ (j - 1) + 1 = j
      BY <2>3 DEF ListTypeOK
    <3> QED
      BY <1>1, <1>2, <2>1, <3>1
  <2>4. j # i
    BY <2>1
  <2> QED
    BY <2>2, <2>3, <2>4 DEF ListTypeOK
<1>6. allocated' = {order'[j] : j \in 1 .. Len(order')}
  BY <1>4, <1>5
<1> QED
  BY <1>3, <1>6 DEF Distinct
-----------------------------------------------------------------------------
\* insert_after() at the i-th node puts the new one at position i + 1.
LEMMA InsertAfterStep ==
  ASSUME ListIsSequence, NEW i \in 1 .. Len(order), NEW n \in Node,
         new_node(n), insert_after(order[i], n), order' = inserted(order, i + 1, n),
         UNCHANGED <<clearing, node>>
  PROVE  ListIsSequence'
<1> USE DEF ListIsSequence
<1> DEFINE pos == order[i]
<1>1. /\ Len(order) \in Nat /\ order # <<>> /\ n \notin allocated /\ ~clearing
      /\ \A j \in 1 .. Len(order) : order[j] \in Node /\ order[j] \in allocated
  BY DEF ListTypeOK, Distinct, new_node
<1>2. order' \in Seq(Node) /\ Len(order') = Len(order) + 1
  BY <1>1, InsertedType DEF ListTypeOK
<1>3. /\ \A j \in 1 .. i : order'[j] = order[j]
      /\ order'[i + 1] = n
      /\ \A j \in i + 2 .. Len(order) + 1 : order'[j] = order[j - 1]
  BY <1>1 DEF inserted
<1>4. Distinct'
  BY <1>1, InsertDistinct DEF new_node
<1>5. \A j \in 1 .. Len(order) : order[j] # n /\ (order[j] = pos => j = i)
  BY <1>1 DEF Distinct
<1>6. next[pos] = IF i = Len(order) THEN nullptr ELSE order[i + 1]
  BY <1>1 DEF Forward
<1>7. next[pos] = nullptr <=> i = Len(order)
  BY <1>1, <1>6, NullAssumption
<1>8. next' = [next EXCEPT ![n] = next[pos], ![pos] = n]
  BY DEF insert_after
<1>9. /\ next' \in [Node -> Pointer] /\ next'[n] = next[pos] /\ next'[pos] = n
      /\ \A m \in Node \ {n, pos} : next'[m] = next[m]
  BY <1>1, <1>5, <1>8 DEF ListTypeOK, Pointer
<1>10. CASE i = Len(order)
  <2>1. m_tail' = n /\ previous' = [previous EXCEPT ![n] = pos] /\ m_head' = m_head
    BY <1>7, <1>10 DEF insert_after
  <2>2. ListTypeOK'
    BY <1>1, <1>2, <1>9, <2>1 DEF ListTypeOK, Pointer, new_node
  <2>3. Forward'
    <3>1. \A j \in 1 .. Len(order') - 1 : next'[order'[j]] = order'[j + 1]
      BY <1>1, <1>2, <1>3, <1>5, <1>9, <1>10 DEF Forward
    <3>2. order'[1] = order[1] /\ next'[order'[Len(order')]] = nullptr
      BY <1>1, <1>2, <1>3, <1>6, <1>9, <1>10
    <3>3. order' # <<>> /\ (IF clearing THEN node ELSE m_head)' = order'[1]
      BY <1>1, <1>2, <2>1, <3>2 DEF Forward
    <3> QED
      BY <3>1, <3>2, <3>3 DEF Forward
  <2>4. Backward'
    BY <1>1, <1>2, <1>3, <1>5, <1>10, <2>1 DEF Backward, ListTypeOK
  <2> QED
    BY <1>4, <2>2, <2>3, <2>4
<1>11. CASE i < Len(order)
  <2>1. /\ m_tail' = m_tail /\ m_head' = m_head
        /\ previous' = [previous EXCEPT ![n] = pos, ![order[i + 1]] = n]
    BY <1>6, <1>7, <1>11 DEF insert_after
  <2>2. ListTypeOK'
    BY <1>1, <1>2, <1>9, <2>1 DEF ListTypeOK, Pointer, new_node
  <2>3. Forward'
    <3>1. \A j \in 1 .. Len(order') - 1 : next'[order'[j]] = order'[j + 1]
      <4> SUFFICES ASSUME NEW j \in 1 .. Len(order') - 1 PROVE next'[order'[j]] = order'[j + 1]
        OBVIOUS
      <4>1. CASE j < i
        BY <1>1, <1>3, <1>5, <1>9, <4>1 DEF Forward
      <4>2. CASE j = i
        BY <1>3, <1>9, <4>2
      <4>3. CASE j = i + 1
        BY <1>1, <1>2, <1>3, <1>6, <1>9, <1>11, <4>3
      <4>4. CASE j > i + 1
        <5>1. j - 1 \in 1 .. Len(order) - 1 /\ j \in i + 2 .. Len(order) + 1 /\ j + 1 \in i + 2 .. Len(order) + 1
          BY <1>1, <1>2, <4>4
        <5>2. order'[j] = order[j - 1] /\ order'[j + 1] = order[j] /\ j - 1 # i
          BY <1>3, <4>4, <5>1
        <5> QED
          BY <1>1, <1>5, <1>9, <5>1, <5>2 DEF Forward
      <4> QED
        BY <1>1, <1>2, <4>1, <4>2, <4>3, <4>4
    <3>2. order'[1] = order[1] /\ order'[Len(order')] = order[Len(order)]
      BY <1>1, <1>2, <1>3, <1>11
    <3>3. next'[order'[Len(order')]] = nullptr
      BY <1>1, <1>5, <1>9, <1>11, <3>2 DEF Forward
    <3>4. order' # <<>> /\ (IF clearing THEN node ELSE m_head)' = order'[1]
      BY <1>1, <1>2, <2>1, <3>2 DEF Forward
    <3> QED
      BY <3>1, <3>3, <3>4 DEF Forward
  <2>4. Backward'
    <3>1. previous'[n] = pos /\ previous'[order[i + 1]] = n /\ \A m \in Node \ {n, order[i + 1]} : previous'[m] = previous[m]
      BY <1>1, <1>5, <1>11, <2>1 DEF ListTypeOK
    <3>2. \A j \in 1 .. Len(order') - 1 : previous'[order'[j + 1]] = order'[j]
      <4> SUFFICES ASSUME NEW j \in 1 .. Len(order') - 1 PROVE previous'[order'[j + 1]] = order'[j]
        OBVIOUS
      <4>1. CASE j < i
        <5>1. order[j + 1] # order[i + 1]
          BY <1>1, <1>11, <4>1 DEF Distinct
        <5> QED
          BY <1>1, <1>3, <1>5, <3>1, <4>1, <5>1 DEF Backward
      <4>2. CASE j = i
        BY <1>3, <3>1, <4>2
      <4>3. CASE j = i + 1
        BY <1>1, <1>2, <1>3, <1>11, <3>1, <4>3
      <4>4. CASE j > i + 1
        <5>1. j - 1 \in 1 .. Len(order) - 1 /\ j \in i + 2 .. Len(order) + 1 /\ j + 1 \in i + 2 .. Len(order) + 1
          BY <1>1, <1>2, <4>4
        <5>2. order'[j] = order[j - 1] /\ order'[j + 1] = order[j]
          BY <1>3, <5>1
        <5>3. order[j] # order[i + 1]
          BY <1>1, <1>11, <4>4, <5>1 DEF Distinct
        <5> QED
          BY <1>1, <1>5, <3>1, <5>1, <5>2, <5>3 DEF Backward
      <4> QED
        BY <1>1, <1>2, <4>1, <4>2, <4>3, <4>4
    <3>3. order'[1] = order[1] /\ order'[Len(order')] = order[Len(order)]
      BY <1>1, <1>2, <1>3, <1>11
    <3>4. order[1] # order[i + 1]
      BY <1>1, <1>11 DEF Distinct
    <3>5. m_tail' = order'[Len(order')] /\ previous'[order'[1]] = nullptr
      <4>1. m_tail = order[Len(order)] /\ previous[order[1]] = nullptr
        BY <1>1 DEF Backward
      <4>2. order[1] \in Node \ {n, order[i + 1]}
        BY <1>1, <1>5, <3>4
      <4> QED
        BY <2>1, <3>1, <3>3, <4>1, <4>2
    <3>6. order' # <<>>
      BY <1>1, <1>2
    <3> QED
      BY <3>2, <3>5, <3>6 DEF Backward
  <2> QED
    BY <1>4, <2>2, <2>3, <2>4
<1> QED
  BY <1>1, <1>10, <1>11

\* insert_before() at the i-th node puts the new one at position i.
LEMMA InsertBeforeStep ==
  ASSUME ListIsSequence, NEW i \in 1 .. Len(order), NEW n \in Node,
         new_node(n), insert_before(order[i], n), order' = inserted(order, i, n),
         UNCHANGED <<clearing, node>>
  PROVE  ListIsSequence'
<1> USE DEF ListIsSequence
<1> DEFINE pos == order[i]
<1>1. /\ Len(order) \in Nat /\ order # <<>> /\ n \notin allocated /\ ~clearing
      /\ \A j \in 1 .. Len(order) : order[j] \in Node /\ order[j] \in allocated
  BY DEF ListTypeOK, Distinct, new_node
<1>2. order' \in Seq(Node) /\ Len(order') = Len(order) + 1 /\ order' # <<>>
  <2>1. i \in 1 .. Len(order) + 1
    BY <1>1
  <2>2. order' \in Seq(Node) /\ Len(order') = Len(order) + 1
    BY <2>1, InsertedType DEF ListTypeOK
  <2> QED
    BY <1>1, <2>2
<1>3. /\ \A j \in 1 .. i - 1 : order'[j] = order[j]
      /\ order'[i] = n
      /\ \A j \in i + 1 .. Len(order) + 1 : order'[j] = order[j - 1]
  BY <1>1 DEF inserted
<1>4. Distinct'
  BY <1>1, InsertDistinct DEF new_node
<1>5. \A j \in 1 .. Len(order) : order[j] # n /\ (order[j] = pos => j = i)
  BY <1>1 DEF Distinct
<1>6. previous[pos] = IF i = 1 THEN nullptr ELSE order[i - 1]
  <2>1. CASE i = 1
    BY <1>1, <2>1 DEF Backward
  <2>2. CASE i > 1
    <3>1. i - 1 \in 1 .. Len(order) - 1 /\ (i - 1) + 1 = i
      BY <1>1, <2>2
    <3> QED
      BY <1>1, <2>2, <3>1 DEF Backward
  <2> QED
    BY <2>1, <2>2
<1>7. previous[pos] = nullptr <=> i = 1
  <2>1. i # 1 => order[i - 1] \in Node
    BY <1>1
  <2> QED
    BY <1>6, <2>1, NullAssumption
<1>8. /\ previous' \in [Node -> Pointer] /\ previous'[n] = previous[pos] /\ previous'[pos] = n
      /\ \A m \in Node \ {n, pos} : previous'[m] = previous[m]
  <2>1. previous' = [previous EXCEPT ![n] = previous[pos], ![pos] = n]
    BY DEF insert_before
  <2> QED
    BY <1>1, <1>5, <2>1 DEF ListTypeOK, Pointer
<1>9. m_tail' = m_tail
  BY DEF insert_before
<1>10. order'[Len(order')] = order[Len(order)]
  BY <1>1, <1>2, <1>3
<1>11. \A j \in 1 .. Len(order') - 1 : previous'[order'[j + 1]] = order'[j]
  <2> SUFFICES ASSUME NEW j \in 1 .. Len(order') - 1 PROVE previous'[order'[j + 1]] = order'[j]
    OBVIOUS
  <2>1. CASE j + 1 < i
    BY <1>1, <1>3, <1>5, <1>8, <2>1 DEF Backward
  <2>2. CASE j + 1 = i
    <3>1. order'[j] = order[i - 1] /\ order'[j + 1] = n /\ i # 1
      BY <1>1, <1>2, <1>3, <2>2
    <3> QED
      BY <1>6, <1>8, <3>1
  <2>3. CASE j = i
    BY <1>1, <1>2, <1>3, <1>8, <2>3
  <2>4. CASE j > i
    <3>1. j - 1 \in 1 .. Len(order) - 1 /\ j \in i + 1 .. Len(order) + 1 /\ j + 1 \in i + 1 .. Len(order) + 1
      BY <1>1, <1>2, <2>4
    <3>2. order'[j] = order[j - 1] /\ order'[j + 1] = order[j] /\ j # i
      BY <1>3, <2>4, <3>1
    <3> QED
      BY <1>1, <1>5, <1>8, <3>1, <3>2 DEF Backward
  <2> QED
    BY <1>1, <1>2, <2>1, <2>2, <2>3, <2>4
<1>12. m_tail' = order'[Len(order')] /\ previous'[order'[1]] = nullptr
  <2>1. m_tail = order[Len(order)] /\ previous[order[1]] = nullptr
    BY <1>1 DEF Backward
  <2>2. CASE i = 1
    BY <1>3, <1>6, <1>8, <1>9, <1>10, <2>1, <2>2
  <2>3. CASE i > 1
    <3>1. order'[1] = order[1] /\ order[1] \in Node \ {n, pos}
      BY <1>1, <1>3, <1>5, <2>3
    <3> QED
      BY <1>8, <1>9, <1>10, <2>1, <3>1
  <2> QED
    BY <2>2, <2>3
<1>13. Backward'
  BY <1>2, <1>11, <1>12 DEF Backward
<1>14. CASE i = 1
  <2>1. m_head' = n /\ next' = [next EXCEPT ![n] = pos]
    BY <1>7, <1>14 DEF insert_before
  <2>2. ListTypeOK'
    BY <1>1, <1>2, <1>8, <1>9, <2>1 DEF ListTypeOK, Pointer, new_node
  <2>3. next'[n] = pos /\ \A m \in Node \ {n} : next'[m] = next[m]
    BY <1>1, <2>1 DEF ListTypeOK, Pointer
  <2>4. \A j \in 1 .. Len(order') - 1 : next'[order'[j]] = order'[j + 1]
    <3> SUFFICES ASSUME NEW j \in 1 .. Len(order') - 1 PROVE next'[order'[j]] = order'[j + 1]
      OBVIOUS
    <3>1. CASE j = 1
      BY <1>1, <1>2, <1>3, <1>14, <2>3, <3>1
    <3>2. CASE j > 1
      <4>1. j - 1 \in 1 .. Len(order) - 1 /\ j \in i + 1 .. Len(order) + 1 /\ j + 1 \in i + 1 .. Len(order) + 1
        BY <1>1, <1>2, <1>14, <3>2
      <4>2. order'[j] = order[j - 1] /\ order'[j + 1] = order[j]
        BY <1>3, <4>1
      <4> QED
        BY <1>1, <1>5, <2>3, <4>1, <4>2 DEF Forward
    <3> QED
      BY <3>1, <3>2
  <2>5. next'[order'[Len(order')]] = nullptr
    BY <1>1, <1>5, <1>10, <2>3 DEF Forward
  <2>6. Forward'
    BY <1>1, <1>2, <1>3, <1>14, <2>1, <2>4, <2>5 DEF Forward
  <2> QED
    BY <1>4, <1>13, <2>2, <2>6
<1>15. CASE i > 1
  <2>1. m_head' = m_head /\ next' = [next EXCEPT ![n] = pos, ![order[i - 1]] = n]
    BY <1>6, <1>7, <1>15 DEF insert_before
  <2>2. order[i - 1] \in Node /\ order[i - 1] # n
    BY <1>1, <1>5, <1>15
  <2>3. ListTypeOK'
    BY <1>1, <1>2, <1>8, <1>9, <2>1, <2>2 DEF ListTypeOK, Pointer, new_node
  <2>4. /\ next'[n] = pos /\ next'[order[i - 1]] = n
        /\ \A m \in Node \ {n, order[i - 1]} : next'[m] = next[m]
    BY <1>1, <2>1, <2>2 DEF ListTypeOK, Pointer
  <2>5. \A j \in 1 .. Len(order') - 1 : next'[order'[j]] = order'[j + 1]
    <3> SUFFICES ASSUME NEW j \in 1 .. Len(order') - 1 PROVE next'[order'[j]] = order'[j + 1]
      OBVIOUS
    <3>1. CASE j + 1 < i
      <4>1. order'[j] = order[j] /\ order'[j + 1] = order[j + 1]
        BY <1>1, <1>2, <1>3, <3>1
      <4>2. order[j] # order[i - 1]
        BY <1>1, <1>2, <3>1 DEF Distinct
      <4> QED
        BY <1>1, <1>5, <2>4, <3>1, <4>1, <4>2 DEF Forward
    <3>2. CASE j + 1 = i
      <4>1. j = i - 1 /\ order'[j] = order[i - 1] /\ order'[j + 1] = n
        BY <1>1, <1>2, <1>3, <3>2
      <4> QED
        BY <2>4, <4>1
    <3>3. CASE j = i
      BY <1>1, <1>2, <1>3, <2>4, <3>3
    <3>4. CASE j > i
      <4>1. j - 1 \in 1 .. Len(order) - 1 /\ j \in i + 1 .. Len(order) + 1 /\ j + 1 \in i + 1 .. Len(order) + 1
        BY <1>1, <1>2, <3>4
      <4>2. order'[j] = order[j - 1] /\ order'[j + 1] = order[j]
        BY <1>3, <4>1
      <4>3. order[j - 1] # order[i - 1]
        BY <1>1, <1>15, <3>4, <4>1 DEF Distinct
      <4> QED
        BY <1>1, <1>5, <2>4, <4>1, <4>2, <4>3 DEF Forward
    <3> QED
      BY <1>1, <1>2, <3>1, <3>2, <3>3, <3>4
  <2>6. order[Len(order)] # order[i - 1] /\ next[order[Len(order)]] = nullptr
    BY <1>1, <1>15 DEF Distinct, Forward
  <2>7. next'[order'[Len(order')]] = nullptr /\ order'[1] = order[1]
    BY <1>1, <1>3, <1>5, <1>10, <1>15, <2>4, <2>6
  <2>8. Forward'
    BY <1>1, <1>2, <2>1, <2>5, <2>7 DEF Forward
  <2> QED
    BY <1>4, <1>13, <2>3, <2>8
<1> QED
  BY <1>14, <1>15

\* The first node of an empty list.
LEMMA InsertOnlyStep ==
  ASSUME ListIsSequence, NEW n \in Node, order = <<>>,
         new_node(n), insert_only(n), order' = inserted(order, 1, n), UNCHANGED <<clearing, node>>
  PROVE  ListIsSequence'
<1> USE DEF ListIsSequence
<1>1. Len(order) = 0 /\ n \notin allocated /\ ~clearing
  BY DEF ListTypeOK, new_node
<1>2. order' \in Seq(Node) /\ Len(order') = 1
  <2>1. 1 \in 1 .. Len(order) + 1
    BY <1>1
  <2>2. order' \in Seq(Node) /\ Len(order') = Len(order) + 1
    BY <2>1, InsertedType DEF ListTypeOK
  <2> QED
    BY <1>1, <2>2
<1>3. order'[1] = n /\ order' # <<>>
  BY <1>1, <1>2 DEF inserted
<1>4. Distinct'
  BY <1>1, InsertDistinct DEF new_node
<1>5. ListTypeOK'
  BY <1>1, <1>2 DEF ListTypeOK, Pointer, new_node, insert_only
<1>6. m_head' = n /\ m_tail' = n /\ next'[n] = nullptr /\ previous'[n] = nullptr
  BY DEF insert_only, ListTypeOK
<1>7. Forward' /\ Backward'
  BY <1>1, <1>2, <1>3, <1>6 DEF Forward, Backward
<1> QED
  BY <1>4, <1>5, <1>7

\* remove_node() of the i-th node.
LEMMA RemoveStep ==
  ASSUME ListIsSequence, NEW i \in 1 .. Len(order),
         remove_node(order[i]), order' = removed(order, i)
  PROVE  ListIsSequence'
<1> USE DEF ListIsSequence
<1> DEFINE n == order[i]
<1>1. /\ Len(order) \in Nat /\ order # <<>> /\ ~clearing /\ ~clearing'
      /\ \A j \in 1 .. Len(order) : order[j] \in Node
      /\ \A j, k \in 1 .. Len(order) : order[j] = order[k] => j = k
  BY DEF ListTypeOK, Distinct, remove_node
<1>2. order' \in Seq(Node) /\ Len(order') = Len(order) - 1
  BY RemovedType DEF ListTypeOK
<1>3. /\ \A j \in 1 .. i - 1 : order'[j] = order[j]
      /\ \A j \in i .. Len(order) - 1 : order'[j] = order[j + 1]
  BY <1>1 DEF removed
<1>4. Distinct'
  BY RemoveDistinct DEF remove_node
<1>5. next[n] = IF i = Len(order) THEN nullptr ELSE order[i + 1]
  BY <1>1 DEF Forward
<1>6. previous[n] = IF i = 1 THEN nullptr ELSE order[i - 1]
  <2>1. CASE i = 1
    BY <1>1, <2>1 DEF Backward
  <2>2. CASE i > 1
    <3>1. i - 1 \in 1 .. Len(order) - 1 /\ (i - 1) + 1 = i
      BY <1>1, <2>2
    <3> QED
      BY <1>1, <2>2, <3>1 DEF Backward
  <2> QED
    BY <2>1, <2>2
<1>7. (next[n] = nullptr <=> i = Len(order)) /\ (previous[n] = nullptr <=> i = 1)
  <2>1. (i # 1 => order[i - 1] \in Node) /\ (i # Len(order) => order[i + 1] \in Node)
    BY <1>1
  <2> QED
    BY <1>5, <1>6, <2>1, NullAssumption
<1>8. /\ m_head' = (IF i = 1 THEN next[n] ELSE m_head)
      /\ m_tail' = (IF i = Len(order) THEN previous[n] ELSE m_tail)
      /\ next' = (IF i = 1 THEN next ELSE [next EXCEPT ![order[i - 1]] = next[n]])
      /\ previous' = (IF i = Len(order) THEN previous ELSE [previous EXCEPT ![order[i + 1]] = previous[n]])
  BY <1>5, <1>6, <1>7 DEF remove_node
<1>9. (i # 1 => order[i - 1] \in Node) /\ (i # Len(order) => order[i + 1] \in Node)
  BY <1>1
<1>10. next[n] \in Pointer /\ previous[n] \in Pointer
  BY <1>1 DEF ListTypeOK
<1>11. ListTypeOK'
  BY <1>1, <1>2, <1>8, <1>9, <1>10 DEF ListTypeOK, remove_node
<1>12. /\ i # 1 => next'[order[i - 1]] = next[n]
       /\ \A m \in Node : (i # 1 => m # order[i - 1]) => next'[m] = next[m]
  BY <1>8, <1>9 DEF ListTypeOK
<1>13. /\ i # Len(order) => previous'[order[i + 1]] = previous[n]
       /\ \A m \in Node : (i # Len(order) => m # order[i + 1]) => previous'[m] = previous[m]
  BY <1>8, <1>9 DEF ListTypeOK
<1>14. \A j \in 1 .. Len(order') - 1 : next'[order'[j]] = order'[j + 1] /\ previous'[order'[j + 1]] = order'[j]
  <2> SUFFICES ASSUME NEW j \in 1 .. Len(order') - 1
               PROVE  next'[order'[j]] = order'[j + 1] /\ previous'[order'[j + 1]] = order'[j]
    OBVIOUS
  <2>1. CASE j < i - 1
    <3>1. j \in 1 .. Len(order) - 1 /\ order'[j] = order[j] /\ order'[j + 1] = order[j + 1]
      BY <1>1, <1>2, <1>3, <2>1
    <3>2. (i # 1 => order[j] # order[i - 1]) /\ (i # Len(order) => order[j + 1] # order[i + 1])
      BY <1>1, <1>2, <2>1
    <3>3. next[order[j]] = order[j + 1] /\ previous[order[j + 1]] = order[j]
      BY <1>1, <3>1 DEF Forward, Backward
    <3>4. order[j] \in Node /\ order[j + 1] \in Node
      BY <1>1, <3>1
    <3> QED
      BY <1>12, <1>13, <3>1, <3>2, <3>3, <3>4
  <2>2. CASE j = i - 1
    <3>1. i # 1 /\ i # Len(order) /\ order'[j] = order[i - 1] /\ order'[j + 1] = order[i + 1]
      BY <1>1, <1>2, <1>3, <2>2
    <3> QED
      BY <1>5, <1>6, <1>12, <1>13, <3>1
  <2>3. CASE j > i - 1
    <3>1. j + 1 \in 1 .. Len(order) - 1 /\ order'[j] = order[j + 1] /\ order'[j + 1] = order[(j + 1) + 1]
      BY <1>1, <1>2, <1>3, <2>3
    <3>2. (i # 1 => order[j + 1] # order[i - 1]) /\ (i # Len(order) => order[(j + 1) + 1] # order[i + 1])
      BY <1>1, <1>2, <2>3
    <3>3. next[order[j + 1]] = order[(j + 1) + 1] /\ previous[order[(j + 1) + 1]] = order[j + 1]
      BY <1>1, <3>1 DEF Forward, Backward
    <3>4. order[j + 1] \in Node /\ order[(j + 1) + 1] \in Node
      BY <1>1, <3>1
    <3> QED
      BY <1>12, <1>13, <3>1, <3>2, <3>3, <3>4
  <2> QED
    BY <1>1, <1>2, <2>1, <2>2, <2>3
<1>15. /\ order' = <<>> => m_head' = nullptr /\ m_tail' = nullptr
       /\ order' # <<>> => m_head' = order'[1] /\ m_tail' = order'[Len(order')]
  <2>1. m_head = order[1] /\ m_tail = order[Len(order)]
    BY <1>1 DEF Forward, Backward
  <2>2. CASE Len(order) = 1
    BY <1>2, <1>5, <1>6, <1>8, <2>2
  <2>3. CASE Len(order) > 1
    <3>1. order' # <<>>
      BY <1>2, <2>3
    <3>2. m_head' = order'[1]
      BY <1>1, <1>3, <1>5, <1>8, <2>1, <2>3
    <3>3. m_tail' = order'[Len(order')]
      BY <1>1, <1>2, <1>3, <1>6, <1>8, <2>1, <2>3
    <3> QED
      BY <3>1, <3>2, <3>3
  <2>4. Len(order) = 1 \/ Len(order) > 1
    BY <1>1
  <2> QED
    BY <2>2, <2>3, <2>4
<1>16. order' # <<>> => next'[order'[Len(order')]] = nullptr /\ previous'[order'[1]] = nullptr
  <2> SUFFICES ASSUME order' # <<>>
               PROVE  next'[order'[Len(order')]] = nullptr /\ previous'[order'[1]] = nullptr
    OBVIOUS
  <2>1. Len(order) > 1
    BY <1>1, <1>2
  <2>2. next[order[Len(order)]] = nullptr /\ previous[order[1]] = nullptr
    BY <1>1 DEF Forward, Backward
  <2>3. next'[order'[Len(order')]] = nullptr
    <3>1. CASE i = Len(order)
      <4>1. i # 1 /\ order'[Len(order')] = order[i - 1]
        BY <1>1, <1>2, <1>3, <2>1, <3>1
      <4> QED
        BY <1>5, <1>12, <3>1, <4>1
    <3>2. CASE i < Len(order)
      <4>1. order'[Len(order')] = order[Len(order)] /\ (i # 1 => order[Len(order)] # order[i - 1])
        BY <1>1, <1>2, <1>3, <2>1, <3>2
      <4> QED
        BY <1>1, <1>12, <2>1, <2>2, <4>1
    <3> QED
      BY <1>1, <3>1, <3>2
  <2>4. previous'[order'[1]] = nullptr
    <3>1. CASE i = 1
      <4>1. i # Len(order) /\ order'[1] = order[i + 1]
        BY <1>1, <1>2, <1>3, <2>1, <3>1
      <4> QED
        BY <1>6, <1>13, <3>1, <4>1
    <3>2. CASE i > 1
      <4>1. order'[1] = order[1] /\ (i # Len(order) => order[1] # order[i + 1])
        BY <1>1, <1>2, <1>3, <2>1, <3>2
      <4> QED
        BY <1>1, <1>13, <2>1, <2>2, <4>1
    <3> QED
      BY <3>1, <3>2
  <2> QED
    BY <2>3, <2>4
<1>17. Forward' /\ Backward'
  BY <1>1, <1>14, <1>15, <1>16 DEF Forward, Backward
<1> QED
  BY <1>4, <1>11, <1>17
-----------------------------------------------------------------------------
\* clear() and its loop.
LEMMA ClearStep ==
  ASSUME ListIsSequence, Clear \/ ClearNode \/ ClearEnd
  PROVE  ListIsSequence'
<1> USE DEF ListIsSequence
<1>1. CASE Clear
  <2>1. UNCHANGED <<m_head, m_tail, next, previous, allocated, order>> /\ clearing' /\ node' = m_head /\ ~clearing
    BY <1>1 DEF Clear, links
  <2> QED
    BY <2>1 DEF ListTypeOK, Distinct, Forward, Backward, Clear, links
<1>2. CASE ClearNode
  <2>1. clearing /\ node # nullptr /\ order # <<>>
    BY <1>2 DEF ClearNode, Forward
  <2>2. /\ UNCHANGED <<m_head, m_tail, next, previous, clearing>>
        /\ node' = next[node] /\ allocated' = allocated \ {node} /\ order' = removed(order, 1)
    BY <1>2 DEF ClearNode, links
  <2>3. Len(order) \in Nat /\ Len(order) >= 1 /\ node = order[1] /\ node \in Node
    BY <2>1 DEF Forward, ListTypeOK
  <2>4. order' \in Seq(Node) /\ Len(order') = Len(order) - 1
    BY <2>2, <2>3, RemovedType DEF ListTypeOK
  <2>5. \A j \in 1 .. Len(order) - 1 : order'[j] = order[j + 1]
    BY <2>2, <2>3 DEF removed
  <2>6. Distinct'
    BY <2>2, <2>3, RemoveDistinct
  <2>7. ListTypeOK'
    BY <2>2, <2>3, <2>4 DEF ListTypeOK
  <2>8. \A j \in 1 .. Len(order') - 1 : next'[order'[j]] = order'[j + 1]
    <3> SUFFICES ASSUME NEW j \in 1 .. Len(order') - 1 PROVE next'[order'[j]] = order'[j + 1]
      OBVIOUS
    <3>1. j + 1 \in 1 .. Len(order) - 1 /\ order'[j] = order[j + 1] /\ order'[j + 1] = order[(j + 1) + 1]
      BY <2>3, <2>4, <2>5
    <3> QED
      BY <2>2, <3>1 DEF Forward
  <2>9. CASE Len(order) = 1
    <3>1. order' = <<>> /\ node' = nullptr
      BY <2>1, <2>2, <2>3, <2>4, <2>9 DEF Forward
    <3>2. Forward' /\ Backward'
      BY <2>1, <2>2, <2>4, <2>9, <3>1 DEF Forward, Backward
    <3> QED
      BY <2>6, <2>7, <3>2
  <2>10. CASE Len(order) > 1
    <3>1. order' # <<>> /\ order'[1] = order[2] /\ order'[Len(order')] = order[Len(order)]
      BY <2>3, <2>4, <2>5, <2>10
    <3>2. next[order[1]] = order[2] /\ next[order[Len(order)]] = nullptr
      BY <2>1, <2>3, <2>10 DEF Forward
    <3>3. Forward' /\ Backward'
      BY <2>1, <2>2, <2>3, <2>8, <3>1, <3>2 DEF Forward, Backward
    <3> QED
      BY <2>6, <2>7, <3>3
  <2> QED
    BY <2>3, <2>9, <2>10
<1>3. CASE ClearEnd
  <2>1. /\ clearing /\ node = nullptr /\ m_head' = nullptr /\ m_tail' = nullptr /\ ~clearing'
        /\ UNCHANGED <<next, previous, allocated, node, order>>
    BY <1>3 DEF ClearEnd
  <2>2. order = <<>>
    <3>1. order # <<>> => order[1] \in Node
      BY DEF ListTypeOK
    <3> QED
      BY <2>1, <3>1, NullAssumption DEF Forward
  <2>3. ListTypeOK'
    BY <1>3, <2>1 DEF ListTypeOK, Pointer, ClearEnd
  <2>4. Distinct'
    BY <2>1 DEF Distinct
  <2>5. Forward' /\ Backward'
    BY <2>1, <2>2 DEF Forward, Backward
  <2> QED
    BY <2>3, <2>4, <2>5
<1> QED
  BY <1>1, <1>2, <1>3

\* The ends of the list are the ends of the sequence.
LEMMA Ends ==
  ASSUME ListIsSequence, ~clearing
  PROVE  /\ m_head = nullptr <=> order = <<>>
         /\ m_tail = nullptr <=> order = <<>>
         /\ order # <<>> => /\ m_head = order[1] /\ m_tail = order[Len(order)]
                            /\ 1 \in 1 .. Len(order) /\ Len(order) \in 1 .. Len(order)
<1>1. order # <<>> => 1 \in 1 .. Len(order) /\ Len(order) \in 1 .. Len(order)
  BY DEF ListIsSequence, ListTypeOK
<1>2. \A i \in 1 .. Len(order) : order[i] \in Node
  BY DEF ListIsSequence, ListTypeOK
<1> QED
  BY <1>1, <1>2, NullAssumption DEF ListIsSequence, Forward, Backward

\* Whatever calls are made on it, in any order, the list of linked_list.hpp is the sequence they ask
\* for, in both directions, and holds exactly the nodes in use; for every set of addresses.
THEOREM ListCorrect == ListSpec => []ListIsSequence
<1>1. ListInit => ListIsSequence
  <2> SUFFICES ASSUME ListInit PROVE ListIsSequence
    OBVIOUS
  <2>1. ListTypeOK
    <3>1. order \in Seq(Node) /\ allocated \subseteq Node
      BY DEF ListInit
    <3>2. clearing \in BOOLEAN
      BY Zenon DEF ListInit
    <3> QED
      BY <3>1, <3>2 DEF ListInit, ListTypeOK, Pointer
  <2>2. Len(order) = 0 /\ order = <<>> /\ ~clearing /\ m_head = nullptr /\ m_tail = nullptr /\ allocated = {}
    BY DEF ListInit
  <2>3. Distinct
    BY <2>2 DEF Distinct
  <2>4. Forward /\ Backward
    BY <2>2 DEF Forward, Backward
  <2> QED
    BY <2>1, <2>3, <2>4 DEF ListIsSequence
<1>2. ListIsSequence /\ [ListNext]_nodeVars => ListIsSequence'
  <2> SUFFICES ASSUME ListIsSequence, [ListNext]_nodeVars PROVE ListIsSequence'
    OBVIOUS
  <2>1. ASSUME NEW n \in Node, PushBack(n) PROVE ListIsSequence'
    <3>1. ~clearing /\ new_node(n) /\ UNCHANGED <<clearing, node>> /\ order' = inserted(order, Len(order) + 1, n)
      BY <2>1 DEF PushBack, new_node
    <3>2. CASE order = <<>>
      <4>1. insert_only(n) /\ order' = inserted(order, 1, n)
        BY <2>1, <3>1, <3>2, Ends DEF PushBack
      <4> QED
        BY <3>1, <3>2, <4>1, InsertOnlyStep
    <3>3. CASE order # <<>>
      <4>1. Len(order) \in 1 .. Len(order) /\ insert_after(order[Len(order)], n)
        BY <2>1, <3>1, <3>3, Ends DEF PushBack
      <4> QED
        BY <3>1, <4>1, InsertAfterStep
    <3> QED
      BY <3>2, <3>3
  <2>2. ASSUME NEW n \in Node, PushFront(n) PROVE ListIsSequence'
    <3>1. ~clearing /\ new_node(n) /\ UNCHANGED <<clearing, node>> /\ order' = inserted(order, 1, n)
      BY <2>2 DEF PushFront, new_node
    <3>2. CASE order = <<>>
      <4>1. insert_only(n)
        BY <2>2, <3>1, <3>2, Ends DEF PushFront
      <4> QED
        BY <3>1, <3>2, <4>1, InsertOnlyStep
    <3>3. CASE order # <<>>
      <4>1. 1 \in 1 .. Len(order) /\ insert_before(order[1], n)
        BY <2>2, <3>1, <3>3, Ends DEF PushFront
      <4> QED
        BY <3>1, <4>1, InsertBeforeStep
    <3> QED
      BY <3>2, <3>3
  <2>3. ASSUME NEW n \in Node, NEW i \in 1 .. Len(order), InsertBefore(i, n) PROVE ListIsSequence'
    BY <2>3, InsertBeforeStep DEF InsertBefore
  <2>4. ASSUME NEW n \in Node, NEW i \in 1 .. Len(order), InsertAfter(i, n) PROVE ListIsSequence'
    BY <2>4, InsertAfterStep DEF InsertAfter
  <2>5. CASE PopFront
    <3>1. ~clearing /\ m_head # nullptr /\ remove_node(m_head) /\ order' = removed(order, 1)
      BY <2>5 DEF PopFront, remove_node, is_empty
    <3>2. 1 \in 1 .. Len(order) /\ m_head = order[1]
      BY <3>1, Ends
    <3> QED
      BY <3>1, <3>2, RemoveStep
  <2>6. CASE PopBack
    <3>1. ~clearing /\ m_head # nullptr /\ remove_node(m_tail) /\ order' = removed(order, Len(order))
      BY <2>6 DEF PopBack, remove_node, is_empty
    <3>2. Len(order) \in 1 .. Len(order) /\ m_tail = order[Len(order)]
      BY <3>1, Ends
    <3> QED
      BY <3>1, <3>2, RemoveStep
  <2>7. ASSUME NEW i \in 1 .. Len(order), Erase(i) PROVE ListIsSequence'
    BY <2>7, RemoveStep DEF Erase
  <2>8. CASE Clear \/ ClearNode \/ ClearEnd
    BY <2>8, ClearStep
  <2>9. CASE UNCHANGED nodeVars
    BY <2>9 DEF nodeVars, links, ListIsSequence, ListTypeOK, Distinct, Forward, Backward
  <2> QED
    BY <2>1, <2>2, <2>3, <2>4, <2>5, <2>6, <2>7, <2>8, <2>9 DEF ListNext
<1> QED
  BY <1>1, <1>2, PTL DEF ListSpec

(***************************************************************************)
(* The ring buffer of a pipe.                                              *)
(***************************************************************************)

\* Where byte k (counted from 0) of the contents is in the ring.
At(start, k) == IF k < m_capacity - start THEN start + k ELSE k - (m_capacity - start)

\* What the invariant says of the ring buffer.
RingOK ==
  /\ m_buffer \in [Index -> Byte] /\ m_size \in 0 .. m_capacity
  /\ m_read_index \in Index /\ m_write_index \in Index
  /\ m_write_index = advance(m_read_index, m_size)

\* A position of the ring is an index, and different bytes are at different positions.
LEMMA Positions ==
  ASSUME NEW start \in Index, NEW k \in 0 .. m_capacity - 1
  PROVE  /\ At(start, k) \in Index
         /\ \A l \in 0 .. m_capacity - 1 : At(start, k) = At(start, l) => k = l
  BY CapacityAssumption DEF At, Index

\* The two memcpy()s of read(): byte i is before the end of the buffer or from its start on.
LEMMA TwoParts ==
  ASSUME NEW start \in Index, NEW i \in 1 .. m_capacity
  PROVE  At(start, i - 1) = IF i <= m_capacity - start THEN start + i - 1
                            ELSE i - (m_capacity - start) - 1
  BY CapacityAssumption DEF At, Index

\* The contents, byte by byte.
LEMMA Contents ==
  ASSUME NEW start \in Index, start = m_read_index, NEW n \in 0 .. m_capacity,
         m_buffer \in [Index -> Byte]
  PROVE  /\ copy_out(n) \in Seq(Byte) /\ Len(copy_out(n)) = n
         /\ \A i \in 1 .. n : copy_out(n)[i] = m_buffer[At(start, i - 1)]
<1>1. \A i \in 1 .. n : i - 1 \in 0 .. m_capacity - 1
  BY CapacityAssumption
<1>2. \A i \in 1 .. n : m_buffer[At(start, i - 1)] \in Byte
  BY <1>1, Positions
<1>3. copy_out(n) = [i \in 1 .. n |-> m_buffer[At(start, i - 1)]]
  BY CapacityAssumption DEF copy_out, At, Index
<1>4. [i \in 1 .. n |-> m_buffer[At(start, i - 1)]] \in [1 .. n -> Byte]
  BY <1>2
<1>5. copy_out(n) \in Seq(Byte)
  BY <1>3, <1>4 DEF Index
<1>6. Len(copy_out(n)) = n
  BY <1>3, <1>5, LenProperties
<1> QED
  BY <1>3, <1>5, <1>6

\* The next position after k bytes, as read() and write() compute it.
LEMMA Advance ==
  ASSUME NEW start \in Index, NEW k \in 0 .. m_capacity
  PROVE  /\ advance(start, k) \in Index
         /\ \A l \in Nat : k + l < m_capacity => At(advance(start, k), l) = At(start, k + l)
  BY CapacityAssumption DEF advance, At, Index

\* The write index moves on with the size.
LEMMA AdvanceTwice ==
  ASSUME NEW start \in Index, NEW k \in 0 .. m_capacity, NEW l \in 0 .. m_capacity, k + l <= m_capacity
  PROVE  advance(advance(start, k), l) = advance(start, k + l)
  BY CapacityAssumption DEF advance, Index

\* write() puts the bytes behind the contents.
LEMMA CopyIn ==
  ASSUME RingOK, NEW data \in Seq(Byte), Len(data) <= m_capacity - m_size
  PROVE  /\ copy_in(data) \in [Index -> Byte]
         /\ \A k \in 0 .. m_size - 1 :
              copy_in(data)[At(m_read_index, k)] = m_buffer[At(m_read_index, k)]
         /\ \A k \in 0 .. Len(data) - 1 :
              copy_in(data)[At(m_read_index, m_size + k)] = data[k + 1]
<1> DEFINE w == m_write_index
           n == Len(data)
<1>1. n \in Nat /\ w \in Index /\ m_size + n <= m_capacity /\ m_size \in 0 .. m_capacity
  BY CapacityAssumption DEF RingOK
<1>2. \A i \in 1 .. n : data[i] \in Byte
  BY ElementOfSeq
<1> HIDE DEF n
<1>3. copy_in(data) = [i \in Index |->
        IF i >= w /\ i - w < n THEN data[i - w + 1]
        ELSE IF w + n > m_capacity /\ i < n - (m_capacity - w) THEN data[(m_capacity - w) + i + 1]
        ELSE m_buffer[i]]
  BY DEF copy_in, n
<1>4. copy_in(data) \in [Index -> Byte]
  BY <1>1, <1>2, <1>3, CapacityAssumption DEF RingOK, Index
<1>5. ASSUME NEW k \in 0 .. n - 1
      PROVE  copy_in(data)[At(m_read_index, m_size + k)] = data[k + 1]
  <2>1. At(m_read_index, m_size + k) = At(w, k) /\ At(w, k) \in Index
    BY <1>1, CapacityAssumption, Advance, Positions DEF RingOK
  <2>2. copy_in(data)[At(w, k)] = data[k + 1]
    BY <1>1, <1>3, <2>1, CapacityAssumption DEF At, Index
  <2> QED
    BY <2>1, <2>2
<1>6. ASSUME NEW k \in 0 .. m_size - 1
      PROVE  copy_in(data)[At(m_read_index, k)] = m_buffer[At(m_read_index, k)]
  <2> DEFINE i == At(m_read_index, k)
  <2>1. i \in Index /\ m_read_index \in Index
    BY <1>1, CapacityAssumption, Positions DEF RingOK
  <2>2. ~(i >= w /\ i - w < n)
    BY <1>1, <2>1, CapacityAssumption DEF RingOK, advance, At, Index
  <2>3. ~(w + n > m_capacity /\ i < n - (m_capacity - w))
    BY <1>1, <2>1, CapacityAssumption DEF RingOK, advance, At, Index
  <2> HIDE DEF i
  <2> QED
    BY <1>3, <2>1, <2>2, <2>3 DEF i
<1> QED
  BY <1>4, <1>5, <1>6 DEF n
-----------------------------------------------------------------------------
\* The invariant contains what the lemmas on the ring need.
LEMMA RingOfInvariant == PipeInv => RingOK /\ contents \in Seq(Byte) /\ Len(contents) = m_size
<1> SUFFICES ASSUME PipeInv PROVE RingOK /\ contents \in Seq(Byte) /\ Len(contents) = m_size
  OBVIOUS
<1>1. RingOK
  BY DEF PipeInv, PipeTypeOK, RingInv, RingOK
<1> QED
  BY <1>1, Contents DEF RingOK, contents

\* The contents after a step, byte by byte.
LEMMA ContentsNext ==
  ASSUME RingOK'
  PROVE  /\ contents' \in Seq(Byte) /\ Len(contents') = m_size'
         /\ \A i \in 1 .. m_size' : contents'[i] = m_buffer'[At(m_read_index', i - 1)]
<1>1. /\ m_size' \in 0 .. m_capacity /\ m_read_index' \in Index /\ m_buffer' \in [Index -> Byte]
  BY DEF RingOK
<1>2. contents' = [i \in 1 .. m_size' |-> m_buffer'[At(m_read_index', i - 1)]]
  <2>1. contents' = [i \in 1 .. m_size' |->
                       IF i <= m_capacity - m_read_index' THEN m_buffer'[m_read_index' + i - 1]
                       ELSE m_buffer'[i - (m_capacity - m_read_index') - 1]]
    BY DEF contents, copy_out
  <2>2. \A i \in 1 .. m_size' :
          m_buffer'[At(m_read_index', i - 1)] =
            IF i <= m_capacity - m_read_index' THEN m_buffer'[m_read_index' + i - 1]
            ELSE m_buffer'[i - (m_capacity - m_read_index') - 1]
    <3>1. \A i \in 1 .. m_size' :
            At(m_read_index', i - 1) =
              IF i <= m_capacity - m_read_index' THEN m_read_index' + i - 1
              ELSE i - (m_capacity - m_read_index') - 1
      BY <1>1, TwoParts, CapacityAssumption
    <3> QED
      BY <3>1
  <2> QED
    BY <2>1, <2>2
<1>3. \A i \in 1 .. m_size' : m_buffer'[At(m_read_index', i - 1)] \in Byte
  BY <1>1, Positions, CapacityAssumption
<1>4. contents' \in Seq(Byte)
  BY <1>1, <1>2, <1>3
<1> QED
  BY <1>1, <1>2, <1>4, LenProperties

\* write() keeps the ring right and appends what it took.
LEMMA WriteStep ==
  ASSUME RingOK, NEW data \in Seq(Byte), write(data)
  PROVE  /\ RingOK' /\ user_buffer' \in Seq(Byte)
         /\ contents' = contents \o user_buffer' /\ Len(contents') <= m_capacity
         /\ m_size' \in m_size .. m_capacity
         /\ m_read_wait_list' \in {m_read_wait_list, <<>>} /\ m_write_wait_list' = m_write_wait_list
         /\ m_size' # m_size => m_read_wait_list' = <<>>
         /\ m_size = m_capacity => m_size' = m_size
<1> DEFINE count == Smaller(Len(data), m_capacity - m_size)
           part == SubSeq(data, 1, count)
<1>1. /\ m_size \in 0 .. m_capacity /\ m_read_index \in Index /\ m_write_index \in Index
      /\ m_buffer \in [Index -> Byte] /\ m_write_index = advance(m_read_index, m_size)
  BY DEF RingOK
<1>2. /\ count \in Nat /\ count <= Len(data) /\ count <= m_capacity - m_size
      /\ count # 0 \/ Len(data) = 0 \/ m_size = m_capacity
  BY <1>1, LenProperties, CapacityAssumption DEF Smaller
<1>3. part \in Seq(Byte) /\ Len(part) = count
  <2> HIDE DEF count
  <2>1. part \in Seq(Byte) /\ Len(part) = IF 1 <= count THEN count - 1 + 1 ELSE 0
    BY <1>2, SubSeqProperties
  <2> QED
    BY <1>2, <2>1
<1>4. /\ user_buffer' = part /\ m_buffer' = copy_in(part)
      /\ m_write_index' = advance(m_write_index, count) /\ m_size' = m_size + count
      /\ m_read_wait_list' = IF count = 0 THEN m_read_wait_list ELSE <<>>
      /\ UNCHANGED <<m_read_index, m_write_wait_list>>
  BY DEF write
<1> HIDE DEF part, count
<1>5. m_size' \in m_size .. m_capacity /\ m_size' \in 0 .. m_capacity
  BY <1>1, <1>2, <1>4, CapacityAssumption
<1>6. /\ copy_in(part) \in [Index -> Byte]
      /\ \A k \in 0 .. m_size - 1 : copy_in(part)[At(m_read_index, k)] = m_buffer[At(m_read_index, k)]
      /\ \A k \in 0 .. count - 1 : copy_in(part)[At(m_read_index, m_size + k)] = part[k + 1]
  BY <1>1, <1>2, <1>3, CopyIn
<1>7. m_write_index' \in Index /\ m_write_index' = advance(m_read_index', m_size')
  BY <1>1, <1>2, <1>4, Advance, AdvanceTwice, CapacityAssumption
<1>8. RingOK'
  BY <1>1, <1>4, <1>5, <1>6, <1>7 DEF RingOK
<1>9. contents \in Seq(Byte) /\ Len(contents) = m_size
      /\ \A i \in 1 .. m_size : contents[i] = m_buffer[At(m_read_index, i - 1)]
  BY <1>1, Contents DEF contents
<1>10. contents' \in Seq(Byte) /\ Len(contents') = m_size'
      /\ \A i \in 1 .. m_size' : contents'[i] = m_buffer'[At(m_read_index', i - 1)]
  BY <1>8, ContentsNext
<1>11. contents' = contents \o part
  <2>1. /\ contents \o part \in Seq(Byte) /\ Len(contents \o part) = m_size + count
        /\ \A i \in 1 .. m_size + count :
             (contents \o part)[i] = IF i <= m_size THEN contents[i] ELSE part[i - m_size]
    BY <1>1, <1>2, <1>3, <1>9, ConcatProperties
  <2>2. ASSUME NEW i \in 1 .. m_size + count
        PROVE  contents'[i] = (contents \o part)[i]
    <3>1. contents'[i] = copy_in(part)[At(m_read_index, i - 1)]
      BY <1>4, <1>10
    <3>2. CASE i <= m_size
      <4>1. i - 1 \in 0 .. m_size - 1 /\ i \in 1 .. m_size
        BY <1>1, <1>2, <3>2
      <4> QED
        BY <1>6, <1>9, <2>1, <3>1, <3>2, <4>1
    <3>3. CASE i > m_size
      <4>1. i - 1 - m_size \in 0 .. count - 1 /\ m_size + (i - 1 - m_size) = i - 1
            /\ (i - 1 - m_size) + 1 = i - m_size /\ ~(i <= m_size)
        BY <1>1, <1>2, <3>3
      <4>2. copy_in(part)[At(m_read_index, m_size + (i - 1 - m_size))] = part[(i - 1 - m_size) + 1]
        BY <1>6, <4>1
      <4> QED
        BY <2>1, <3>1, <4>1, <4>2
    <3>4. i <= m_size \/ i > m_size
      BY <1>1, <1>2
    <3> QED
      BY <3>2, <3>3, <3>4
  <2> QED
    BY <1>4, <1>10, <2>1, <2>2, SeqEqual
<1> QED
  BY <1>1, <1>2, <1>3, <1>4, <1>5, <1>8, <1>10, <1>11

\* read() keeps the ring right and takes its result from the front.
LEMMA ReadStep ==
  ASSUME RingOK, NEW size \in Nat, read(size)
  PROVE  /\ RingOK' /\ user_buffer' \in Seq(Byte)
         /\ contents = user_buffer' \o contents'
         /\ m_size' \in 0 .. m_size
         /\ m_write_wait_list' \in {m_write_wait_list, <<>>} /\ m_read_wait_list' = m_read_wait_list
         /\ m_size' # m_size => m_write_wait_list' = <<>>
<1> DEFINE count == Smaller(size, m_size)
<1>1. /\ m_size \in 0 .. m_capacity /\ m_read_index \in Index /\ m_write_index \in Index
      /\ m_buffer \in [Index -> Byte] /\ m_write_index = advance(m_read_index, m_size)
  BY DEF RingOK
<1>2. count \in Nat /\ count <= m_size /\ count \in 0 .. m_capacity
  BY <1>1, CapacityAssumption DEF Smaller
<1>3. /\ user_buffer' = copy_out(count)
      /\ m_read_index' = advance(m_read_index, count) /\ m_size' = m_size - count
      /\ m_write_wait_list' = IF count = 0 THEN m_write_wait_list ELSE <<>>
      /\ UNCHANGED <<m_buffer, m_write_index, m_read_wait_list>>
  BY DEF read
<1> HIDE DEF count
<1>4. m_size' \in 0 .. m_size /\ m_size' \in 0 .. m_capacity
  BY <1>1, <1>2, <1>3, CapacityAssumption
<1>5. /\ m_read_index' \in Index
      /\ \A l \in Nat : count + l < m_capacity => At(m_read_index', l) = At(m_read_index, count + l)
  BY <1>1, <1>2, <1>3, Advance
<1>6. m_write_index' = advance(m_read_index', m_size')
  <2>1. count + m_size' = m_size /\ m_size' \in 0 .. m_capacity /\ count + m_size' <= m_capacity
    BY <1>1, <1>2, <1>3, <1>4, CapacityAssumption
  <2>2. advance(advance(m_read_index, count), m_size') = advance(m_read_index, count + m_size')
    BY <1>1, <1>2, <2>1, AdvanceTwice, CapacityAssumption
  <2> QED
    BY <1>1, <1>3, <2>1, <2>2
<1>7. RingOK'
  BY <1>1, <1>3, <1>4, <1>5, <1>6 DEF RingOK
<1>8. /\ contents \in Seq(Byte) /\ Len(contents) = m_size
      /\ \A i \in 1 .. m_size : contents[i] = m_buffer[At(m_read_index, i - 1)]
  BY <1>1, Contents DEF contents
<1>9. /\ user_buffer' \in Seq(Byte) /\ Len(user_buffer') = count
      /\ \A i \in 1 .. count : user_buffer'[i] = m_buffer[At(m_read_index, i - 1)]
  BY <1>1, <1>2, <1>3, Contents
<1>10. /\ contents' \in Seq(Byte) /\ Len(contents') = m_size'
       /\ \A i \in 1 .. m_size' : contents'[i] = m_buffer[At(m_read_index', i - 1)]
  BY <1>3, <1>7, ContentsNext
<1>11. contents = user_buffer' \o contents'
  <2>1. /\ user_buffer' \o contents' \in Seq(Byte) /\ Len(user_buffer' \o contents') = m_size
        /\ \A i \in 1 .. m_size : (user_buffer' \o contents')[i] =
                                    IF i <= count THEN user_buffer'[i] ELSE contents'[i - count]
    <3>1. count + m_size' = m_size
      BY <1>1, <1>2, <1>3
    <3> QED
      BY <1>9, <1>10, <3>1, ConcatProperties
  <2>2. ASSUME NEW i \in 1 .. m_size
        PROVE  contents[i] = (user_buffer' \o contents')[i]
    <3>1. contents[i] = m_buffer[At(m_read_index, i - 1)]
      BY <1>8
    <3>2. CASE i <= count
      <4>1. i \in 1 .. count
        BY <1>1, <1>2, <3>2
      <4> QED
        BY <1>9, <2>1, <3>1, <3>2, <4>1
    <3>3. CASE ~(i <= count)
      <4>1. /\ i - count \in 1 .. m_size' /\ (i - count) - 1 \in Nat
            /\ count + ((i - count) - 1) = i - 1 /\ i - 1 < m_capacity
        BY <1>1, <1>2, <1>3, <3>3, CapacityAssumption
      <4>2. contents'[i - count] = m_buffer[At(m_read_index', (i - count) - 1)]
        BY <1>10, <4>1
      <4>3. At(m_read_index', (i - count) - 1) = At(m_read_index, i - 1)
        BY <1>5, <4>1
      <4> QED
        BY <2>1, <3>1, <3>3, <4>2, <4>3
    <3> QED
      BY <3>2, <3>3
  <2> QED
    BY <1>8, <2>1, <2>2, SeqEqual
<1>12. m_size' # m_size => count # 0
  BY <1>1, <1>2, <1>3
<1> QED
  BY <1>3, <1>4, <1>7, <1>9, <1>11, <1>12
-----------------------------------------------------------------------------
\* A first pipe can be opened.
LEMMA PipeInitInv == PipeInit => PipeInv
<1> SUFFICES ASSUME PipeInit PROVE PipeInv
  OBVIOUS
<1>1. 0 \in Index /\ 0 \in 0 .. m_capacity /\ advance(0, 0) = 0
  BY CapacityAssumption DEF Index, advance
<1> QED
  BY <1>1, NoTaskAssumption DEF PipeInit, PipeInv, PipeTypeOK, RingInv, BlockedForAReason

\* SYS_PIPE_READ keeps the invariant and takes the oldest bytes, or blocks.
LEMMA PipeReadStep ==
  ASSUME PipeInv, NEW t \in PipeTask, NEW size \in 0 .. MaxCount, PipeRead(t, size)
  PROVE  PipeInv' /\ (contents = user_buffer' \o contents' \/ UNCHANGED <<contents, user_buffer>>)
<1>1. RingOK /\ size \in Nat
  BY RingOfInvariant, MaxCountAssumption
<1>2. UNCHANGED <<m_parent, m_open_pipes, m_ref_count, handle, refused>> /\ t = m_parent /\ m_parent # NoTask
  BY NoTaskAssumption DEF PipeRead, ownVars, PipeInv, RingInv
<1>3. CASE can_read
  <2>1. read(size)
    BY <1>3 DEF PipeRead
  <2>2. /\ RingOK' /\ user_buffer' \in Seq(Byte) /\ contents = user_buffer' \o contents'
        /\ m_size' \in 0 .. m_size
        /\ m_write_wait_list' \in {m_write_wait_list, <<>>} /\ m_read_wait_list' = m_read_wait_list
        /\ m_size' # m_size => m_write_wait_list' = <<>>
    BY <1>1, <2>1, ReadStep
  <2>3. m_read_wait_list' = <<>>
    BY <1>3, <2>2 DEF PipeInv, PipeTypeOK, BlockedForAReason, can_read
  <2>4. PipeTypeOK' /\ RingInv'
    <3>1. m_read_wait_list' \in Seq(PipeTask) /\ m_write_wait_list' \in Seq(PipeTask)
      <4>1. /\ <<>> \in Seq(PipeTask)
            /\ m_read_wait_list \in Seq(PipeTask) /\ m_write_wait_list \in Seq(PipeTask)
        BY DEF PipeInv, PipeTypeOK
      <4> QED
        BY <2>2, <4>1, Zenon
    <3>2. PipeTypeOK'
      BY <1>2, <2>2, <3>1 DEF PipeInv, PipeTypeOK, RingOK
    <3>3. m_write_index' = advance(m_read_index', m_size')
      BY <2>2 DEF RingOK
    <3>4. RingInv'
      BY <1>2, <3>3 DEF PipeInv, RingInv
    <3> QED
      BY <3>2, <3>4
  <2>5. BlockedForAReason'
    BY <2>2, <2>3 DEF PipeInv, BlockedForAReason
  <2> QED
    BY <2>2, <2>4, <2>5 DEF PipeInv
<1>4. CASE ~can_read
  <2>1. /\ UNCHANGED <<m_buffer, m_size, m_read_index, m_write_index, m_write_wait_list, user_buffer>>
        /\ m_read_wait_list' = Append(m_read_wait_list, t)
    BY <1>4 DEF PipeRead, ringVars
  <2>2. m_read_wait_list' \in Seq(PipeTask) /\ m_size = 0
    BY <1>4, <2>1, CapacityAssumption DEF PipeInv, PipeTypeOK, can_read
  <2>3. UNCHANGED contents
    BY <2>1 DEF contents, copy_out
  <2>4. PipeTypeOK' /\ RingInv'
    BY <1>2, <2>1, <2>2 DEF PipeInv, PipeTypeOK, RingInv
  <2>5. BlockedForAReason'
    BY <2>1, <2>2 DEF PipeInv, BlockedForAReason
  <2> QED
    BY <2>1, <2>3, <2>4, <2>5 DEF PipeInv
<1> QED
  BY <1>3, <1>4

\* SYS_PIPE_WRITE keeps the invariant and appends the bytes it took, or blocks.
LEMMA PipeWriteStep ==
  ASSUME PipeInv, NEW t \in PipeTask, NEW data \in Data, PipeWrite(t, data)
  PROVE  /\ PipeInv'
         /\ \/ contents' = contents \o user_buffer' /\ Len(contents') <= m_capacity
            \/ UNCHANGED <<contents, user_buffer>>
<1>1. RingOK /\ data \in Seq(Byte)
  BY RingOfInvariant, MaxCountAssumption DEF Data
<1>2. UNCHANGED <<m_parent, m_open_pipes, m_ref_count, handle, refused>> /\ t = m_parent /\ m_parent # NoTask
  BY NoTaskAssumption DEF PipeWrite, ownVars, PipeInv, RingInv
<1>3. CASE can_write
  <2>1. write(data)
    BY <1>3 DEF PipeWrite
  <2>2. /\ RingOK' /\ user_buffer' \in Seq(Byte)
        /\ contents' = contents \o user_buffer' /\ Len(contents') <= m_capacity
        /\ m_read_wait_list' \in {m_read_wait_list, <<>>} /\ m_write_wait_list' = m_write_wait_list
        /\ m_size' # m_size => m_read_wait_list' = <<>>
    BY <1>1, <2>1, WriteStep
  <2>3. m_write_wait_list' = <<>>
    BY <1>3, <2>2, CapacityAssumption DEF PipeInv, PipeTypeOK, BlockedForAReason, can_write
  <2>4. PipeTypeOK' /\ RingInv'
    <3>1. m_read_wait_list' \in Seq(PipeTask) /\ m_write_wait_list' \in Seq(PipeTask)
      <4>1. /\ <<>> \in Seq(PipeTask)
            /\ m_read_wait_list \in Seq(PipeTask) /\ m_write_wait_list \in Seq(PipeTask)
        BY DEF PipeInv, PipeTypeOK
      <4> QED
        BY <2>2, <4>1, Zenon
    <3>2. PipeTypeOK'
      BY <1>2, <2>2, <3>1 DEF PipeInv, PipeTypeOK, RingOK
    <3>3. m_write_index' = advance(m_read_index', m_size')
      BY <2>2 DEF RingOK
    <3>4. RingInv'
      BY <1>2, <3>3 DEF PipeInv, RingInv
    <3> QED
      BY <3>2, <3>4
  <2>5. BlockedForAReason'
    BY <2>2, <2>3 DEF PipeInv, BlockedForAReason
  <2> QED
    BY <2>2, <2>4, <2>5 DEF PipeInv
<1>4. CASE ~can_write
  <2>1. /\ UNCHANGED <<m_buffer, m_size, m_read_index, m_write_index, m_read_wait_list, user_buffer>>
        /\ m_write_wait_list' = Append(m_write_wait_list, t)
    BY <1>4 DEF PipeWrite, ringVars
  <2>2. m_write_wait_list' \in Seq(PipeTask) /\ m_size = m_capacity
    BY <1>4, <2>1, CapacityAssumption DEF PipeInv, PipeTypeOK, can_write
  <2>3. UNCHANGED contents
    BY <2>1 DEF contents, copy_out
  <2>4. PipeTypeOK' /\ RingInv'
    BY <1>2, <2>1, <2>2 DEF PipeInv, PipeTypeOK, RingInv
  <2>5. BlockedForAReason'
    BY <2>1, <2>2 DEF PipeInv, BlockedForAReason
  <2> QED
    BY <2>1, <2>3, <2>4, <2>5 DEF PipeInv
<1> QED
  BY <1>3, <1>4

\* Opening and closing keep the invariant; a pipe is empty when it appears and when it is gone.
LEMMA OpenCloseStep ==
  ASSUME PipeInv, OpenSome \/ CloseSome
  PROVE  PipeInv' /\ contents' = <<>> /\ UNCHANGED user_buffer
<1>1. 0 \in Index /\ 0 \in 0 .. m_capacity /\ advance(0, 0) = 0
  BY CapacityAssumption DEF Index, advance
<1>2. m_size' = 0 => contents' = <<>>
  BY DEF contents, copy_out
<1>3. ASSUME NEW t \in PipeTask, PipeOpen(t)
      PROVE  PipeInv' /\ m_size' = 0 /\ UNCHANGED user_buffer
  <2>1. /\ m_parent = NoTask /\ m_parent' = t /\ m_buffer' \in [Index -> Byte]
        /\ m_open_pipes' = m_open_pipes \cup {t} /\ m_ref_count' = 1 /\ handle' = {t}
        /\ UNCHANGED <<m_size, m_read_index, m_write_index, m_read_wait_list, m_write_wait_list,
                       refused, user_buffer>>
    BY <1>3 DEF PipeOpen, listVars
  <2>2. m_open_pipes' = {t} /\ t # NoTask /\ m_size = 0
    BY <2>1, NoTaskAssumption DEF PipeInv, RingInv
  <2>3. PipeTypeOK' /\ RingInv'
    BY <2>1, <2>2 DEF PipeInv, PipeTypeOK, RingInv, advance
  <2>4. BlockedForAReason'
    BY <2>1 DEF PipeInv, BlockedForAReason
  <2> QED
    BY <2>1, <2>2, <2>3, <2>4 DEF PipeInv
<1>4. ASSUME NEW t \in PipeTask, PipeClose(t)
      PROVE  PipeInv' /\ m_size' = 0 /\ UNCHANGED user_buffer
  <2>1. /\ t = m_parent /\ m_parent' = NoTask
        /\ m_size' = 0 /\ m_read_index' = 0 /\ m_write_index' = 0
        /\ m_read_wait_list' = <<>> /\ m_write_wait_list' = <<>>
        /\ m_open_pipes' = m_open_pipes \ {t} /\ m_ref_count' = m_ref_count - 1 /\ handle' = {}
        /\ UNCHANGED <<m_buffer, refused, user_buffer>>
    BY <1>4 DEF PipeClose, unregister_pipe
  <2>2. m_open_pipes' = {} /\ m_ref_count' = 0
    BY <2>1, NoTaskAssumption DEF PipeInv, RingInv
  <2>3. PipeTypeOK' /\ RingInv' /\ BlockedForAReason'
    BY <1>1, <2>1, <2>2 DEF PipeInv, PipeTypeOK, RingInv, BlockedForAReason
  <2> QED
    BY <2>1, <2>3 DEF PipeInv
<1> QED
  BY <1>2, <1>3, <1>4 DEF OpenSome, CloseSome

\* SYS_PIPE_GET, a refusal and a step that changes nothing.
LEMMA QuietPipeStep ==
  ASSUME PipeInv, GetSome \/ UNCHANGED pipeVars
  PROVE  PipeInv' /\ UNCHANGED <<contents, user_buffer>>
<1>1. /\ UNCHANGED <<m_parent, m_buffer, m_size, m_read_index, m_write_index, m_open_pipes, m_ref_count>>
      /\ UNCHANGED <<m_read_wait_list, m_write_wait_list, user_buffer>>
      /\ handle' \subseteq PipeTask /\ refused' \subseteq PipeTask
  BY DEF GetSome, PipeGet, PipeRefused, pipeVars, ownVars, ringVars, listVars, PipeInv, PipeTypeOK
<1>2. PipeTypeOK' /\ RingInv' /\ BlockedForAReason'
  BY <1>1 DEF PipeInv, PipeTypeOK, RingInv, BlockedForAReason, advance
<1>3. UNCHANGED contents
  BY <1>1 DEF contents, copy_out
<1> QED
  BY <1>1, <1>2, <1>3 DEF PipeInv

\* One step of the pipe: the invariant, and a step of the channel.
LEMMA PipeStep ==
  ASSUME PipeInv, [PipeNext]_pipeVars
  PROVE  PipeInv' /\ [Channel!Next]_<<contents, user_buffer>>
<1>1. CASE ReadSome
  BY <1>1, PipeReadStep DEF ReadSome, Channel!Next, Channel!Receive
<1>2. CASE WriteSome
  BY <1>2, PipeWriteStep DEF WriteSome, Channel!Next, Channel!Send
<1>3. CASE OpenSome \/ CloseSome
  BY <1>3, OpenCloseStep DEF Channel!Next, Channel!Drop
<1>4. CASE GetSome \/ UNCHANGED pipeVars
  BY <1>4, QuietPipeStep
<1> QED
  BY <1>1, <1>2, <1>3, <1>4 DEF PipeNext

\* Type correctness of the pipe, the ring's indices, and no task blocked without a reason.
THEOREM PipeInvariance == PipeSpec => []PipeInv
<1>1. PipeInit => PipeInv
  BY PipeInitInv
<1>2. PipeInv /\ [PipeNext]_pipeVars => PipeInv'
  BY PipeStep
<1> QED
  BY <1>1, <1>2, PTL DEF PipeSpec

\* The ring buffer of a pipe is a channel of bytes, for every capacity and every size of read
\* and write.
THEOREM ImplementsChannel == PipeSpec => ChannelSpec
<1>1. PipeInit => PipeInv /\ Channel!Init
  <2> SUFFICES ASSUME PipeInit PROVE PipeInv /\ Channel!Init
    OBVIOUS
  <2>1. contents = <<>> /\ user_buffer = <<>>
    BY DEF PipeInit, contents, copy_out
  <2> QED
    BY <2>1, PipeInitInv DEF Channel!Init
<1>2. PipeInv /\ [PipeNext]_pipeVars => PipeInv' /\ [Channel!Next]_<<contents, user_buffer>>
  BY PipeStep
<1> QED
  BY <1>1, <1>2, PTL DEF PipeSpec, ChannelSpec, Channel!Spec

(***************************************************************************)
(* The lists of open files and directories.                                *)
(***************************************************************************)

\* What register_file() and register_dir() do to a list.
LEMMA AppendedList ==
  ASSUME NEW S, NEW s \in Seq(S), IsInjective(s), NEW e \in S, ~Contains(s, e)
  PROVE  /\ Append(s, e) \in Seq(S) /\ IsInjective(Append(s, e))
         /\ \A x : Contains(Append(s, e), x) <=> Contains(s, x) \/ x = e
<1> DEFINE t == Append(s, e)
<1>1. /\ t \in Seq(S) /\ Len(t) = Len(s) + 1 /\ Len(s) \in Nat /\ t[Len(s) + 1] = e
      /\ \A i \in 1 .. Len(s) : t[i] = s[i]
  OBVIOUS
<1>2. DOMAIN t = 1 .. Len(s) + 1 /\ DOMAIN s = 1 .. Len(s)
  OBVIOUS
<1> HIDE DEF t
<1>3. ASSUME NEW i \in 1 .. Len(t) PROVE i \in 1 .. Len(s) \/ i = Len(s) + 1
  BY <1>1
<1>4. \A i \in 1 .. Len(s) : s[i] # e
  BY DEF Contains
<1>5. IsInjective(t)
  <2> SUFFICES ASSUME NEW i \in 1 .. Len(t), NEW j \in 1 .. Len(t), t[i] = t[j] PROVE i = j
    BY <1>1, <1>2 DEF IsInjective
  <2>1. CASE i \in 1 .. Len(s) /\ j \in 1 .. Len(s)
    BY <1>1, <1>2, <2>1 DEF IsInjective
  <2>2. CASE i = Len(s) + 1 \/ j = Len(s) + 1
    BY <1>1, <1>3, <1>4, <2>2
  <2> QED
    BY <1>3, <2>1, <2>2
<1>6. ASSUME NEW x PROVE Contains(t, x) <=> Contains(s, x) \/ x = e
  <2>1. Contains(s, x) => Contains(t, x)
    BY <1>1 DEF Contains
  <2>2. Contains(t, e)
    BY <1>1 DEF Contains
  <2>3. Contains(t, x) => Contains(s, x) \/ x = e
    BY <1>1, <1>3 DEF Contains
  <2> QED
    BY <2>1, <2>2, <2>3
<1> QED
  BY <1>1, <1>5, <1>6 DEF t

\* What unregister_file() and unregister_dir() do to a list.
LEMMA RemovedList ==
  ASSUME NEW S, NEW s \in Seq(S), IsInjective(s), NEW e, Contains(s, e)
  PROVE  /\ RemoveFirst(s, e) \in Seq(S) /\ IsInjective(RemoveFirst(s, e))
         /\ \A x : Contains(RemoveFirst(s, e), x) <=> Contains(s, x) /\ x # e
<1> DEFINE n == Len(s)
           I == {j \in 1 .. n : s[j] = e}
           i == Min(I)
           A == SubSeq(s, 1, i - 1)
           B == SubSeq(s, i + 1, n)
           t == RemoveFirst(s, e)
<1>1. i \in 1 .. n /\ s[i] = e
  <2>1. I # {} /\ I \subseteq Nat
    BY DEF Contains
  <2>2. \E x \in I : \A y \in I : x <= y
    BY <2>1, LeastNatural
  <2>3. i \in I
    <3> HIDE DEF I
    <3> QED
      BY <2>2 DEF Min
  <2> QED
    BY <2>3
<1>2. t = A \o B
  <2>1. SelectInSeq(s, LAMBDA v : v = e) = i
    <3>1. I # {}
      BY DEF Contains
    <3> QED
      BY <3>1 DEF SelectInSeq
  <2> QED
    BY <2>1 DEF RemoveFirst, RemoveAt, Contains
<1>3. n \in Nat
  OBVIOUS
<1> HIDE DEF i, t
<1>4. A \in Seq(S) /\ Len(A) = i - 1 /\ \A k \in 1 .. i - 1 : A[k] = s[k]
  BY <1>1
<1>5. B \in Seq(S) /\ Len(B) = n - i /\ \A k \in 1 .. n - i : B[k] = s[k + i]
  BY <1>1
<1> HIDE DEF A, B
<1>6. /\ t \in Seq(S) /\ Len(t) = n - 1
      /\ \A k \in 1 .. n - 1 : t[k] = IF k < i THEN s[k] ELSE s[k + 1]
  <2>1. t \in Seq(S) /\ Len(t) = n - 1
    <3>1. A \o B \in Seq(S) /\ Len(A \o B) = Len(A) + Len(B)
      BY <1>4, <1>5, ConcatFacts
    <3> QED
      BY <1>1, <1>2, <1>3, <1>4, <1>5, <3>1
  <2>2. ASSUME NEW k \in 1 .. n - 1 PROVE t[k] = IF k < i THEN s[k] ELSE s[k + 1]
    <3>1. CASE k < i
      <4>1. k \in 1 .. Len(A) /\ k \in 1 .. i - 1
        BY <1>1, <1>4, <3>1
      <4> QED
        BY <1>2, <1>4, <1>5, <3>1, <4>1, ConcatFacts
    <3>2. CASE ~(k < i)
      <4>1. k \in Len(A) + 1 .. Len(A) + Len(B) /\ k - Len(A) \in 1 .. n - i /\ k - Len(A) + i = k + 1
        BY <1>1, <1>3, <1>4, <1>5, <3>2
      <4>2. t[k] = B[k - Len(A)]
        BY <1>2, <1>4, <1>5, <4>1, ConcatFacts
      <4>3. B[k - Len(A)] = s[k - Len(A) + i]
        BY <1>5, <4>1
      <4> QED
        BY <3>2, <4>1, <4>2, <4>3
    <3> QED
      BY <3>1, <3>2
  <2> QED
    BY <2>1, <2>2
<1>7. \A k, l \in 1 .. n : s[k] = s[l] => k = l
  BY DEF IsInjective
<1>8. IsInjective(t)
  <2> SUFFICES ASSUME NEW k \in 1 .. n - 1, NEW l \in 1 .. n - 1, t[k] = t[l] PROVE k = l
    BY <1>6 DEF IsInjective
  <2> DEFINE K == IF k < i THEN k ELSE k + 1
             L == IF l < i THEN l ELSE l + 1
  <2>1. K \in 1 .. n /\ L \in 1 .. n /\ t[k] = s[K] /\ t[l] = s[L]
    BY <1>1, <1>3, <1>6
  <2>2. K = L
    BY <1>7, <2>1
  <2> QED
    BY <1>1, <2>2
<1>9. ASSUME NEW v PROVE Contains(t, v) <=> Contains(s, v) /\ v # e
  <2>1. ASSUME NEW k \in 1 .. n - 1, t[k] = v PROVE Contains(s, v) /\ v # e
    <3> DEFINE K == IF k < i THEN k ELSE k + 1
    <3>1. K \in 1 .. n /\ K # i /\ t[k] = s[K]
      BY <1>1, <1>3, <1>6
    <3> QED
      BY <1>1, <1>7, <2>1, <3>1 DEF Contains
  <2>2. ASSUME NEW k \in 1 .. n, s[k] = v, v # e PROVE \E l \in 1 .. n - 1 : t[l] = v
    <3>1. k # i
      BY <1>1, <2>2
    <3>2. CASE k < i
      <4>1. k \in 1 .. n - 1 /\ t[k] = s[k]
        BY <1>1, <1>3, <1>6, <3>2
      <4> QED
        BY <2>2, <4>1
    <3>3. CASE i < k
      <4>1. k - 1 \in 1 .. n - 1 /\ ~(k - 1 < i) /\ k - 1 + 1 = k
        BY <1>1, <1>3, <3>3
      <4>2. t[k - 1] = s[k]
        BY <1>6, <4>1
      <4> QED
        BY <2>2, <4>1, <4>2
    <3> QED
      BY <1>1, <3>1, <3>2, <3>3
  <2> QED
    BY <1>6, <2>1, <2>2 DEF Contains
<1> QED
  BY <1>6, <1>8, <1>9 DEF t

\* The lists of the open ones of a kind: each task's is what the task has opened and not closed.
ListsOK(lists, files, kind) ==
  /\ lists \in [FileTask -> Seq(Address)]
  /\ \A t \in FileTask : IsInjective(lists[t])
  /\ \A t \in FileTask, a \in Address :
       Contains(lists[t], a) <=> a \in DOMAIN files /\ files[a].kind = kind /\ files[a].opener = t

\* The objects have their fields.
ObjectsOK(files) ==
  DOMAIN files \subseteq Address /\ \A a \in DOMAIN files : {"kind", "opener"} \subseteq DOMAIN files[a]

FileInv ==
  /\ ObjectsOK(opened)
  /\ ListsOK(m_open_files, opened, "file") /\ ListsOK(m_open_dirs, opened, "dir")

\* A new object at a free address.
LEMMA OpenKeeps ==
  ASSUME ObjectsOK(opened), NEW a \in Address, a \notin DOMAIN opened, NEW t \in FileTask, NEW path,
         NEW kind, NEW lists, ListsOK(lists, opened, kind), NEW kind2, NEW lists2, ListsOK(lists2, opened, kind2),
         kind2 # kind
  PROVE  LET files == with(a, Object(kind, path, t))
         IN /\ ObjectsOK(files)
            /\ ListsOK([lists EXCEPT ![t] = Append(@, a)], files, kind) /\ ListsOK(lists2, files, kind2)
<1> DEFINE o == Object(kind, path, t)
           files == with(a, o)
           new == [lists EXCEPT ![t] = Append(lists[t], a)]
<1>1. o.kind = kind /\ o.opener = t /\ {"kind", "opener"} \subseteq DOMAIN o
  BY DEF Object
<1> HIDE DEF o
<1>2. /\ DOMAIN files = DOMAIN opened \cup {a} /\ files[a] = o
      /\ \A b \in DOMAIN opened : files[b] = opened[b]
  BY DEF with
<1> HIDE DEF files
<1>3. ObjectsOK(files)
  BY <1>1, <1>2 DEF ObjectsOK
<1>4. ASSUME NEW u \in FileTask PROVE ~Contains(lists[u], a) /\ ~Contains(lists2[u], a)
  BY DEF ListsOK
<1>5. ListsOK(new, files, kind)
  <2>1. lists[t] \in Seq(Address) /\ IsInjective(lists[t]) /\ ~Contains(lists[t], a)
    BY <1>4 DEF ListsOK
  <2>2. /\ Append(lists[t], a) \in Seq(Address) /\ IsInjective(Append(lists[t], a))
        /\ \A x : Contains(Append(lists[t], a), x) <=> Contains(lists[t], x) \/ x = a
    BY <2>1, AppendedList
  <2>3. /\ new \in [FileTask -> Seq(Address)] /\ new[t] = Append(lists[t], a)
        /\ \A u \in FileTask : u # t => new[u] = lists[u]
    BY <2>2 DEF ListsOK
  <2> HIDE DEF new
  <2>4. ASSUME NEW u \in FileTask, NEW b \in Address
        PROVE  Contains(new[u], b) <=> b \in DOMAIN files /\ files[b].kind = kind /\ files[b].opener = u
    <3>1. CASE b = a
      BY <1>1, <1>2, <1>4, <2>2, <2>3, <3>1
    <3>2. CASE b # a
      <4>1. Contains(new[u], b) <=> Contains(lists[u], b)
        BY <2>2, <2>3, <3>2
      <4>2. Contains(lists[u], b) <=> b \in DOMAIN opened /\ opened[b].kind = kind /\ opened[b].opener = u
        BY DEF ListsOK
      <4> QED
        BY <1>2, <3>2, <4>1, <4>2
    <3> QED
      BY <3>1, <3>2
  <2>5. ASSUME NEW u \in FileTask PROVE IsInjective(new[u])
    BY <2>2, <2>3 DEF ListsOK
  <2> QED
    BY <2>3, <2>4, <2>5 DEF ListsOK
<1>6. ListsOK(lists2, files, kind2)
  <2>1. ASSUME NEW u \in FileTask, NEW b \in Address
        PROVE  Contains(lists2[u], b) <=> b \in DOMAIN files /\ files[b].kind = kind2 /\ files[b].opener = u
    <3>1. CASE b = a
      BY <1>1, <1>2, <1>4, <3>1
    <3>2. CASE b # a
      <4>1. Contains(lists2[u], b) <=> b \in DOMAIN opened /\ opened[b].kind = kind2 /\ opened[b].opener = u
        BY DEF ListsOK
      <4> QED
        BY <1>2, <3>2, <4>1
    <3> QED
      BY <3>1, <3>2
  <2> QED
    BY <2>1 DEF ListsOK
<1> QED
  BY <1>3, <1>5, <1>6 DEF files, o, new

\* One that is closed by the task that has it in its list.
LEMMA CloseKeeps ==
  ASSUME ObjectsOK(opened), NEW a \in Address, NEW t \in FileTask,
         NEW kind, NEW lists, ListsOK(lists, opened, kind), NEW kind2, NEW lists2, ListsOK(lists2, opened, kind2),
         kind2 # kind, Contains(lists[t], a)
  PROVE  /\ ObjectsOK(without(a))
         /\ ListsOK([lists EXCEPT ![t] = RemoveFirst(@, a)], without(a), kind)
         /\ ListsOK(lists2, without(a), kind2)
<1> DEFINE files == without(a)
           new == [lists EXCEPT ![t] = RemoveFirst(lists[t], a)]
<1>1. a \in DOMAIN opened /\ opened[a].kind = kind /\ opened[a].opener = t
  BY DEF ListsOK
<1>2. DOMAIN files = DOMAIN opened \ {a} /\ \A b \in DOMAIN files : files[b] = opened[b]
  BY DEF without
<1> HIDE DEF files
<1>3. ObjectsOK(files)
  BY <1>2 DEF ObjectsOK
<1>4. ListsOK(new, files, kind)
  <2>1. lists[t] \in Seq(Address) /\ IsInjective(lists[t])
    BY DEF ListsOK
  <2>2. /\ RemoveFirst(lists[t], a) \in Seq(Address) /\ IsInjective(RemoveFirst(lists[t], a))
        /\ \A x : Contains(RemoveFirst(lists[t], a), x) <=> Contains(lists[t], x) /\ x # a
    BY <2>1, RemovedList
  <2>3. /\ new \in [FileTask -> Seq(Address)] /\ new[t] = RemoveFirst(lists[t], a)
        /\ \A u \in FileTask : u # t => new[u] = lists[u]
    BY <2>2 DEF ListsOK
  <2> HIDE DEF new
  <2>4. ASSUME NEW u \in FileTask, NEW b \in Address
        PROVE  Contains(new[u], b) <=> b \in DOMAIN files /\ files[b].kind = kind /\ files[b].opener = u
    <3>0. Contains(lists[u], b) <=> b \in DOMAIN opened /\ opened[b].kind = kind /\ opened[b].opener = u
      BY DEF ListsOK
    <3>1. CASE b = a
      BY <1>1, <1>2, <2>2, <2>3, <3>0, <3>1
    <3>2. CASE b # a
      <4>1. Contains(new[u], b) <=> Contains(lists[u], b)
        BY <2>2, <2>3, <3>2
      <4> QED
        BY <1>2, <3>0, <3>2, <4>1
    <3> QED
      BY <3>1, <3>2
  <2>5. ASSUME NEW u \in FileTask PROVE IsInjective(new[u])
    BY <2>2, <2>3 DEF ListsOK
  <2> QED
    BY <2>3, <2>4, <2>5 DEF ListsOK
<1>5. ListsOK(lists2, files, kind2)
  <2>1. ASSUME NEW u \in FileTask, NEW b \in Address
        PROVE  Contains(lists2[u], b) <=> b \in DOMAIN files /\ files[b].kind = kind2 /\ files[b].opener = u
    <3>0. Contains(lists2[u], b) <=> b \in DOMAIN opened /\ opened[b].kind = kind2 /\ opened[b].opener = u
      BY DEF ListsOK
    <3>1. CASE b = a
      BY <1>1, <1>2, <3>0, <3>1
    <3>2. CASE b # a
      BY <1>2, <3>0, <3>2
    <3> QED
      BY <3>1, <3>2
  <2> QED
    BY <2>1 DEF ListsOK
<1> QED
  BY <1>3, <1>4, <1>5 DEF files, new

\* Reading moves a position and leaves the kinds and the openers alone.
LEMMA ReadKeeps ==
  ASSUME FileInv, NEW a \in Address, NEW f
  PROVE  LET files == [opened EXCEPT ![a].fptr = f]
         IN /\ ObjectsOK(files)
            /\ \A kind, lists : ListsOK(lists, opened, kind) => ListsOK(lists, files, kind)
<1> DEFINE o == [opened[a] EXCEPT !.fptr = f]
           files == [opened EXCEPT ![a] = o]
<1>1. DOMAIN files = DOMAIN opened /\ \A b \in DOMAIN opened : b # a => files[b] = opened[b]
  OBVIOUS
<1>2. a \in DOMAIN opened => /\ files[a] = o /\ DOMAIN o = DOMAIN opened[a]
                            /\ o.kind = opened[a].kind /\ o.opener = opened[a].opener
  BY DEF FileInv, ObjectsOK
<1> HIDE DEF o, files
<1>3. ASSUME NEW b \in DOMAIN files
      PROVE  /\ b \in DOMAIN opened /\ DOMAIN files[b] = DOMAIN opened[b]
             /\ files[b].kind = opened[b].kind /\ files[b].opener = opened[b].opener
  BY <1>1, <1>2
<1>4. ObjectsOK(files)
  BY <1>1, <1>3 DEF FileInv, ObjectsOK
<1>5. ASSUME NEW kind, NEW lists, ListsOK(lists, opened, kind) PROVE ListsOK(lists, files, kind)
  BY <1>1, <1>3, <1>5 DEF ListsOK
<1> QED
  BY <1>4, <1>5 DEF files, o

\* free_resources() closes what the task has, and nobody else's.
LEMMA FreeFilesKeeps == ASSUME FileInv, NEW t \in FileTask, FreeFiles(t) PROVE FileInv'
<1> DEFINE files == [a \in DOMAIN opened \ (ToSet(m_open_files[t]) \cup ToSet(m_open_dirs[t])) |-> opened[a]]
<1>1. ASSUME NEW a \in Address
      PROVE  a \in ToSet(m_open_files[t]) \cup ToSet(m_open_dirs[t]) <=>
               Contains(m_open_files[t], a) \/ Contains(m_open_dirs[t], a)
  <2>1. m_open_files[t] \in Seq(Address) /\ m_open_dirs[t] \in Seq(Address)
    BY DEF FileInv, ListsOK
  <2>2. DOMAIN m_open_files[t] = 1 .. Len(m_open_files[t]) /\ DOMAIN m_open_dirs[t] = 1 .. Len(m_open_dirs[t])
    BY <2>1
  <2> QED
    BY <2>2 DEF ToSet, Contains
<1>2. ObjectsOK(files)
  BY DEF FileInv, ObjectsOK
<1>3. ASSUME NEW lists, NEW kind, ListsOK(lists, opened, kind), lists[t] \in {m_open_files[t], m_open_dirs[t]},
             kind \in {"file", "dir"}, kind = "file" => lists = m_open_files, kind = "dir" => lists = m_open_dirs
      PROVE  ListsOK([lists EXCEPT ![t] = <<>>], files, kind)
  <2> DEFINE new == [lists EXCEPT ![t] = <<>>]
  <2>1. <<>> \in Seq(Address) /\ IsInjective(<<>>) /\ \A a : ~Contains(<<>>, a)
    <3>1. DOMAIN <<>> = {} /\ Len(<<>>) = 0
      OBVIOUS
    <3> QED
      BY <3>1 DEF IsInjective, Contains
  <2>2. /\ new \in [FileTask -> Seq(Address)] /\ new[t] = <<>>
        /\ \A u \in FileTask : u # t => new[u] = lists[u]
    BY <1>3, <2>1 DEF ListsOK
  <2> HIDE DEF new
  <2>3. ASSUME NEW u \in FileTask, NEW a \in Address
        PROVE  Contains(new[u], a) <=> a \in DOMAIN files /\ files[a].kind = kind /\ files[a].opener = u
    <3>1. Contains(m_open_files[t], a) <=> a \in DOMAIN opened /\ opened[a].kind = "file" /\ opened[a].opener = t
      BY DEF FileInv, ListsOK
    <3>2. Contains(m_open_dirs[t], a) <=> a \in DOMAIN opened /\ opened[a].kind = "dir" /\ opened[a].opener = t
      BY DEF FileInv, ListsOK
    <3>3. Contains(lists[u], a) <=> a \in DOMAIN opened /\ opened[a].kind = kind /\ opened[a].opener = u
      BY <1>3 DEF ListsOK
    <3>4. a \in DOMAIN files <=> a \in DOMAIN opened /\ ~Contains(m_open_files[t], a) /\ ~Contains(m_open_dirs[t], a)
      BY <1>1
    <3>5. a \in DOMAIN files => files[a] = opened[a]
      OBVIOUS
    <3> HIDE DEF files
    <3>6. CASE u = t
      BY <1>3, <2>1, <2>2, <3>1, <3>2, <3>3, <3>4, <3>5, <3>6
    <3>7. CASE u # t
      BY <2>2, <3>1, <3>2, <3>3, <3>4, <3>5, <3>7
    <3> QED
      BY <3>6, <3>7
  <2>4. ASSUME NEW u \in FileTask PROVE IsInjective(new[u])
    BY <1>3, <2>1, <2>2 DEF ListsOK
  <2> QED
    BY <2>2, <2>3, <2>4 DEF ListsOK, new
<1> HIDE DEF files
<1>4. ListsOK([m_open_files EXCEPT ![t] = <<>>], files, "file") /\ ListsOK([m_open_dirs EXCEPT ![t] = <<>>], files, "dir")
  BY <1>3 DEF FileInv
<1>5. /\ opened' = files /\ m_open_files' = [m_open_files EXCEPT ![t] = <<>>]
      /\ m_open_dirs' = [m_open_dirs EXCEPT ![t] = <<>>]
  BY DEF FreeFiles, files
<1> QED
  BY <1>2, <1>4, <1>5 DEF FileInv

\* The system calls on files and directories.
LEMMA FileStep == ASSUME FileInv, [FileNext]_fileVars PROVE FileInv'
<1> USE DEF FileInv
<1>1. ASSUME NEW t \in FileTask, NEW path, NEW a \in Address, OpenFile(t, path, a) PROVE FileInv'
  <2>1. CASE path \in DOMAIN file_size
    <3>1. /\ a \notin DOMAIN opened /\ opened' = with(a, Object("file", path, t)) /\ m_open_dirs' = m_open_dirs
          /\ m_open_files' = [m_open_files EXCEPT ![t] = Append(@, a)]
      BY <1>1, <2>1 DEF OpenFile, register_file
    <3> QED
      BY <3>1, OpenKeeps
  <2>2. CASE path \notin DOMAIN file_size
    BY <1>1, <2>2 DEF OpenFile
  <2> QED
    BY <2>1, <2>2
<1>2. ASSUME NEW t \in FileTask, NEW path, NEW a \in Address, OpenDir(t, path, a) PROVE FileInv'
  <2>1. CASE path \in DOMAIN dir_size
    <3>1. /\ a \notin DOMAIN opened /\ opened' = with(a, Object("dir", path, t)) /\ m_open_files' = m_open_files
          /\ m_open_dirs' = [m_open_dirs EXCEPT ![t] = Append(@, a)]
      BY <1>2, <2>1 DEF OpenDir, register_dir
    <3> QED
      BY <3>1, OpenKeeps
  <2>2. CASE path \notin DOMAIN dir_size
    BY <1>2, <2>2 DEF OpenDir
  <2> QED
    BY <2>1, <2>2
<1>3. ASSUME NEW t \in FileTask, NEW a \in Address, CloseFile(t, a) PROVE FileInv'
  <2>1. CASE own_file(t, a)
    <3>1. /\ Contains(m_open_files[t], a) /\ opened' = without(a) /\ m_open_dirs' = m_open_dirs
          /\ m_open_files' = [m_open_files EXCEPT ![t] = RemoveFirst(@, a)]
      BY <1>3, <2>1 DEF CloseFile, unregister_file, own_file
    <3>2. /\ ObjectsOK(without(a))
          /\ ListsOK([m_open_files EXCEPT ![t] = RemoveFirst(@, a)], without(a), "file")
          /\ ListsOK(m_open_dirs, without(a), "dir")
      <4>1. "file" # "dir"
        OBVIOUS
      <4> QED
        BY <3>1, <4>1, CloseKeeps
    <3> QED
      BY <3>1, <3>2
  <2>2. CASE ~own_file(t, a)
    BY <1>3, <2>2 DEF CloseFile
  <2> QED
    BY <2>1, <2>2
<1>4. ASSUME NEW t \in FileTask, NEW a \in Address, CloseDir(t, a) PROVE FileInv'
  <2>1. CASE own_dir(t, a)
    <3>1. /\ Contains(m_open_dirs[t], a) /\ opened' = without(a) /\ m_open_files' = m_open_files
          /\ m_open_dirs' = [m_open_dirs EXCEPT ![t] = RemoveFirst(@, a)]
      BY <1>4, <2>1 DEF CloseDir, unregister_dir, own_dir
    <3>2. /\ ObjectsOK(without(a))
          /\ ListsOK([m_open_dirs EXCEPT ![t] = RemoveFirst(@, a)], without(a), "dir")
          /\ ListsOK(m_open_files, without(a), "file")
      <4>1. "dir" # "file"
        OBVIOUS
      <4> QED
        BY <3>1, <4>1, CloseKeeps
    <3> QED
      BY <3>1, <3>2
  <2>2. CASE ~own_dir(t, a)
    BY <1>4, <2>2 DEF CloseDir
  <2> QED
    BY <2>1, <2>2
<1>5. ASSUME NEW t \in FileTask, NEW a \in Address, NEW n, ReadFile(t, a, n) PROVE FileInv'
  <2>1. CASE own_file(t, a)
    <3>1. /\ opened' = [opened EXCEPT ![a].fptr = opened[a].fptr + read_bytes(a, n)]
          /\ m_open_files' = m_open_files /\ m_open_dirs' = m_open_dirs
      BY <1>5, <2>1 DEF ReadFile
    <3> QED
      BY <3>1, ReadKeeps
  <2>2. CASE ~own_file(t, a)
    BY <1>5, <2>2 DEF ReadFile
  <2> QED
    BY <2>1, <2>2
<1>6. ASSUME NEW t \in FileTask, NEW a \in Address, ReadDir(t, a) PROVE FileInv'
  <2>1. CASE own_dir(t, a) /\ ~dir_at_end(a)
    <3>1. /\ opened' = [opened EXCEPT ![a].fptr = opened[a].fptr + 1]
          /\ m_open_files' = m_open_files /\ m_open_dirs' = m_open_dirs
      BY <1>6, <2>1 DEF ReadDir
    <3> QED
      BY <3>1, ReadKeeps
  <2>2. CASE ~(own_dir(t, a) /\ ~dir_at_end(a))
    BY <1>6, <2>2 DEF ReadDir
  <2> QED
    BY <2>1, <2>2
<1>7. ASSUME NEW t \in FileTask, NEW a \in Address, GetFileSize(t, a) PROVE FileInv'
  BY <1>7 DEF GetFileSize
<1>8. ASSUME NEW t \in FileTask, FreeFiles(t) PROVE FileInv'
  BY <1>8, FreeFilesKeeps
<1>9. CASE UNCHANGED fileVars
  BY <1>9 DEF fileVars
<1> QED
  BY <1>1, <1>2, <1>3, <1>4, <1>5, <1>6, <1>7, <1>8, <1>9 DEF FileNext

\* A handle works for the task that opened what is at its address, in calls of its kind, and every
\* open object is in one list, once, however the allocator hands the addresses out again.
THEOREM HandlesCorrect == FileSpec => []HandlesAreSafe
<1>1. FileInit => FileInv
  <2> SUFFICES ASSUME FileInit PROVE FileInv
    OBVIOUS
  <2>1. <<>> \in Seq(Address) /\ IsInjective(<<>>) /\ (\A a : ~Contains(<<>>, a)) /\ DOMAIN opened = {}
    <3>1. DOMAIN <<>> = {} /\ Len(<<>>) = 0
      OBVIOUS
    <3> QED
      BY <3>1 DEF IsInjective, Contains, FileInit
  <2> QED
    BY <2>1 DEF FileInit, FileInv, ListsOK, ObjectsOK
<1>2. FileInv /\ [FileNext]_fileVars => FileInv'
  BY FileStep
<1>3. FileInv => HandlesAreSafe
  BY DEF FileInv, ListsOK, ObjectsOK, HandlesAreSafe, own_file, own_dir
<1> QED
  BY <1>1, <1>2, <1>3, PTL DEF FileSpec
=============================================================================
