----------------------------- MODULE LinkedList -----------------------------
(***************************************************************************)
(* The doubly linked list of lib/libk/include/libk/linked_list.hpp, which  *)
(* holds the run queues, the sleepers, the wait lists, the windows, the    *)
(* open files and pipes and the chunks of the programs.                    *)
(*                                                                         *)
(* A member function runs alone and is one step, but for clear(), whose    *)
(* loop takes a step per node. The allocator is external: it hands out any *)
(* address that is not in use, with the memory of the node it held before. *)
(***************************************************************************)
EXTENDS Naturals, Sequences

CONSTANTS Node,       \* the addresses
          nullptr

ASSUME NullAssumption == nullptr \notin Node

VARIABLES m_head, m_tail,
          next, previous,  \* of the node at each address
          allocated,       \* the addresses in use
          clearing,        \* clear() is in its loop
          node,            \* the next node of that loop
          order            \* the nodes in the order the calls ask for (observes)

links == <<m_head, m_tail, next, previous>>
nodeVars == <<links, allocated, clearing, node, order>>

Pointer == Node \cup {nullptr}

ListTypeOK ==
  /\ m_head \in Pointer /\ m_tail \in Pointer /\ node \in Pointer
  /\ next \in [Node -> Pointer] /\ previous \in [Node -> Pointer]
  /\ allocated \subseteq Node
  /\ clearing \in BOOLEAN
  /\ order \in Seq(Node)

ListInit ==
  /\ m_head = nullptr /\ m_tail = nullptr /\ node = nullptr
  /\ next = [n \in Node |-> nullptr] /\ previous = [n \in Node |-> nullptr]
  /\ allocated = {} /\ clearing = FALSE
  /\ order = <<>>

\* The sequence s with n as its i-th element, and without its i-th element.
inserted(s, i, n) ==
  [j \in 1 .. Len(s) + 1 |-> IF j < i THEN s[j] ELSE IF j = i THEN n ELSE s[j - 1]]
removed(s, i) == [j \in 1 .. Len(s) - 1 |-> IF j < i THEN s[j] ELSE s[j + 1]]

is_empty == m_head = nullptr

\* new Node{data}: the links of a new node are null.
new_node(n) == ~clearing /\ n \in Node \ allocated /\ allocated' = allocated \cup {n}
-----------------------------------------------------------------------------
\* insert_after(node, new_node).
insert_after(pos, n) ==
  /\ next' = [next EXCEPT ![n] = next[pos], ![pos] = n]
  /\ IF next[pos] = nullptr
     THEN m_tail' = n /\ previous' = [previous EXCEPT ![n] = pos]
     ELSE previous' = [previous EXCEPT ![n] = pos, ![next[pos]] = n] /\ UNCHANGED m_tail
  /\ UNCHANGED m_head

\* insert_before(node, new_node).
insert_before(pos, n) ==
  /\ previous' = [previous EXCEPT ![n] = previous[pos], ![pos] = n]
  /\ IF previous[pos] = nullptr
     THEN m_head' = n /\ next' = [next EXCEPT ![n] = pos]
     ELSE next' = [next EXCEPT ![n] = pos, ![previous[pos]] = n] /\ UNCHANGED m_head
  /\ UNCHANGED m_tail

\* insert_front() and insert_back() of an empty list.
insert_only(n) ==
  /\ m_head' = n /\ m_tail' = n
  /\ next' = [next EXCEPT ![n] = nullptr] /\ previous' = [previous EXCEPT ![n] = nullptr]

\* push_back() and emplace_back().
PushBack(n) ==
  /\ new_node(n)
  /\ IF m_tail = nullptr THEN insert_only(n) ELSE insert_after(m_tail, n)
  /\ order' = inserted(order, Len(order) + 1, n)
  /\ UNCHANGED <<clearing, node>>

PushFront(n) ==
  /\ new_node(n)
  /\ IF m_tail = nullptr THEN insert_only(n) ELSE insert_before(m_head, n)
  /\ order' = inserted(order, 1, n)
  /\ UNCHANGED <<clearing, node>>

\* insert_before(it, data) and insert_after(it, data), for the iterator at the i-th node.
InsertBefore(i, n) ==
  /\ new_node(n)
  /\ insert_before(order[i], n)
  /\ order' = inserted(order, i, n)
  /\ UNCHANGED <<clearing, node>>

InsertAfter(i, n) ==
  /\ new_node(n)
  /\ insert_after(order[i], n)
  /\ order' = inserted(order, i + 1, n)
  /\ UNCHANGED <<clearing, node>>
-----------------------------------------------------------------------------
\* Mutant of remove_node: m_tail keeps pointing to the node that is deleted.
remove_node_tail(n) ==
  /\ ~clearing
  /\ m_head' = IF previous[n] = nullptr THEN next[n] ELSE m_head
  /\ next' = IF previous[n] = nullptr THEN next ELSE [next EXCEPT ![previous[n]] = next[n]]
  /\ previous' = IF next[n] = nullptr THEN previous ELSE [previous EXCEPT ![next[n]] = previous[n]]
  /\ allocated' = allocated \ {n}
  /\ UNCHANGED <<m_tail, clearing, node>>

\* remove_node(): the neighbours are linked to each other, and the node deleted.
remove_node(n) ==
  /\ ~clearing
  /\ m_head' = IF previous[n] = nullptr THEN next[n] ELSE m_head
  /\ next' = IF previous[n] = nullptr THEN next ELSE [next EXCEPT ![previous[n]] = next[n]]
  /\ m_tail' = IF next[n] = nullptr THEN previous[n] ELSE m_tail
  /\ previous' = IF next[n] = nullptr THEN previous ELSE [previous EXCEPT ![next[n]] = previous[n]]
  /\ allocated' = allocated \ {n}
  /\ UNCHANGED <<clearing, node>>

\* pop_front() and pop_back(), of a list that is not empty.
PopFront ==
  /\ ~is_empty
  /\ remove_node(m_head)
  /\ order' = removed(order, 1)

PopBack ==
  /\ ~is_empty
  /\ remove_node(m_tail)
  /\ order' = removed(order, Len(order))

\* erase(it), for the iterator at the i-th node.
Erase(i) ==
  /\ remove_node(order[i])
  /\ order' = removed(order, i)

\* clear(): a step per node.
Clear ==
  /\ ~clearing
  /\ clearing' = TRUE /\ node' = m_head
  /\ UNCHANGED <<links, allocated, order>>

ClearNode ==
  /\ clearing /\ node # nullptr
  /\ node' = next[node]
  /\ allocated' = allocated \ {node}
  /\ order' = removed(order, 1)
  /\ UNCHANGED <<links, clearing>>

ClearEnd ==
  /\ clearing /\ node = nullptr
  /\ m_head' = nullptr /\ m_tail' = nullptr
  /\ clearing' = FALSE
  /\ UNCHANGED <<next, previous, allocated, node, order>>

ListNext ==
  \/ \E n \in Node : PushBack(n) \/ PushFront(n)
  \/ \E n \in Node : \E i \in 1 .. Len(order) : InsertBefore(i, n) \/ InsertAfter(i, n)
  \/ PopFront \/ PopBack
  \/ \E i \in 1 .. Len(order) : Erase(i)
  \/ Clear \/ ClearNode \/ ClearEnd

ListSpec == ListInit /\ [][ListNext]_nodeVars
-----------------------------------------------------------------------------
\* The nodes in `order` are different from each other, and they are the ones in use.
Distinct ==
  /\ \A i, j \in 1 .. Len(order) : order[i] = order[j] => i = j
  /\ allocated = {order[i] : i \in 1 .. Len(order)}

\* Following `next` visits the nodes in their order.
Forward ==
  /\ order = <<>> => (IF clearing THEN node ELSE m_head) = nullptr
  /\ order # <<>> => /\ (IF clearing THEN node ELSE m_head) = order[1]
                     /\ next[order[Len(order)]] = nullptr
  /\ \A i \in 1 .. Len(order) - 1 : next[order[i]] = order[i + 1]

\* Following `previous` visits them in the opposite order.
Backward ==
  ~clearing => /\ order = <<>> => m_tail = nullptr
               /\ order # <<>> => m_tail = order[Len(order)] /\ previous[order[1]] = nullptr
               /\ \A i \in 1 .. Len(order) - 1 : previous[order[i + 1]] = order[i]

\* The list is the sequence that its calls ask for, in both directions, with no link to a node that
\* is not in use; what is not in the list has been freed (linked_list.hpp, each of its member
\* functions on lists of no, one and more nodes, and on addresses that are used again).
ListIsSequence == ListTypeOK /\ Distinct /\ Forward /\ Backward
=============================================================================
