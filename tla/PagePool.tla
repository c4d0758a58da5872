------------------------------ MODULE PagePool ------------------------------
(***************************************************************************)
(* What a page allocator promises: a set of free pages, from which a page  *)
(* is handed out if there is one. An allocation fails only when there is   *)
(* none.                                                                   *)
(***************************************************************************)
CONSTANTS Page,     \* the pages
          FAILED    \* the answer when there is no free page

VARIABLES free,     \* the free pages
          answer    \* the answer to the last allocation

Init == free = Page /\ answer = FAILED

Allocate(p) == p \in free /\ free' = free \ {p} /\ answer' = p
Fail == free = {} /\ answer' = FAILED /\ UNCHANGED free
Use(p) == free' = free \ {p} /\ UNCHANGED answer
Release(p) == free' = free \cup {p} /\ UNCHANGED answer

Next == Fail \/ \E p \in Page : Allocate(p) \/ Use(p) \/ Release(p)

Spec == Init /\ [][Next]_<<free, answer>>
=============================================================================
