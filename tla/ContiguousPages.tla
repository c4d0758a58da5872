-------------------------- MODULE ContiguousPages --------------------------
(***************************************************************************)
(* The allocator of contiguous pages, class ContiguousPageAllocator of     *)
(* kernel/memory/contiguous_page_alloc.cpp: a next-fit search over a       *)
(* bitmap, from a cursor that stays where the last search ended, with a    *)
(* second pass from the start. It serves the buffers of buffer.cpp.        *)
(*                                                                         *)
(* One action is one iteration of the search. Addresses are page numbers.  *)
(***************************************************************************)
EXTENDS Integers

CONSTANTS _nb_pages, \* the pages
          MaxRange \* bound: the largest number of pages asked for

ASSUME RangeAssumption == _nb_pages \in Nat /\ MaxRange \in Nat \ {0}

PageNo == 0 .. _nb_pages - 1
NoRange == <<_nb_pages, _nb_pages>>

VARIABLES _free_page,       \* the free pages
          _page_cursor,     \* where the search is, or the last one ended
          pass,             \* 0: no search runs; 1, 2: the pass of the search
          nb_pages,         \* the pages asked for
          page_candidate, found_free_pages,
          answer,           \* <<start, end>> of the last answer, or NoRange
          held              \* the ranges handed out and not freed

searchVars == <<pass, nb_pages, page_candidate, found_free_pages>>
rangeVars == <<_free_page, _page_cursor, searchVars, answer, held>>

RangeTypeOK ==
  /\ _free_page \subseteq PageNo
  /\ _page_cursor \in 0 .. _nb_pages
  /\ pass \in 0 .. 2 /\ nb_pages \in 1 .. MaxRange
  /\ page_candidate \in 0 .. _nb_pages
  /\ found_free_pages \in 0 .. MaxRange
  /\ answer \in (PageNo \X PageNo) \cup {NoRange}
  /\ held \subseteq PageNo \X PageNo

RangeInit ==
  /\ _free_page = PageNo /\ _page_cursor = 0
  /\ pass = 0 /\ nb_pages = 1 /\ page_candidate = 0 /\ found_free_pages = 0
  /\ answer = NoRange /\ held = {}
-----------------------------------------------------------------------------
\* fresh_pages(): the first pass starts at the cursor.
fresh_pages(n) ==
  /\ pass = 0
  /\ pass' = 1 /\ nb_pages' = n /\ page_candidate' = _nb_pages /\ found_free_pages' = 0
  /\ UNCHANGED <<_free_page, _page_cursor, answer, held>>

\* The candidate and its length after the page at the cursor.
Candidate ==
  IF _page_cursor \notin _free_page THEN <<_nb_pages, 0>>
  ELSE IF found_free_pages = 0 THEN <<_page_cursor, 1>>
  ELSE <<page_candidate, found_free_pages + 1>>

\* One iteration of try_fresh_pages(): a run that is long enough is marked and answered.
SearchPage ==
  /\ pass # 0 /\ _page_cursor < _nb_pages
  /\ _page_cursor' = _page_cursor + 1
  /\ page_candidate' = Candidate[1] /\ found_free_pages' = Candidate[2]
  /\ IF Candidate[2] = nb_pages
     THEN LET range == <<Candidate[1], _page_cursor>>
          IN /\ _free_page' = _free_page \ (range[1] .. range[2])
             /\ answer' = range /\ held' = held \cup {range}
             /\ pass' = 0
     ELSE UNCHANGED <<_free_page, answer, held, pass>>
  /\ UNCHANGED nb_pages

\* Mutant of EndOfPass: there is no second pass.
EndOfPassOnce ==
  /\ pass # 0 /\ _page_cursor = _nb_pages
  /\ pass' = 0 /\ answer' = NoRange
  /\ UNCHANGED <<_free_page, _page_cursor, nb_pages, page_candidate, found_free_pages, held>>

\* The end of the pages: the second pass starts at the first page, after it there is no answer.
EndOfPass ==
  /\ pass # 0 /\ _page_cursor = _nb_pages
  /\ \/ /\ pass = 1
        /\ pass' = 2 /\ _page_cursor' = 0 /\ page_candidate' = _nb_pages /\ found_free_pages' = 0
        /\ UNCHANGED answer
     \/ /\ pass = 2
        /\ pass' = 0 /\ answer' = NoRange
        /\ UNCHANGED <<_page_cursor, page_candidate, found_free_pages>>
  /\ UNCHANGED <<_free_page, nb_pages, held>>

\* free_pages() of a range that was handed out.
free_pages(range) ==
  /\ pass = 0 /\ range \in held
  /\ _free_page' = _free_page \cup (range[1] .. range[2])
  /\ held' = held \ {range}
  /\ UNCHANGED <<_page_cursor, searchVars, answer>>

RangeNext ==
  \/ \E n \in 1 .. MaxRange : fresh_pages(n)
  \/ SearchPage \/ EndOfPass
  \/ \E range \in held : free_pages(range)

RangeSpec == RangeInit /\ [][RangeNext]_rangeVars
FairRangeSpec == RangeSpec /\ WF_rangeVars(SearchPage \/ EndOfPass)
-----------------------------------------------------------------------------
Pages(range) == range[1] .. range[2]

\* The run of n free pages that starts at page p.
IsFreeRun(p, n) == p + n <= _nb_pages /\ \A i \in p .. p + n - 1 : i \in _free_page

\* The ranges in use are disjoint, and a page is free iff it is in none of them.
RangesDisjoint ==
  /\ \A p \in PageNo : p \in _free_page <=> \A r \in held : p \notin Pages(r)
  /\ \A r, s \in held : r # s => Pages(r) \cap Pages(s) = {}

\* In the search: the candidate is a run of free pages that ends at the cursor, it is shorter than
\* what is asked for, and in the second pass it cannot be made longer at its start and no long
\* enough run was left behind.
SearchInv ==
  pass # 0 =>
    /\ found_free_pages < nb_pages
    /\ found_free_pages > 0 =>
         page_candidate + found_free_pages = _page_cursor /\ IsFreeRun(page_candidate, found_free_pages)
    /\ pass = 2 =>
         /\ found_free_pages = _page_cursor \/ _page_cursor - found_free_pages - 1 \notin _free_page
         /\ \A p \in 0 .. _page_cursor : p + nb_pages <= _page_cursor => ~IsFreeRun(p, nb_pages)

\* A page is neither handed out twice nor lost, wherever the cursor was, and what a search has
\* seen so far stays true until it ends.
RangesInv == RangeTypeOK /\ RangesDisjoint /\ SearchInv

\* A search gives up only when there is no run of the length asked for.
FailsOnlyWhenFull ==
  [][pass # 0 /\ pass' = 0 /\ answer' = NoRange => \A p \in PageNo : ~IsFreeRun(p, nb_pages)]_rangeVars

\* The ranges stay disjoint and the search is complete, wherever the cursor stood when it began
\* (contiguous_page_alloc.cpp fresh_pages()).
RangesAreSafe == []RangesInv /\ FailsOnlyWhenFull

\* Every search ends.
SearchEnds == pass # 0 ~> pass = 0
=============================================================================
