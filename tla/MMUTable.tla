----------------------------- MODULE MMUTable -----------------------------
(***************************************************************************)
(* The translation tables of the MMU, kernel/memory/mmu_table.cpp: a tree  *)
(* of tables, whose entries are invalid, name a table of the next level,   *)
(* or map a page (at the last level) or a block of pages (from level 2 on) *)
(* to physical memory. map_range(), unmap_range() and change_attr_range()  *)
(* walk the tree recursively and split blocks.                             *)
(*                                                                         *)
(* Addresses are page numbers; virtual ones count from the base of the     *)
(* kernel's half, so that a number before it is no page of the table. An   *)
(* entry is named by its level and its first page. The barriers and TLB    *)
(* invalidations of the code are not modelled.                             *)
(***************************************************************************)
EXTENDS Integers

CONSTANTS LEVELS,          \* levels of tables: 4 in the code
          TABLE_ENTRIES,   \* entries of a table: 512 in the code
          Attr,            \* attributes of a page
          NoAttr,          \* of an entry that maps nothing
          MapRequests,     \* bound: <<va_start, va_end, pa_start>> to map
          Ranges           \* bound: <<va_start, va_end>> to unmap or to change

ASSUME TableAssumption == LEVELS \in Nat \ {0, 1} /\ TABLE_ENTRIES \in Nat \ {0, 1}
ASSUME NoAttrAssumption == NoAttr \notin Attr

VARIABLES entries,   \* every entry of the tree; the entries of a table that is not there are invalid
          request    \* the last call: what was asked for

mmuVars == <<entries, request>>

\* The pages an entry of a level stands for.
Span(level) == TABLE_ENTRIES ^ (LEVELS - level)
VA == 0 .. TABLE_ENTRIES ^ LEVELS - 1
Slot == {s \in (1 .. LEVELS) \X VA : s[2] % Span(s[1]) = 0}

Invalid == [kind |-> "Invalid", pa |-> 0, attr |-> NoAttr]
TableEntry == [kind |-> "Table", pa |-> 0, attr |-> NoAttr]

MMUTypeOK ==
  /\ entries \in [Slot -> [kind : {"Invalid", "Table", "Page", "Block"}, pa : Nat, attr : Attr \cup {NoAttr}]]
  /\ \A s \in Slot : s[1] = LEVELS => entries[s].kind \in {"Invalid", "Page"}
  /\ \A s \in Slot : entries[s].kind = "Block" => s[1] \in 2 .. LEVELS - 1
  /\ \A s \in Slot : entries[s].kind = "Page" => s[1] = LEVELS

MMUInit ==
  /\ entries = [s \in Slot |-> Invalid]
  /\ request = [op |-> "none", start |-> 0, end |-> -1, pa |-> 0, attr |-> NoAttr]
-----------------------------------------------------------------------------
\* The last page of the table of a level that starts at page first.
table_last_page(first, level) == first + Span(level - 1) - 1

encode_new_entry(pa, level, attr) ==
  [kind |-> IF level = LEVELS THEN "Page" ELSE "Block", pa |-> pa, attr |-> attr]

\* The first page of the entry of a level that page va lies in.
entry_start(va, level) == va - (va % Span(level))

Later(a, b) == IF a < b THEN b ELSE a
Earlier(a, b) == IF a < b THEN a ELSE b

RECURSIVE map_range_in_table(_, _, _, _, _, _, _)

\* Mutant of split_offset: the rest of a split block starts one page too early.
split_offset_short(va_end, va) == va_end - va

\* The offset of what is behind page va_end in a block that starts at page va.
split_offset(va_end, va) == va_end + 1 - va

(***************************************************************************)
(* map_range_in_table(): the entries t after the table of the given level, *)
(* which starts at page first, has mapped what it can of the range. A      *)
(* block that is split gets its other parts back.                          *)
(***************************************************************************)
map_range_in_table(t, va_start, va_end, pa_start, attr, level, first) ==
  LET last == table_last_page(first, level)
      map_entry(u, va) ==
        LET entry == u[<<level, va>>]
            stop == table_last_page(va, level + 1)
            below(w, from, to, pa, a) == map_range_in_table(w, from, to, pa, a, level + 1, va)
            new == below([u EXCEPT ![<<level, va>>] = TableEntry], va_start, va_end, pa_start, attr)
            before == below(new, va, va_start - 1, entry.pa, entry.attr)
        IN CASE entry.kind = "Table" -> below(u, va_start, va_end, pa_start, attr)
             [] entry.kind # "Table" /\ (level = LEVELS \/ (va_start <= va /\ stop <= va_end /\ level >= 2)) ->
                  [u EXCEPT ![<<level, va>>] = encode_new_entry(pa_start + va - va_start, level, attr)]
             [] OTHER -> IF entry.kind # "Block" THEN new
                         ELSE below(before, va_end + 1, stop, entry.pa + split_offset(va_end, va), entry.attr)
      from[va \in VA \cup {last + 1}] == IF va > Earlier(va_end, last) THEN 0 ELSE 1 + from[va + Span(level)]
      start == entry_start(Later(va_start, first), level)
      loop[n \in 0 .. TABLE_ENTRIES] == IF n = 0 THEN t ELSE map_entry(loop[n - 1], start + (n - 1) * Span(level))
  IN IF va_end < first \/ va_start > last \/ va_start > va_end THEN t ELSE loop[from[start]]

\* The table at an entry is freed: nothing below it is left.
free_table(t, level, va) ==
  [s \in Slot |-> IF s = <<level, va>> \/ (s[1] > level /\ s[2] \in va .. va + Span(level) - 1) THEN Invalid ELSE t[s]]

RECURSIVE unmap_range_in_table(_, _, _, _, _)

\* unmap_range_in_table(). The end of an entry is computed from the start of its table.
unmap_range_in_table(t, va_start, va_end, level, first) ==
  LET last == table_last_page(first, level)
      stop == table_last_page(first, level + 1)
      unmap_entry(u, va) ==
        LET entry == u[<<level, va>>]
            whole == va_start <= va /\ stop <= va_end
            below(w, from, to, pa) == map_range_in_table(w, from, to, pa, entry.attr, level + 1, va)
            before == below([u EXCEPT ![<<level, va>>] = TableEntry], va, va_start - 1, entry.pa)
            emptied == unmap_range_in_table(u, va_start, va_end, level + 1, va)
        IN CASE entry.kind = "Invalid" -> u
             [] entry.kind = "Page" \/ (entry.kind = "Block" /\ whole) -> [u EXCEPT ![<<level, va>>] = Invalid]
             [] entry.kind = "Block" /\ ~whole ->
                  below(before, va_end + 1, stop, entry.pa + split_offset(va_end, va))
             [] entry.kind = "Table" -> IF whole THEN free_table(emptied, level, va) ELSE emptied
      from[va \in VA \cup {last + 1}] == IF va > Earlier(va_end, last) THEN 0 ELSE 1 + from[va + Span(level)]
      start == entry_start(Later(va_start, first), level)
      loop[n \in 0 .. TABLE_ENTRIES] == IF n = 0 THEN t ELSE unmap_entry(loop[n - 1], start + (n - 1) * Span(level))
  IN IF va_end < first \/ va_start > last \/ va_start > va_end THEN t ELSE loop[from[start]]

\* The offset of page va_start in a block that starts at page va.
split_offset1(va_start, va) == va_start - va

RECURSIVE change_properties_for_range(_, _, _, _, _, _)

\* change_properties_for_range(). The end of an entry is computed from the start of its table.
change_properties_for_range(t, va_start, va_end, attr, level, first) ==
  LET last == table_last_page(first, level)
      stop == table_last_page(first, level + 1)
      change_entry(u, va) ==
        LET entry == u[<<level, va>>]
            whole == va_start <= va /\ stop <= va_end
            below(w, from, to, pa, a) == map_range_in_table(w, from, to, pa, a, level + 1, va)
            before == below([u EXCEPT ![<<level, va>>] = TableEntry], va, va_start - 1, entry.pa, entry.attr)
            inside == below(before, va_start, va_end, entry.pa + split_offset1(va_start, va), attr)
        IN CASE entry.kind = "Invalid" -> u
             [] entry.kind = "Page" \/ (entry.kind = "Block" /\ whole) -> [u EXCEPT ![<<level, va>>].attr = attr]
             [] entry.kind = "Block" /\ ~whole ->
                  below(inside, va_end + 1, stop, entry.pa + split_offset(va_end, va), entry.attr)
             [] entry.kind = "Table" -> change_properties_for_range(u, va_start, va_end, attr, level + 1, va)
      from[va \in VA \cup {last + 1}] == IF va > Earlier(va_end, last) THEN 0 ELSE 1 + from[va + Span(level)]
      start == entry_start(Later(va_start, first), level)
      loop[n \in 0 .. TABLE_ENTRIES] == IF n = 0 THEN t ELSE change_entry(loop[n - 1], start + (n - 1) * Span(level))
  IN IF va_end < first \/ va_start > last \/ va_start > va_end THEN t ELSE loop[from[start]]

\* find_entry_in_table(): the page or block that page va is mapped by, or the invalid entry met.
find_entry(t, va) ==
  LET find[level \in 1 .. LEVELS] ==
        IF t[<<level, entry_start(va, level)>>].kind = "Table" THEN find[level + 1]
        ELSE <<level, entry_start(va, level)>>
  IN find[1]
-----------------------------------------------------------------------------
Asks(op, start, end, pa, attr) == request' = [op |-> op, start |-> start, end |-> end, pa |-> pa, attr |-> attr]

map_range(va_start, va_end, pa_start, attr) ==
  /\ entries' = map_range_in_table(entries, va_start, va_end, pa_start, attr, 1, 0)
  /\ Asks("map", va_start, va_end, pa_start, attr)

\* Mutant of unmap_range: off by one page at the start.
unmap_range_late(va_start, va_end) ==
  /\ entries' = unmap_range_in_table(entries, va_start + 1, va_end, 1, 0)
  /\ Asks("unmap", va_start, va_end, 0, NoAttr)

unmap_range(va_start, va_end) ==
  /\ entries' = unmap_range_in_table(entries, va_start, va_end, 1, 0)
  /\ Asks("unmap", va_start, va_end, 0, NoAttr)

change_attr_range(va_start, va_end, attr) ==
  /\ entries' = change_properties_for_range(entries, va_start, va_end, attr, 1, 0)
  /\ Asks("change", va_start, va_end, 0, attr)

\* Of a page in a block, the attributes of the whole block are changed.
change_attr_va(va, attr) ==
  /\ entries[find_entry(entries, va)].kind # "Invalid"
  /\ entries' = [entries EXCEPT ![find_entry(entries, va)].attr = attr]
  /\ Asks("change_va", va, va, 0, attr)

\* clear_all(): every entry, and every table but the first.
clear_all ==
  /\ entries' = [s \in Slot |-> Invalid]
  /\ Asks("clear", 0, -1, 0, NoAttr)

MapSome == \E r \in MapRequests, a \in Attr : map_range(r[1], r[2], r[3], a)
UnmapSome == \E r \in Ranges : unmap_range(r[1], r[2])
ChangeSome == \E r \in Ranges, a \in Attr : change_attr_range(r[1], r[2], a)

ChangeOne == \E r \in Ranges, a \in Attr : change_attr_va(r[1], a)

MMUNext == MapSome \/ UnmapSome \/ ChangeSome \/ ChangeOne \/ clear_all

MMUSpec == MMUInit /\ [][MMUNext]_mmuVars
-----------------------------------------------------------------------------
\* What the hardware makes of the entries: a block starts at a multiple of its size, the low
\* bits of its address are ignored.
translate(t, va) ==
  LET s == find_entry(t, va)
      entry == t[s]
  IN IF entry.kind = "Invalid" THEN <<>>
     ELSE <<entry.pa - (entry.pa % Span(s[1])) + (va % Span(s[1])), entry.attr>>

Translation == [va \in VA |-> translate(entries, va)]
Asked == request.start .. request.end

\* After map_range() the pages asked for are mapped to the frames asked for, and every other page
\* is mapped to what it was before, whatever blocks the call had to split.
MapIsExact ==
  [][request'.op = "map" =>
       Translation' = [va \in VA |-> IF va \in Asked' THEN <<request'.pa + va - request'.start, request'.attr>>
                                     ELSE Translation[va]]]_mmuVars

\* After unmap_range() no page asked for is mapped, and no other page is mapped to something new.
UnmapIsSafe ==
  [][request'.op = "unmap" =>
       \A va \in VA : Translation'[va] = <<>> \/ (va \notin Asked' /\ Translation'[va] = Translation[va])]_mmuVars

\* After change_attr_range() or change_attr_va() the mapped pages asked for have the attributes, and no page is mapped
\* to another frame or is mapped anew.
ChangeIsSafe ==
  [][request'.op \in {"change", "change_va"} =>
       \A va \in VA :
         /\ va \in Asked' /\ Translation[va] # <<>> => Translation'[va] = <<Translation[va][1], request'.attr>>
         /\ Translation'[va] # <<>> => Translation[va] # <<>> /\ Translation'[va][1] = Translation[va][1]]_mmuVars

\* Taking pages away and changing them, with all the splitting and merging of blocks, gives no page
\* a frame it did not have (mmu_table.cpp unmap_range(), change_attr_range(), change_attr_va()).
EditsAreSafe == []MMUTypeOK /\ UnmapIsSafe /\ ChangeIsSafe
-----------------------------------------------------------------------------
\* mmu_table.hpp, unmap_range(): "Unmaps the virtual address range from @a va_start to @a va_end
\* *INCLUSIVE*." The pages outside of the range keep their mapping.
UnmapIsExact ==
  [][request'.op = "unmap" =>
       \A va \in VA : Translation'[va] = IF va \in Asked' THEN <<>> ELSE Translation[va]]_mmuVars
=============================================================================
