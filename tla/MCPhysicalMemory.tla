------------------------- MODULE MCPhysicalMemory -------------------------
(***************************************************************************)
(* Device trees for model checking, with pages of two bytes: one chunk,    *)
(* two chunks of which only the second can hold the reservation, two       *)
(* nodes, a chunk that is too small, and more chunks than there are pages  *)
(* for bitmaps. What the boot has placed is in the pages of the page       *)
(* allocators, or also in the reservation.                                 *)
(***************************************************************************)
EXTENDS PhysicalMemory

OneChunk == <<<< <<0, 21>> >>>>
TwoChunks == <<<< <<0, 8>>, <<10, 14>> >>>>
TwoNodes == <<<< <<0, 14>> >>, << <<16, 6>> >>>>
TooSmall == <<<< <<0, 4>> >>>>
ManyChunks == <<<< <<0, 12>>, <<12, 2>>, <<14, 2>>, <<16, 2>> >>>>
MCLayouts == {OneChunk, TwoChunks, TwoNodes, TooSmall, ManyChunks}

MCPlacements == {<<<<0, 2>>>>, <<<<0, 2>>, <<10, 12>>>>}

\* The reservation of OneChunk is 14 .. 19.
JustOneChunk == {OneChunk}
InReservation == {<<<<0, 2>>, <<18, 20>>>>}
===========================================================================
