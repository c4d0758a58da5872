---------------------------- MODULE MCMMUTable ----------------------------
(***************************************************************************)
(* Requests for model checking, on four levels of tables of two entries:   *)
(* 16 pages, blocks of 2 and of 4. Ranges are mapped to frames with the    *)
(* same position in a block, single pages to any frame.                    *)
(***************************************************************************)
EXTENDS MMUTable

MCMaps == {<<0, 15, 0>>, <<3, 10, 11>>, <<5, 5, 0>>}
MCRanges == {<<3, 5>>, <<6, 15>>}
===========================================================================
