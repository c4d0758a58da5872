------------------------------ MODULE PageSize ------------------------------
(***************************************************************************)
(* The size of a page in bytes, PAGE_SIZE of libk and of the kernel.       *)
(***************************************************************************)
EXTENDS Naturals

CONSTANT PAGE_SIZE

ASSUME PageSizeAssumption == PAGE_SIZE \in Nat \ {0}
=============================================================================
