----------------------------- MODULE SocRanges -----------------------------
(***************************************************************************)
(* "/soc/ranges" of the device tree: where the registers of the devices    *)
(* are for the bus and for the processor. The boot maps the ranges one     *)
(* behind the other (boot/mmu_init.cpp); later the kernel computes where a *)
(* device has come to lie (hardware/kernel_dt.cpp). Each parses the        *)
(* property for itself. Its data are 32-bit words, and an index counts     *)
(* words; the firmware has written them.                                   *)
(***************************************************************************)
EXTENDS Integers, Sequences

CONSTANTS SocMaps,       \* what the property may say: sequences of ranges [soc, arm, size]
          WORD_VALUES,   \* 2^32
          DT_PAGE_SIZE, DEVICE_MEMORY

Number64 == 0 .. WORD_VALUES * WORD_VALUES - 1

ASSUME RangesAssumption ==
  /\ WORD_VALUES \in Nat \ {0} /\ DT_PAGE_SIZE \in Nat \ {0} /\ DEVICE_MEMORY \in Nat
  /\ SocMaps \subseteq Seq([soc : Number64, arm : Number64, size : Number64])
  \* map_range() is for whole pages.
  /\ \A m \in SocMaps : \A i \in DOMAIN m : m[i].size > 0 /\ m[i].size % DT_PAGE_SIZE = 0

\* Numbers are 64 bits wide. No range passes the end of the addresses, so that no sum wraps.
ASSUME RangesFit ==
  \A m \in SocMaps : \A i \in DOMAIN m :
    m[i].soc + m[i].size \in Number64 /\ m[i].arm + m[i].size \in Number64

VARIABLES soc_map,      \* what the property says (observes)
          cells,        \* DeviceMemoryProperties: is the field a u64?
          conversion    \* the last call of convert_soc_address()

rangesVars == <<soc_map, cells, conversion>>

NOT_FOUND == -1       \* libk::panic("Unable to find virtual address.")

\* A number in one cell or in two.
Cell(value, is_u64) == IF is_u64 THEN <<value \div WORD_VALUES, value % WORD_VALUES>> ELSE <<value>>

cell_words(is_u64) == IF is_u64 THEN 2 ELSE 1

\* The data of "/soc/ranges": word by word, of the range the word is in.
range_words == cell_words(cells.soc) + cell_words(cells.arm) + cell_words(cells.size)
RangeData(r) == Cell(r.soc, cells.soc) \o Cell(r.arm, cells.arm) \o Cell(r.size, cells.size)
soc_ranges ==
  [j \in 1 .. Len(soc_map) * range_words |->
     RangeData(soc_map[(j - 1) \div range_words + 1])[((j - 1) % range_words) + 1]]

\* get_variable_int() at a word of the data.
get_variable_int(index, is_u64) ==
  IF is_u64 THEN soc_ranges[index] * WORD_VALUES + soc_ranges[index + 1] ELSE soc_ranges[index]

\* One turn of the two loops over the ranges: the three numbers at an index and the index behind them.
range_at(index) ==
  LET arm == index + cell_words(cells.soc)
      size == arm + cell_words(cells.arm)
  IN [soc |-> get_variable_int(index, cells.soc), arm |-> get_variable_int(arm, cells.arm),
      size |-> get_variable_int(size, cells.size), behind |-> size + cell_words(cells.size)]

\* Both loops: the index and the offset before each turn, the end included.
Turns ==
  LET turn[n \in 0 .. Len(soc_ranges)] ==
        IF n = 0 THEN [index |-> 1, offset |-> 0]
        ELSE LET t == turn[n - 1]
                 r == range_at(t.index)
             IN IF t.index > Len(soc_ranges) THEN t ELSE [index |-> r.behind, offset |-> t.offset + r.size]
  IN turn

Taken == {n \in DOMAIN Turns : Turns[n].index <= Len(soc_ranges)}

\* setup_device_mapping(): the pairs <<va, pa>> of the pages it maps, one range behind the other.
setup_device_mapping ==
  UNION {LET r == range_at(Turns[n].index)
         IN {<<DEVICE_MEMORY + Turns[n].offset + k * DT_PAGE_SIZE, r.arm + k * DT_PAGE_SIZE>>
               : k \in 0 .. (r.size \div DT_PAGE_SIZE) - 1} : n \in Taken}

\* convert_soc_address() returns at the first range that the address is in.
Hits(soc_address) ==
  {n \in Taken : LET r == range_at(Turns[n].index) IN r.soc <= soc_address /\ soc_address < r.soc + r.size}

\* Mutant of convert_soc_address: the ranges in front are not counted.
convert_soc_address_first(soc_address) ==
  IF Hits(soc_address) = {} THEN NOT_FOUND
  ELSE LET t == Turns[CHOOSE n \in Hits(soc_address) : \A m \in Hits(soc_address) : n <= m]
       IN DEVICE_MEMORY + (soc_address - range_at(t.index).soc)

convert_soc_address(soc_address) ==
  IF Hits(soc_address) = {} THEN NOT_FOUND
  ELSE LET t == Turns[CHOOSE n \in Hits(soc_address) : \A m \in Hits(soc_address) : n <= m]
       IN DEVICE_MEMORY + t.offset + (soc_address - range_at(t.index).soc)
-----------------------------------------------------------------------------
RangesInit ==
  /\ soc_map \in SocMaps
  /\ cells \in [soc : BOOLEAN, arm : BOOLEAN, size : BOOLEAN]
  /\ \A i \in DOMAIN soc_map, f \in {"soc", "arm", "size"} : soc_map[i][f] < WORD_VALUES \/ cells[f]
  /\ conversion = [op |-> "none"]

ConvertSocAddress(soc_address) ==
  /\ conversion.op = "none"
  /\ conversion' = [op |-> "convert", soc |-> soc_address, va |-> convert_soc_address(soc_address)]
  /\ UNCHANGED <<soc_map, cells>>

\* Addresses in the ranges, and the first one behind each of them.
RangesNext ==
  \E i \in DOMAIN soc_map : \E a \in soc_map[i].soc .. soc_map[i].soc + soc_map[i].size : ConvertSocAddress(a)

RangesSpec == RangesInit /\ [][RangesNext]_rangesVars
-----------------------------------------------------------------------------
\* The address that the kernel computes for a device is one that the boot has mapped, to where the
\* device's range lies for the processor, whatever the number and the width of the ranges: the two
\* parsers of "/soc/ranges" agree (mmu_init.cpp setup_device_mapping(), kernel_dt.cpp
\* convert_soc_address()). An address outside of all ranges is refused.
DevicesAreMapped ==
  conversion.op = "convert" =>
    LET a == conversion.soc
        va == conversion.va
        inside == {i \in DOMAIN soc_map : soc_map[i].soc <= a /\ a < soc_map[i].soc + soc_map[i].size}
    IN IF inside = {} THEN va = NOT_FOUND
       ELSE LET i == CHOOSE i \in inside : \A j \in inside : i <= j
                pa == soc_map[i].arm + (a - soc_map[i].soc)
            IN {m[2] - m[1] + va : m \in {m \in setup_device_mapping : va - m[1] \in 0 .. DT_PAGE_SIZE - 1}} = {pa}
=============================================================================
