------------------------------- MODULE Loader -------------------------------
(***************************************************************************)
(* How a program gets into the memory of its task: the ELF reader          *)
(* (lib/libelf), the two create_task() of task_manager.cpp, the arguments  *)
(* that SYS_SPAWN writes and that the program reads (sys/args.c).          *)
(*                                                                         *)
(* The module follows one call with one program image. `memory` is what    *)
(* the new program will see, byte by byte: a chunk consists of zeroed      *)
(* pages and is mapped over whatever was mapped before. A byte is a pair:  *)
(* <<0, c>> is the character c, <<k, v>> the k-th byte of the word v.      *)
(* The stack and the page tables are in ProcessMemory and MMUTable.        *)
(***************************************************************************)
EXTENDS Integers, Sequences

CONSTANTS Images,       \* program files: see ImagesAssumption
          ArgLists,     \* what the caller passes as argv: sequences of strings
          LOAD_PAGE,    \* PAGE_SIZE, in bytes
          LOAD_PAGES,   \* bound: pages of the address space
          ARGS_PAGE,    \* the page at SYS_ARGS_ADDRESS
          WORD_BYTES    \* sizeof(uintptr_t)

ASSUME LoaderAssumption == /\ LOAD_PAGE \in Nat \ {0} /\ LOAD_PAGES \in Nat /\ WORD_BYTES \in 1 .. LOAD_PAGE
                           /\ ARGS_PAGE \in 0 .. LOAD_PAGES - 1

ASSUME ArgumentsAssumption == ArgLists \subseteq Seq(Seq(Nat))

Segment == [load : BOOLEAN, virtual_addr : Nat, offset : Nat, file_size : Nat, mem_size : Nat,
            flags : SUBSET {"READABLE", "WRITABLE", "EXECUTABLE"}]

\* The bytes of a file, and its program headers: what is to be loaded lies in the address space.
ASSUME ImagesAssumption ==
  \A m \in Images : /\ m.file \in Seq(Nat) /\ m.segments \in Seq(Segment)
                    /\ \A i \in DOMAIN m.segments :
                         m.segments[i].load =>
                           m.segments[i].virtual_addr + m.segments[i].mem_size <= LOAD_PAGES * LOAD_PAGE

Char(c) == <<0, c>>
Zero == Char(0)
Junk == <<-1, 0>>         \* what a page holds that was never given to the program
Unmapped == <<-2, 0>>
Word(v) == [k \in 1 .. WORD_BYTES |-> IF v = 0 THEN Zero ELSE <<k, v>>]

Load_VA == 0 .. LOAD_PAGES * LOAD_PAGE - 1

VARIABLES image,          \* the file: its header's wrong fields, its bytes, its program headers
          argv,           \* the arguments
          stage,          \* how far the call is
          segment,        \* i of the loop over the program headers, from 1
          starved,        \* the segments whose chunk got no memory
          memory, access  \* address |-> byte; page |-> the rights of its mapping

loadVars == <<image, argv, stage, segment, starved, memory, access>>

LoadInit ==
  /\ image \in Images /\ argv \in ArgLists
  /\ stage = "open" /\ segment = 1 /\ starved = {}
  /\ memory = [a \in Load_VA |-> Unmapped]
  /\ access = [p \in 0 .. LOAD_PAGES - 1 |-> {}]

\* The fields check_header() looks at, in this order; the first wrong one is its error.
HeaderFields == <<"MAG0", "MAG1", "MAG2", "MAG3", "CLASS", "ENDIANNESS", "MACHINE", "VERSION">>
check_header(wrong) ==
  LET errors == SelectSeq(HeaderFields, LAMBDA f : f \in wrong)
  IN IF errors = <<>> THEN "NONE" ELSE Head(errors)

\* get_program_header() returns nullptr for a header that is larger in the file than in memory.
has_program_header(s) == s.mem_size >= s.file_size

\* operator&(uint32_t, ProgramFlag) computes the bitwise or.
flag_and(flags, flag) == flags \cup {flag}

load_div_round_up(a, b) == (a + b - 1) \div b

\* The pages of a segment; va_start is its first address rounded down to a page.
va_start(s) == (s.virtual_addr \div LOAD_PAGE) * LOAD_PAGE
segment_pages(s) == load_div_round_up(s.virtual_addr - va_start(s) + s.mem_size, LOAD_PAGE)
SegmentPages(s) == s.virtual_addr \div LOAD_PAGE .. s.virtual_addr \div LOAD_PAGE + segment_pages(s) - 1
-----------------------------------------------------------------------------
\* A new chunk, whose bytes are numbered from 0: its pages are zeroed, unless there were not enough.
Chunk(n, okay) == [o \in 0 .. n * LOAD_PAGE - 1 |-> IF okay THEN Zero ELSE Junk]

\* MemoryChunk::write(): what does not fit is left out.
chunk_write(chunk, byte_offset, data) ==
  [o \in DOMAIN chunk |-> IF o - byte_offset + 1 \in DOMAIN data THEN data[o - byte_offset + 1] ELSE chunk[o]]

\* Mapping of a chunk of n pages of the program, with the attributes of get_properties().
map_at(page, n, chunk, rights) ==
  /\ memory' = [a \in Load_VA |-> IF a \div LOAD_PAGE \in page .. page + n - 1 THEN chunk[a - page * LOAD_PAGE]
                                  ELSE memory[a]]
  /\ access' = [p \in DOMAIN access |-> IF p \in page .. page + n - 1 THEN rights ELSE access[p]]

\* create_task(path): the file is opened, read as a whole into a buffer and its header checked. Each
\* of these may fail.
ReadImage ==
  /\ stage = "open"
  /\ \E read \in BOOLEAN : stage' = IF read /\ check_header(image.wrong) = "NONE" THEN "loading" ELSE "refused"
  /\ UNCHANGED <<image, argv, segment, starved, memory, access>>

AtSegment == stage = "loading" /\ segment <= Len(image.segments)

RefuseSegment ==
  /\ AtSegment /\ ~has_program_header(image.segments[segment])
  /\ stage' = "refused"
  /\ UNCHANGED <<image, argv, segment, starved, memory, access>>

SkipSegment ==
  /\ AtSegment /\ has_program_header(image.segments[segment]) /\ ~image.segments[segment].load
  /\ segment' = segment + 1
  /\ UNCHANGED <<image, argv, stage, starved, memory, access>>

\* Mutant of file_bytes: the data is read from its address on.
file_bytes_at_address(s) ==
  [k \in 1 .. s.file_size |->
     IF s.virtual_addr + k <= Len(image.file) THEN Char(image.file[s.virtual_addr + k]) ELSE Junk]

\* What stands in the buffer where the header says the segment's data is: behind the end of the file,
\* whatever the kernel's heap holds.
file_bytes(s) ==
  [k \in 1 .. s.file_size |-> IF s.offset + k <= Len(image.file) THEN Char(image.file[s.offset + k]) ELSE Junk]

\* The body of the loop: the chunk, its mapping, and the copy of the data, which is asserted to have
\* copied everything. A chunk without memory is mapped all the same.
LoadSegment ==
  /\ AtSegment /\ has_program_header(image.segments[segment]) /\ image.segments[segment].load
  /\ LET s == image.segments[segment]
         is_executable == flag_and(s.flags, "EXECUTABLE") # {}
         is_writable == flag_and(s.flags, "WRITABLE") # {}
         rights == {r \in {"read", "write", "execute"} :
                      (r = "write" => is_writable) /\ (r = "execute" => is_executable)}
     IN \E okay \in IF segment_pages(s) = 0 THEN {TRUE} ELSE BOOLEAN :
          /\ map_at(s.virtual_addr \div LOAD_PAGE, segment_pages(s),
                    chunk_write(Chunk(segment_pages(s), okay), s.virtual_addr - va_start(s),
                          IF okay THEN file_bytes(s) ELSE <<>>), rights)
          /\ stage' = IF ~okay /\ s.file_size > 0 THEN "panic" ELSE stage
          /\ starved' = IF okay THEN starved ELSE starved \cup {segment}
  /\ segment' = segment + 1
  /\ UNCHANGED <<image, argv>>

\* map_chunk() fails where a translation table is needed and there is no page for it: of a segment,
\* or of the arguments.
MapFails ==
  /\ \/ AtSegment /\ has_program_header(image.segments[segment]) /\ image.segments[segment].load
     \/ stage = "created"
  /\ stage' = "refused"
  /\ UNCHANGED <<image, argv, segment, starved, memory, access>>

\* After the loop the task has its entry point.
EndOfSegments ==
  /\ stage = "loading" /\ segment > Len(image.segments)
  /\ stage' = "created"
  /\ UNCHANGED <<image, argv, segment, starved, memory, access>>
-----------------------------------------------------------------------------
String(s) == [k \in 1 .. Len(s) + 1 |-> IF k <= Len(s) THEN Char(s[k]) ELSE Zero]

\* Mutant of argv_data_start: the word of argc is forgotten.
argv_data_start_short(argc) == argc + WORD_BYTES * argc

argv_data_start(argc) == argc + WORD_BYTES * (argc + 1)

\* argv_data_offset when the string of argument i is written.
argv_data_offset(i) ==
  LET offset[k \in 0 .. Len(argv)] ==
        IF k = 0 THEN argv_data_start(Len(argv)) ELSE offset[k - 1] + Len(argv[k]) + 1
  IN offset[i - 1]

\* The page of the arguments: argc, then for each argument its string and the pointer to it.
ArgsChunk(okay) ==
  LET page[i \in 0 .. Len(argv)] ==
        IF i = 0 THEN chunk_write(Chunk(1, okay), 0, Word(Len(argv)))
        ELSE chunk_write(chunk_write(page[i - 1], argv_data_offset(i), String(argv[i])),
                   WORD_BYTES * i, Word(ARGS_PAGE * LOAD_PAGE + argv_data_offset(i)))
  IN IF okay THEN page[Len(argv)] ELSE Chunk(1, okay)

\* SYS_SPAWN after create_task(): the arguments are written into a read-only page, or nowhere if there
\* is none, and the task is woken.
WriteArguments ==
  /\ stage = "created"
  /\ \E okay \in BOOLEAN :
       /\ map_at(ARGS_PAGE, 1, ArgsChunk(okay), {"read"})
       /\ stage' = IF okay THEN "running" ELSE "running without arguments"
  /\ UNCHANGED <<image, argv, segment, starved>>

LoadNext == \/ ReadImage \/ RefuseSegment \/ SkipSegment \/ LoadSegment \/ MapFails \/ EndOfSegments
            \/ WriteArguments

LoadSpec == LoadInit /\ [][LoadNext]_loadVars
-----------------------------------------------------------------------------
Loaded == stage \in {"running", "running without arguments"}

\* The program finds the bytes of its file, and zeros behind them, in every segment that has got its
\* memory, that lies inside the file, and that shares no page with a later one or with the arguments
\* (task_manager.cpp create_task(), memory_chunk.cpp write()).
ImageIsLoaded ==
  Loaded => \A i \in DOMAIN image.segments \ starved :
    LET s == image.segments[i] IN
      /\ s.load /\ s.offset + s.file_size <= Len(image.file)
      /\ ARGS_PAGE \notin SegmentPages(s)
      /\ \A j \in i + 1 .. Len(image.segments) :
           image.segments[j].load => SegmentPages(image.segments[j]) \cap SegmentPages(s) = {}
      => \A k \in 0 .. s.mem_size - 1 :
           memory[s.virtual_addr + k] = IF k < s.file_size THEN Char(image.file[s.offset + k + 1]) ELSE Zero

\* sys_get_argc(), sys_get_argv(): the program reads the number of its arguments, and every argument
\* whose string, with what comes before it, fits into the page; the others are cut without an error.
ArgumentsArrive ==
  stage = "running" =>
    LET SYS_ARGS_ADDRESS == ARGS_PAGE * LOAD_PAGE
        InMemory(a, bytes) == \A k \in DOMAIN bytes : a + k - 1 \in Load_VA /\ memory[a + k - 1] = bytes[k]
        Needed[i \in 0 .. Len(argv)] ==
          IF i = 0 THEN Len(argv) + WORD_BYTES * (Len(argv) + 1) ELSE Needed[i - 1] + Len(argv[i]) + 1
    IN /\ InMemory(SYS_ARGS_ADDRESS, Word(Len(argv)))
       /\ \A i \in DOMAIN argv : Needed[i] <= LOAD_PAGE =>
            \E a \in Load_VA : InMemory(SYS_ARGS_ADDRESS + WORD_BYTES * i, Word(a)) /\ InMemory(a, String(argv[i]))

\* "Check if this segment should have writable permission" (elf.hpp): a program may write to, and
\* execute, the pages of a segment only where its header says so.
SegmentAccess ==
  Loaded => \A i \in DOMAIN image.segments \ starved :
    LET s == image.segments[i] IN
      s.load /\ (\A j \in DOMAIN image.segments \ {i} : SegmentPages(image.segments[j]) \cap SegmentPages(s) = {}) =>
        \A p \in SegmentPages(s) : /\ "write" \in access[p] => "WRITABLE" \in s.flags
                              /\ "execute" \in access[p] => "EXECUTABLE" \in s.flags
=============================================================================
