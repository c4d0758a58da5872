----------------------------- MODULE MCServices -----------------------------
(***************************************************************************)
(* Services of the kernel that share no state, for model checking: the     *)
(* heap, physical memory and translation tables, pipes, the memory and the *)
(* loading of programs, the linked list, the painter, open files, the      *)
(* device tree and the addresses of devices. A call of one of them runs    *)
(* alone: a behaviour of the whole is a behaviour of each, so that each is *)
(* explored on its own, with the others at rest. The variable `service`    *)
(* says which one it is.                                                   *)
(***************************************************************************)
EXTENDS KernelHeap, MCPhysicalMemory, MCMMUTable,
        Pipe, ProcessMemory, LinkedList, Painter, OpenFiles, DeviceTree, SocRanges,
        MCLoader

VARIABLE service

Services == {"heap", "physical memory", "tables", "pipe", "programs", "list", "painter", "files",
             "device tree", "devices", "loader"}

\* Clippings inside the buffer, over its edge, and empty.
MCClips == {Box(1, 1, 2, 2), Box(-1, 0, 1, 4), Box(2, 2, 1, 1)}
MCCoord == -1 .. 4
MCExtent == {-1, 0, 1, 2, 4}
MCTexts == {<<"glyph">>, <<"glyph", "space", "glyph", "newline", "glyph">>,
            <<"space", "glyph", "glyph", "newline", "newline", "glyph">>}

MCFiles == [f |-> 2, g |-> 0]
MCDirs == [d |-> 1]

\* Names whose NUL fits into the last word, and whose NUL needs another one.
MCNameBytes == (0 :> 0) @@ (1 :> 3) @@ (2 :> 4)

MCProp(name, length, words) == [kind |-> "prop", name |-> name, length |-> length, data |-> words]
MCNode(name, items) == [kind |-> "node", name |-> name, items |-> items]

\* Properties without data, and with data that looks like tokens and like paths.
MCProps == {[kind |-> "nop"], MCProp(1, 0, <<>>), MCProp(1, 4, <<2>>), MCProp(2, 5, <<2, 1>>)}
MCLeaves == {MCNode(1, <<MCProp(1, 1, <<1>>)>>), MCNode(2, <<>>)}
MCInner == {MCNode(name, items) : name \in {1, 2}, items \in BoundedSeq(MCProps \cup MCLeaves, 2)}
MCTrees == {MCNode(0, items) : items \in BoundedSeq(MCProps \cup MCInner, 2)}
OneTree == MCNode(0, <<>>)

MCPaths == BoundedSeq({1, 2}, 2)

MCSection(address, size) == [address |-> address, size |-> size]
MCReserved == {<<>>, <<MCSection(0, 1)>>, <<MCSection(4, 0), MCSection(0, 2), MCSection(3, 3)>>}

MCRange(soc, arm, size) == [soc |-> soc, arm |-> arm, size |-> size]
MCSocMaps == {<<MCRange(4, 10, 4)>>, <<MCRange(4, 19, 2), MCRange(10, 2, 6), MCRange(8, 40, 2)>>,
              <<MCRange(12, 6, 4), MCRange(17, 20, 18)>>}

MCSmallCells == [soc |-> FALSE, arm |-> FALSE, size |-> FALSE]

MCBlobs == (MCTrees \X {<<>>}) \cup ({OneTree} \X MCReserved)

OneImage == [wrong |-> {}, file |-> <<>>, segments |-> <<>>]

ServicesInit ==
  /\ service \in Services
  /\ HeapInit /\ MemoryInit /\ MMUInit
  /\ PipeInit /\ ProcInit /\ ListInit /\ PaintInit /\ FileInit
  /\ service # "physical memory" => nodes = OneChunk /\ Len(todo) = 1
  /\ service # "pipe" => m_buffer = [i \in Index |-> 0]
  /\ IF service = "device tree" THEN DtInit
     ELSE /\ tree = OneTree /\ blob = <<>> /\ sections = <<>>
          /\ dt_query = [op |-> "none"] /\ dt_answer = <<>>
  /\ IF service = "devices" THEN RangesInit
     ELSE soc_map = <<>> /\ cells = MCSmallCells /\ conversion = [op |-> "none"]
  /\ IF service = "loader" THEN LoadInit
     ELSE /\ image = OneImage /\ argv = <<>> /\ stage = "open" /\ segment = 1 /\ starved = {}
          /\ memory = <<>> /\ access = <<>>

OnlyService(s) ==
  /\ service = s /\ UNCHANGED service
  /\ s # "heap" => UNCHANGED heapVars
  /\ s # "physical memory" => UNCHANGED memoryVars
  /\ s # "tables" => UNCHANGED mmuVars
  /\ s # "pipe" => UNCHANGED pipeVars
  /\ s # "programs" => UNCHANGED procVars
  /\ s # "list" => UNCHANGED nodeVars
  /\ s # "painter" => UNCHANGED paintVars
  /\ s # "files" => UNCHANGED fileVars
  /\ s # "device tree" => UNCHANGED dtVars
  /\ s # "devices" => UNCHANGED rangesVars
  /\ s # "loader" => UNCHANGED loadVars

ServicesNext ==
  \/ OnlyService("heap") /\ HeapNext
  \/ OnlyService("physical memory") /\ MemoryNext
  \/ OnlyService("tables") /\ MMUNext
  \/ OnlyService("pipe") /\ PipeNext
  \/ OnlyService("programs") /\ ProcNext
  \/ OnlyService("list") /\ ListNext
  \/ OnlyService("painter") /\ PaintNext
  \/ OnlyService("files") /\ FileNext
  \/ OnlyService("device tree") /\ DtNext
  \/ OnlyService("devices") /\ RangesNext
  \/ OnlyService("loader") /\ LoadNext

serviceVars == <<service, heapVars, memoryVars, mmuVars, pipeVars, procVars, nodeVars, paintVars,
                 fileVars, dtVars, rangesVars, loadVars>>

ServicesSpec == ServicesInit /\ [][ServicesNext]_serviceVars
=============================================================================
