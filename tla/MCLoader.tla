------------------------------ MODULE MCLoader ------------------------------
(***************************************************************************)
(* Program images and arguments for the loader: pages of eight bytes,      *)
(* words of two.                                                           *)
(***************************************************************************)
EXTENDS Loader, SequencesExt

MCSegment(load, address, offset, file_size, mem_size, flags) ==
  [load |-> load, virtual_addr |-> address, offset |-> offset, file_size |-> file_size, mem_size |-> mem_size,
   flags |-> flags]

\* Segments that start and end on and off the edges of pages, without data, without memory, larger in
\* the file than in memory, behind the end of the file, over the page of the arguments, and not to be
\* loaded.
MCSegments ==
  {MCSegment(TRUE, a, o, f, m, fl) :
     a \in {0, 6, 9}, o \in {3}, f \in {0, 3}, m \in {0, 3, 7}, fl \in {{"READABLE", "EXECUTABLE"}}}
  \cup {MCSegment(TRUE, 17, 1, 4, 5, {"READABLE", "WRITABLE"}), MCSegment(TRUE, 3, 4, 4, 4, {"READABLE"}),
        MCSegment(FALSE, 2, 0, 2, 3, {}), MCSegment(TRUE, 27, 2, 2, 4, {"READABLE"})}

MCFile == <<11, 12, 13, 14, 15, 16>>

MCImages ==
  {[wrong |-> {}, file |-> MCFile, segments |-> segs] : segs \in BoundedSeq(MCSegments, 2)}
  \cup {[wrong |-> {"MAG2", "VERSION"}, file |-> MCFile, segments |-> <<>>]}

\* No argument, an empty one, and arguments that fit, fill the page, and do not fit.
MCArgLists == {<<>>, <<<<>>>>, <<<<21>>, <<>>>>, <<<<21, 22>>>>, <<<<21>>, <<22, 23>>>>, <<<<>>, <<>>, <<>>>>}
=============================================================================
