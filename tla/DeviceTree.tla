----------------------------- MODULE DeviceTree -----------------------------
(***************************************************************************)
(* The reader of the device tree (lib/device-tree) and the look-ups of the *)
(* kernel (hardware/kernel_dt.cpp).                                        *)
(*                                                                         *)
(* The blob is a sequence of 32-bit words. A name is a number, its first   *)
(* word in the blob; numbers and names may look like tokens, and only the  *)
(* sizes tell them apart. A path is the sequence of its names. The blob    *)
(* comes from the firmware: flatten() is external. A look-up changes       *)
(* nothing, its loops are recursive operators.                             *)
(***************************************************************************)
EXTENDS Integers, Sequences, SequencesExt

CONSTANTS DtName,       \* the names of nodes and properties; 0 is the empty name of the root
          name_bytes,   \* the length of a name, without the NUL
          DtBlobs,      \* what blobs describe: pairs of a tree of records [kind, name, items] and the
                        \* reserved sections
          DtPaths       \* the paths that are asked for

VARIABLES tree,         \* what the blob describes (observes)
          sections,     \* the sections it reserves (observes)
          blob,         \* the structure block, as words
          dt_query,     \* the last look-up
          dt_answer

dtVars == <<tree, sections, blob, dt_query, dt_answer>>

DTB_BEGIN_NODE == 1
DTB_END_NODE == 2
DTB_PROP == 3
DTB_NOP == 4
max_val == -1     \* behind the last one
PANIC == -2       \* libk::panic()

\* Mutant of dt_align_to_next: what is aligned already is moved on.
dt_align_to_next_more(n) == ((n + 4) \div 4) * 4

dt_align_to_next(n) == ((n + 3) \div 4) * 4

\* The flattened tree: a name ends with a NUL, names and data are padded to words.
NameWords(name) == <<name>> \o [i \in 1 .. name_bytes[name] \div 4 |-> 0]
RECURSIVE flatten(_)
flatten(item) ==
  CASE item.kind = "nop" -> <<DTB_NOP>>
    [] item.kind = "prop" -> <<DTB_PROP, item.length, item.name>> \o item.data
    [] item.kind = "node" -> <<DTB_BEGIN_NODE>> \o NameWords(item.name)
                               \o FlattenSeq([i \in DOMAIN item.items |-> flatten(item.items[i])])
                               \o <<DTB_END_NODE>>
-----------------------------------------------------------------------------
\* from_be(read32()) at a byte offset.
get_uint32(off) == IF off \div 4 + 1 \in DOMAIN blob THEN blob[off \div 4 + 1] ELSE 0

\* Where the items of the node at off begin: behind the token and the name.
node_begin(off) == dt_align_to_next(off + 4 + name_bytes[get_uint32(off + 4)] + 1)

skip_property(off) == dt_align_to_next(off + 12 + get_uint32(off + 4))

\* The loop of skip_node().
RECURSIVE skip_items(_)
skip_items(off) ==
  IF off = PANIC THEN PANIC
  ELSE CASE get_uint32(off) = DTB_BEGIN_NODE -> skip_items(skip_items(node_begin(off)))
         [] get_uint32(off) = DTB_NOP -> skip_items(off + 4)
         [] get_uint32(off) = DTB_PROP -> skip_items(skip_property(off))
         [] get_uint32(off) = DTB_END_NODE -> off + 4
         [] OTHER -> PANIC

skip_node(off) == skip_items(node_begin(off))

\* find_next_property(), find_next_node(): max_val at the end of the node.
RECURSIVE find_next_property(_)
find_next_property(off) ==
  IF off = PANIC THEN PANIC
  ELSE CASE get_uint32(off) = DTB_BEGIN_NODE -> find_next_property(skip_node(off))
         [] get_uint32(off) = DTB_PROP -> off
         [] get_uint32(off) = DTB_NOP -> find_next_property(off + 4)
         [] get_uint32(off) = DTB_END_NODE -> max_val
         [] OTHER -> PANIC

RECURSIVE find_next_node(_)
find_next_node(off) ==
  IF off = PANIC THEN PANIC
  ELSE CASE get_uint32(off) = DTB_BEGIN_NODE -> off
         [] get_uint32(off) = DTB_PROP -> find_next_node(skip_property(off))
         [] get_uint32(off) = DTB_NOP -> find_next_node(off + 4)
         [] get_uint32(off) = DTB_END_NODE -> max_val
         [] OTHER -> PANIC

\* The iterators over the properties and the children, from the position begin on, as the sequence
\* of the offsets they stop at.
RECURSIVE get_properties(_)
get_properties(begin) ==
  LET off == find_next_property(begin)
  IN IF off = max_val THEN <<>> ELSE IF off = PANIC THEN <<PANIC>>
     ELSE <<off>> \o get_properties(skip_property(off))

RECURSIVE get_children(_)
get_children(begin) ==
  LET off == find_next_node(begin)
  IN IF off = max_val THEN <<>> ELSE IF off = PANIC THEN <<PANIC>>
     ELSE <<off>> \o get_children(skip_node(off))

\* Property at an offset: its name, its length and its data.
property_at(off) ==
  [name |-> get_uint32(off + 8), length |-> get_uint32(off + 4),
   data |-> [i \in 1 .. dt_align_to_next(get_uint32(off + 4)) \div 4 |-> get_uint32(off + 8 + 4 * i)]]

\* find_child() and find_property(): the first of that name, or max_val. Both loops end in front of a panic.
first_or_end(offs, Is(_)) ==
  IF \E i \in DOMAIN offs : Is(offs[i]) \/ offs[i] = PANIC
  THEN offs[CHOOSE i \in DOMAIN offs : /\ Is(offs[i]) \/ offs[i] = PANIC
                                       /\ \A j \in 1 .. i - 1 : ~Is(offs[j]) /\ offs[j] # PANIC]
  ELSE max_val

find_child(off, name) == first_or_end(get_children(node_begin(off)), LAMBDA o : get_uint32(o + 4) = name)
find_prop(off, name) == first_or_end(get_properties(node_begin(off)), LAMBDA o : get_uint32(o + 8) = name)

\* DeviceTree::find_node(), from the root on, and find_property() with its last name cut off.
find_node(path) ==
  FoldLeft(LAMBDA off, name : IF off < 0 THEN off ELSE find_child(off, name), 0, path)

find_property(path) ==
  LET off == find_node(Front(path)) IN IF off < 0 THEN off ELSE find_prop(off, Last(path))

\* get_device_node(): the path is in a property of the node "aliases" or, failing that, of
\* "__symbols__"; here the names 1 and 2.
get_device_node_from(device, resolver) ==
  LET off == find_prop(resolver, device)
      path == property_at(off).data
  IN IF off < 0 \/ path = <<>> THEN max_val ELSE find_node(path)

get_device_node(device) ==
  LET aliased == get_device_node_from(device, find_node(<<1>>))
  IN IF aliased # max_val THEN aliased ELSE get_device_node_from(device, find_node(<<2>>))
-----------------------------------------------------------------------------
\* The memory reservation block, pairs that end with zeros, and the structure block behind it.
ReservedWords == sections \o <<[address |-> 0, size |-> 0]>>

\* MemorySectionIterator: it looks at the pair behind the current one, and not at the first.
RECURSIVE reserved_from(_)
reserved_from(i) ==
  IF i + 1 \notin DOMAIN ReservedWords THEN <<[address |-> PANIC, size |-> PANIC]>>
  ELSE IF ReservedWords[i + 1] = [address |-> 0, size |-> 0] THEN <<ReservedWords[i]>>
  ELSE <<ReservedWords[i]>> \o reserved_from(i + 1)
-----------------------------------------------------------------------------
DtInit ==
  /\ \E b \in DtBlobs : tree = b[1] /\ sections = b[2]
  /\ blob = flatten(tree)
  /\ dt_query = [op |-> "none"] /\ dt_answer = <<>>

Ask(query, found) ==
  /\ dt_query.op = "none"
  /\ dt_query' = query /\ dt_answer' = <<query.op, found>>
  /\ UNCHANGED <<tree, sections, blob>>

\* All that can be read of the node at an offset: its name, its properties, its children's names.
NodeAt(off) ==
  IF off < 0 THEN <<off>>
  ELSE LET props == get_properties(node_begin(off))
           children == get_children(node_begin(off))
       IN <<get_uint32(off + 4), [i \in DOMAIN props |-> property_at(props[i])],
            [i \in DOMAIN children |-> get_uint32(children[i] + 4)]>>

Fields(off, p) == IF off < 0 THEN <<off>> ELSE <<p.name, p.length, p.data>>

FindNode(path) == Ask([op |-> "node", path |-> path], NodeAt(find_node(path)))

FindProperty(path) ==
  LET off == find_property(path)
  IN Ask([op |-> "property", path |-> path], Fields(off, property_at(off)))

GetDeviceNode(device) ==
  /\ find_node(<<1>>) >= 0 /\ find_node(<<2>>) >= 0   \* or KernelDT::init() has failed
  /\ Ask([op |-> "device", name |-> device], NodeAt(get_device_node(device)))

GetReserved == Ask([op |-> "reserved"], reserved_from(1))

DtNext ==
  \/ \E path \in DtPaths : FindNode(path)
  \/ \E path \in DtPaths \ {<<>>} : FindProperty(path)
  \/ \E device \in DtName \ {0} : GetDeviceNode(device)
  \/ GetReserved
-----------------------------------------------------------------------------
\* The look-ups on the tree itself.
Kids(n) == SelectSeq(n.items, LAMBDA item : item.kind = "node")
Props(n) == LET p == SelectSeq(n.items, LAMBDA item : item.kind = "prop")
            IN [i \in DOMAIN p |-> [name |-> p[i].name, length |-> p[i].length, data |-> p[i].data]]
Absent == [kind |-> "absent"]
FirstNamed(s, name) ==
  LET named == SelectSeq(s, LAMBDA item : item.name = name) IN IF named = <<>> THEN Absent ELSE named[1]
At(path) == FoldLeft(LAMBDA n, name : IF n = Absent THEN n ELSE FirstNamed(Kids(n), name), tree, path)
Describe(n) ==
  IF n = Absent THEN <<max_val>> ELSE <<n.name, Props(n), [i \in DOMAIN Kids(n) |-> Kids(n)[i].name]>>
PropertyIn(path, name) == IF At(path) = Absent THEN Absent ELSE FirstNamed(Props(At(path)), name)
AliasIn(path, device) ==
  LET p == PropertyIn(path, device) IN IF p = Absent THEN Absent ELSE IF p.data = <<>> THEN Absent ELSE At(p.data)

\* Every look-up finds the node or the property that the tree has at that path, the first one of its
\* name, with its own name, data and children, or says that there is none: it never takes data
\* or a name for a token, or a child's property for the node's own, and never panics on a
\* well-formed blob (node.cpp find_next_property(), find_next_node(); parser.cpp skip_node()). A
\* list of reserved sections that is not empty is read to its end.
FindsWhatIsThere ==
  LET q == dt_query
  IN /\ q.op = "node" => dt_answer[2] = Describe(At(q.path))
     /\ q.op = "property" =>
          LET p == PropertyIn(Front(q.path), Last(q.path)) IN dt_answer[2] = IF p = Absent THEN <<max_val>> ELSE Fields(0, p)
     /\ q.op = "device" =>
          dt_answer[2] = Describe(IF AliasIn(<<1>>, q.name) # Absent THEN AliasIn(<<1>>, q.name) ELSE AliasIn(<<2>>, q.name))
     /\ q.op = "reserved" /\ sections # <<>> => dt_answer[2] = sections

=============================================================================
