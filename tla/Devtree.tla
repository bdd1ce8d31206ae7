------------------------------ MODULE Devtree ------------------------------
(***************************************************************************)
(* The device tree of the loader, the HAL and the drivers: the packed tree *)
(* of libk/devtree/devtree.c, built from a flattened tree                  *)
(* (loader/firmware/fdt.c) or by walking the tree of an Open Firmware      *)
(* (loader/firmware/ofw.c, obp.c), and what libk/devtree/node.c and prop.c *)
(* look up in it.                                                          *)
(*                                                                         *)
(* A string is a tuple of pieces, "@" and "/" being pieces of their own,   *)
(* and takes a cell per piece and one for its terminator.  A property's    *)
(* data is a tuple of 32-bit cells, whose values are below Cell, or the    *)
(* tuple of its strings.  A pointer to a node or a property is its number, *)
(* 0 for NULL.                                                             *)
(***************************************************************************)
EXTENDS Integers, Sequences, SequencesExt, FiniteSets, FiniteSetsExt

CONSTANTS
  Cell,        \* a u32 is below Cell, a u64 below Cell * Cell
  Boards,      \* descriptions a firmware may hand over [toks, rsv, unnamed]
  Paths,       \* paths devtree_walk is asked for
  Head0,       \* sizeof(struct devtree_head)
  NodeSize,    \* sizeof(struct devtree_node) and of devtree_prop
  Word,        \* sizeof(ulong)
  BufSizes     \* DEVTREE_BUF_SIZE

VARIABLES
  fw,     \* the firmware [kind, board, size]
  tree,   \* the devtree under construction
  at      \* the builder's cursor [phase, pos, cur, frames, rsv]

devtreeVars == <<fw, tree, at>>

Nul == "nul"
Panic == -1

AlignDown(n, w) == (n \div w) * w
AlignUp(n, w) == AlignDown(n + w - 1, w)
Nuls(n) == [i \in 1..n |-> Nul]

-----------------------------------------------------------------------------
\* The buffer: strings grow up from the head, structs down from the end.

create_libk_devtree(size) ==
  [bad |-> "", area |-> <<>>, soff |-> Head0, ssize |-> 0, toff |-> size,
   remain |-> size - Head0, str |-> 0, nodes |-> <<>>, props |-> <<>>, root |-> 0]

alloc_struct(t, size) ==
  IF t.remain < size THEN [t EXCEPT !.bad = "overflow"]
  ELSE LET off == AlignDown(t.toff - size, Word) IN
       [t EXCEPT !.toff = off, !.remain = @ - (t.toff - off),
                 !.bad = IF off < t.soff THEN "overlap" ELSE @]

\* memstr compares the string without its terminator.
memstr(area, s, size) ==
  IF s = <<>> THEN {}
  ELSE {i \in 0..(size - Len(s)) : SubSeq(area, i + 1, i + Len(s)) = s}

\* Leaves the string's place in str.  The padding is part of the new string's
\* size and of the offset it starts from.
alloc_and_copy_str(t, s) ==
  LET hits == memstr(t.area, s, t.ssize)
      off  == AlignUp(t.soff, Word)
      size == Len(s) + 1 + (off - t.soff)
  IN IF t.bad # "" THEN t
     ELSE IF hits # {} THEN [t EXCEPT !.str = Min(hits)]
     ELSE IF t.remain < Len(s) + 1 THEN [t EXCEPT !.bad = "overflow"]
     ELSE [t EXCEPT !.str = off - Head0,
                    !.area = @ \o Nuls(off - t.soff) \o s \o Nuls(size - Len(s)),
                    !.soff = off + size, !.ssize = @ + size, !.remain = @ - size,
                    !.bad = IF off + Len(s) + 1 > t.toff THEN "overlap" ELSE @]

\* The string at a place of the string area.
StrAt(t, off) ==
  SubSeq(t.area, off + 1, Min({i \in (off + 1)..Len(t.area) : t.area[i] = Nul}) - 1)

\* A node becomes the first child of its parent; u is the tree with its name.
link_node(u, parent) ==
  LET n == Len(u.nodes) + 1
      node == [name |-> u.str, prop |-> 0, child |-> 0, parent |-> parent,
               next |-> IF parent = 0 THEN 0 ELSE u.nodes[parent].child]
  IN IF u.bad # "" THEN u
     ELSE IF parent = 0
     THEN [u EXCEPT !.nodes = Append(@, node), !.root = n]
     ELSE [u EXCEPT !.nodes = Append([@ EXCEPT ![parent].child = n], node)]

devtree_alloc_node(t, parent, name) ==
  link_node(alloc_and_copy_str(alloc_struct(t, NodeSize),
                               IF parent = 0 THEN <<"root">> ELSE name), parent)

\* A property becomes the first of its node.
link_prop(w, node, data) ==
  IF w.bad # "" THEN w
  ELSE [w EXCEPT !.props = Append(@, [name |-> w.str, data |-> data, parent |-> node,
                                      next |-> w.nodes[node].prop]),
                 !.nodes[node].prop = Len(w.props) + 1]

set_data(u, node, data) ==
  link_prop(IF data = <<>> \/ u.bad # "" THEN u ELSE alloc_struct(u, Len(data)), node, data)

devtree_alloc_prop(t, node, name, data) ==
  set_data(alloc_and_copy_str(alloc_struct(t, NodeSize), name), node, data)

devtree_get_root(t) == t.root
devtree_get_child_node(t, n) == IF n = 0 THEN t.root ELSE t.nodes[n].child
devtree_get_next_node(t, n) == IF n = 0 THEN t.root ELSE t.nodes[n].next
devtree_get_parent_node(t, n) == t.nodes[n].parent
devtree_get_prop(t, n) == t.nodes[n].prop
devtree_get_next_prop(t, p) == t.props[p].next
devtree_get_node_name(t, n) == StrAt(t, t.nodes[n].name)
devtree_get_prop_name(t, p) == StrAt(t, t.props[p].name)

\* The nodes of a list, and the properties of one.
RECURSIVE NodesFrom(_, _)
NodesFrom(t, n) == IF n = 0 THEN <<>> ELSE <<n>> \o NodesFrom(t, devtree_get_next_node(t, n))

RECURSIVE PropsFrom(_, _)
PropsFrom(t, p) == IF p = 0 THEN <<>> ELSE <<p>> \o PropsFrom(t, devtree_get_next_prop(t, p))

Children(t, n) == NodesFrom(t, devtree_get_child_node(t, n))
Props(t, n) == PropsFrom(t, devtree_get_prop(t, n))

-----------------------------------------------------------------------------
\* libk/devtree/node.c

\* The first element of a list that passes, 0 for none.
Item(list, i) == IF i = 0 THEN 0 ELSE list[i]
FirstOf(list, Test(_)) == Item(list, SelectInSeq(list, Test))
OrElse(a, b) == IF a # 0 THEN a ELSE b

Has(s, piece) == \E i \in DOMAIN s : s[i] = piece
BeforeAt(s) == SubSeq(s, 1, SelectInSeq(s, LAMBDA p : p = "@") - 1)
Partly(s, name) == ~Has(name, "@") /\ Has(s, "@") /\ BeforeAt(s) = name

\* An exact match first, then one before the unit address.
find_among(t, kids, name) ==
  OrElse(FirstOf(kids, LAMBDA c : devtree_get_node_name(t, c) = name),
         FirstOf(kids, LAMBDA c : Partly(devtree_get_node_name(t, c), name)))

devtree_find_child_node(t, n, name) ==
  IF n = 0 THEN devtree_get_root(t) ELSE find_among(t, Children(t, n), name)

Alike(s, name) == s = name \/ Partly(s, name)
devtree_find_prop(t, n, name) ==
  IF n = 0 THEN 0
  ELSE FirstOf(Props(t, n), LAMBDA p : Alike(devtree_get_prop_name(t, p), name))

\* The path is taken an element at a time; sep is where the element ends.
RECURSIVE walk_from(_, _, _, _)
walk_on(t, path, sep, elem, next) ==
  IF next = 0 \/ sep = 0 THEN next
  ELSE walk_from(t, SubSeq(path, sep + 1, Len(path)), next, elem)
walk_elem(t, path, cur, sep, elem) ==
  IF sep > 1 /\ cur = 0 THEN 0
  ELSE walk_on(t, path, sep, elem, devtree_find_child_node(t, cur, elem))
walk_at(t, path, cur, name, sep) ==
  walk_elem(t, path, cur, sep,
            IF sep = 0 THEN path ELSE IF sep = 1 THEN name ELSE SubSeq(path, 1, sep - 1))
walk_from(t, path, cur, name) ==
  IF path = <<>> \/ path[1] = ":" THEN cur
  ELSE walk_at(t, path, cur, name, SelectInSeq(path, LAMBDA p : p \in {"/", ":"}))

devtree_walk(t, path) ==
  IF path = <<>> \/ path[1] # "/" THEN 0 ELSE walk_from(t, path, 0, <<>>)

RECURSIVE devtree_in_subtree(_, _, _)
devtree_in_subtree(t, parent, n) ==
  IF n = 0 \/ n = parent THEN n = parent /\ n # 0
  ELSE devtree_in_subtree(t, parent, devtree_get_parent_node(t, n))

-----------------------------------------------------------------------------
\* libk/devtree/prop.c

Data(t, n, name) == t.props[devtree_find_prop(t, n, name)].data
HasProp(t, n, name) == devtree_find_prop(t, n, name) # 0

\* A property of one cell, or another value when there is none.
CellOf(t, p, default) == IF p = 0 THEN default ELSE t.props[p].data[1]
One(t, n, name, default) == CellOf(t, devtree_find_prop(t, n, name), default)

devtree_get_phandle(t, n) == One(t, n, <<"phandle">>, -1)

RECURSIVE devtree_find_node_by_phandle(_, _, _)
devtree_find_node_by_phandle(t, n0, phandle) ==
  LET n == IF n0 = 0 THEN devtree_get_root(t) ELSE n0
      found == {c \in Range(Children(t, n)) : devtree_find_node_by_phandle(t, c, phandle) # 0}
      Finds(c) == c \in found
  IN IF phandle <= 0 THEN 0
     ELSE IF devtree_get_phandle(t, n) = phandle THEN n
     ELSE IF found = {} THEN 0
     ELSE devtree_find_node_by_phandle(t, FirstOf(Children(t, n), Finds), phandle)

AddrCells == <<"#address", "-cells">>
SizeCells == <<"#size", "-cells">>

devtree_get_reg_num_cells(t, n) ==
  LET p == devtree_get_parent_node(t, n) IN
  [addr |-> One(t, p, AddrCells, 1), size |-> One(t, p, SizeCells, 1)]

devtree_get_ranges_num_cells(t, n) ==
  LET p == devtree_get_parent_node(t, n) IN
  [child |-> One(t, n, AddrCells, 1), size |-> One(t, n, SizeCells, 1),
   parent |-> One(t, p, AddrCells, 1)]

parse_cell_num(data, pos, cells) ==
  CASE cells = 0 -> 0
    [] cells = 1 -> data[pos + 1]
    [] cells = 2 -> data[pos + 1] * Cell + data[pos + 2]
    [] OTHER -> Panic

\* The index after idx in a list of count pairs.
NextIdx(count, idx) == IF count - idx > 1 THEN idx + 1 ELSE 0

\* The caller takes the child's cell count where the callee puts the parent's.
ranges_in(cells, data, idx) ==
  LET num_parent_cells == cells.child
      num_child_cells  == cells.parent
      pair == num_parent_cells + num_child_cells + cells.size
      pos  == pair * idx
  IN IF pair > Len(data) \/ idx >= Len(data) \div pair THEN [next |-> -1]
     ELSE [next   |-> NextIdx(Len(data) \div pair, idx),
           child  |-> parse_cell_num(data, pos, num_child_cells),
           parent |-> parse_cell_num(data, pos + num_child_cells, num_parent_cells),
           size   |-> parse_cell_num(data, pos + num_child_cells + num_parent_cells, cells.size)]

get_ranges(t, n, idx) ==
  IF ~HasProp(t, n, <<"ranges">>) THEN [next |-> -1]
  ELSE ranges_in(devtree_get_ranges_num_cells(t, n), Data(t, n, <<"ranges">>), idx)

U64(n) == n % (Cell * Cell)

\* An address as the bus n sees it to one as the bus's parent sees it; r is
\* an entry of the ranges of n.
RECURSIVE translate_by(_, _, _, _)
translate_by(t, n, addr, r) ==
  IF r.next < 0 THEN addr
  ELSE IF addr >= r.child /\ addr < U64(r.child + r.size)
  THEN U64(r.parent + addr - r.child)
  ELSE IF r.next = 0 THEN addr
  ELSE translate_by(t, n, addr, get_ranges(t, n, r.next))

RECURSIVE devtree_translate_addr(_, _, _)
devtree_translate_addr(t, n, addr) ==
  LET p == devtree_get_parent_node(t, n) IN
  IF p = 0 THEN addr
  ELSE devtree_translate_addr(t, p, translate_by(t, p, addr, get_ranges(t, p, 0)))

addr_in(cells, data, idx) ==
  LET pair == cells.addr + cells.size IN
  IF pair = 0 \/ pair > Len(data) \/ idx >= Len(data) \div pair THEN [next |-> -1]
  ELSE [next |-> NextIdx(Len(data) \div pair, idx),
        addr |-> parse_cell_num(data, pair * idx, cells.addr),
        size |-> parse_cell_num(data, pair * idx + cells.addr, cells.size)]

devtree_get_addr(t, n, idx, name) ==
  IF ~HasProp(t, n, name) THEN [next |-> -1]
  ELSE addr_in(devtree_get_reg_num_cells(t, n), Data(t, n, name), idx)

devtree_get_translated_reg(t, n, idx) ==
  LET r == devtree_get_addr(t, n, idx, <<"reg">>) IN
  IF r.next < 0 THEN r ELSE [r EXCEPT !.addr = devtree_translate_addr(t, n, @)]

devtree_get_compatible(t, n, idx) ==
  LET data == Data(t, n, <<"compatible">>) IN
  IF ~HasProp(t, n, <<"compatible">>) \/ idx >= Len(data) THEN [next |-> -1]
  ELSE [next |-> NextIdx(Len(data), idx), name |-> data[idx + 1]]

devtree_get_clock_frequency(t, n) ==
  LET first == devtree_find_prop(t, n, <<"clock", "-frequency">>)
      p == IF first # 0 THEN first ELSE devtree_find_prop(t, n, <<"frequency">>)
  IN IF p = 0 THEN 0
     ELSE IF Len(t.props[p].data) \in {1, 2}
     THEN parse_cell_num(t.props[p].data, 0, Len(t.props[p].data))
     ELSE Panic

devtree_is_intc(t, n) == HasProp(t, n, <<"interrupt", "-controller">>)
devtree_get_num_int_cells(t, n) == One(t, n, <<"#interrupt", "-cells">>, -1)

\* The controller above, or the one an interrupt-parent names.
RECURSIVE int_parent_from(_, _, _)
int_parent_from(t, n, cur) ==
  IF cur = 0 THEN [phandle |-> -1, node |-> 0]
  ELSE IF devtree_is_intc(t, cur) /\ cur # n
  THEN [phandle |-> devtree_get_phandle(t, cur), node |-> cur]
  ELSE IF HasProp(t, cur, <<"interrupt", "-parent">>)
  THEN LET h == One(t, cur, <<"interrupt", "-parent">>, 0) IN
       [phandle |-> h, node |-> devtree_find_node_by_phandle(t, 0, h)]
  ELSE int_parent_from(t, n, devtree_get_parent_node(t, cur))

devtree_get_int_parent2(t, n) == int_parent_from(t, n, n)

Extended == <<"interrupts", "-extended">>

devtree_get_int_ext(t, n, pos) ==
  LET data == Data(t, n, Extended)
      node == devtree_find_node_by_phandle(t, 0, data[pos + 1])
      end  == pos + 1 + devtree_get_num_int_cells(t, node)
  IN IF ~HasProp(t, n, Extended) \/ pos >= Len(data) THEN [next |-> -1]
     ELSE IF node = 0 \/ end > Len(data) THEN [next |-> Panic, panic |-> TRUE]
     ELSE [next |-> IF end >= Len(data) THEN 0 ELSE end, phandle |-> data[pos + 1],
           node |-> node, encode |-> SubSeq(data, pos + 2, end)]

\* Without interrupts-extended there is one parent and all of interrupts.
devtree_get_int(t, n, pos) ==
  LET p == devtree_get_int_parent2(t, n)
      hasInts == HasProp(t, n, <<"interrupts">>)
  IN IF HasProp(t, n, Extended) THEN devtree_get_int_ext(t, n, pos)
     ELSE IF pos # 0 THEN [next |-> -1]
     ELSE [next |-> 0, phandle |-> p.phandle, node |-> p.node,
           encode |-> IF hasInts THEN Data(t, n, <<"interrupts">>) ELSE <<>>]

RECURSIVE devtree_get_use_ioport(_, _)
devtree_get_use_ioport(t, n) ==
  n # 0 /\ (\/ HasProp(t, n, <<"use", "-ioport">>)
            \/ devtree_get_use_ioport(t, devtree_get_parent_node(t, n)))

devtree_get_enabled(t, n) ==
  /\ ~HasProp(t, n, <<"disabled">>)
  /\ HasProp(t, n, <<"status">>) => Data(t, n, <<"status">>) # <<<<"disabled">>>>

-----------------------------------------------------------------------------
\* The description a firmware hands over: the tokens of a flattened tree.
\* The tree an Open Firmware holds is described by the same tokens, a node
\* being the token it begins with.

Toks == fw.board.toks
Begins == {k \in DOMAIN Toks : Toks[k].t = "begin"}
Ends == {k \in DOMAIN Toks : Toks[k].t = "end"}
PropToks == {k \in DOMAIN Toks : Toks[k].t = "prop"}

Before(S, k) == {j \in S : j < k}
Depth(k) == Cardinality(Before(Begins, k)) - Cardinality(Before(Ends, k))
Owner(k) == Max({0} \cup {j \in Before(Begins, k) : Depth(j) = Depth(k) - 1})

\* What the firmware's calls return, 0 for none.
peer(h) == LET S == {j \in Begins : j > h /\ Owner(j) = Owner(h)} IN
           IF S = {} THEN 0 ELSE Min(S)
child(h) == LET S == {j \in Begins : Owner(j) = h} IN IF S = {} THEN 0 ELSE Min(S)
next_props(h) == SetToSortSeq({k \in PropToks : Owner(k) = h}, <)
pkg_to_path_fails(h) == h \in fw.board.unnamed

-----------------------------------------------------------------------------
\* loader/firmware/fdt.c

Goes(phase) == at.bad = "" /\ tree.bad = "" /\ at.phase = phase

fix_endian ==
  /\ Goes("fix")
  /\ at' = [at EXCEPT !.phase = "create",
                      !.bad = IF \E k \in DOMAIN Toks : Toks[k].t = "bad"
                              THEN "bad token" ELSE @]
  /\ UNCHANGED <<fw, tree>>

create_begin ==
  /\ Goes("create") /\ Toks[at.pos].t = "begin"
  /\ tree' = devtree_alloc_node(tree, at.cur, Toks[at.pos].name)
  /\ at' = [at EXCEPT !.pos = @ + 1, !.cur = Len(tree'.nodes)]
  /\ UNCHANGED fw

create_end ==
  /\ Goes("create") /\ Toks[at.pos].t = "end"
  /\ at' = [at EXCEPT !.pos = @ + 1, !.cur = devtree_get_parent_node(tree, @)]
  /\ UNCHANGED <<fw, tree>>

create_prop ==
  /\ Goes("create") /\ Toks[at.pos].t = "prop"
  /\ tree' = devtree_alloc_prop(tree, at.cur, Toks[at.pos].name, Toks[at.pos].data)
  /\ at' = [at EXCEPT !.pos = @ + 1]
  /\ UNCHANGED fw

create_other ==
  /\ Goes("create") /\ Toks[at.pos].t \in {"nop", "fin"}
  /\ at' = [at EXCEPT !.pos = @ + 1,
                      !.phase = IF Toks[at.pos].t = "fin" THEN "memrsv" ELSE @]
  /\ UNCHANGED <<fw, tree>>

\* name is the three digits of a property's name.
RECURSIVE carry(_, _)
carry(name, d) ==
  IF name[d] <= 9 \/ d = 1 THEN name
  ELSE carry([name EXCEPT ![d] = 0, ![d - 1] = @ + 1], d - 1)

next_name(name) == carry([name EXCEPT ![Len(name)] = @ + 1], Len(name))

Digit == <<"0'", "1'", "2'", "3'", "4'", "5'", "6'", "7'", "8'", "9'">>
Spelt(name) == [d \in DOMAIN name |-> Digit[name[d] + 1]]

RECURSIVE memrsv_props(_, _, _, _)
memrsv_props(t, n, name, entries) ==
  IF entries = <<>> \/ t.bad # "" THEN t
  ELSE memrsv_props(devtree_alloc_prop(t, n, Spelt(name), Head(entries)), n,
                    next_name(name), Tail(entries))

create_memrsv_node ==
  /\ Goes("memrsv")
  /\ LET t == devtree_alloc_node(tree, tree.root, <<"memrsv", "-block">>) IN
     tree' = IF fw.board.rsv = <<>> THEN tree
             ELSE IF t.bad # "" THEN t
             ELSE memrsv_props(t, Len(t.nodes), <<0, 0, 1>>, fw.board.rsv)
  /\ at' = [at EXCEPT !.phase = "done"]
  /\ UNCHANGED fw

-----------------------------------------------------------------------------
\* copy_node of loader/firmware/ofw.c and obp.c: a frame of the recursion is
\* [h, parent, i], and a step one turn of its loop.

Top == Last(at.frames)
Rest == Front(at.frames)
ToPeer(frames) ==
  IF frames = <<>> THEN <<>>
  ELSE Append(Front(frames), [Last(frames) EXCEPT !.h = peer(@), !.i = @ + 1])

RECURSIVE copy_props(_, _, _)
copy_props(t, n, ks) ==
  IF ks = <<>> \/ t.bad # "" THEN t
  ELSE copy_props(devtree_alloc_prop(t, n, Toks[Head(ks)].name, Toks[Head(ks)].data), n, Tail(ks))

copy_node ==
  /\ Goes("copy") /\ at.frames # <<>> /\ Top.h # 0
  /\ IF Top.parent = 0 /\ Top.i > 0
     THEN at' = [at EXCEPT !.bad = "root peer"] /\ UNCHANGED tree
     ELSE IF pkg_to_path_fails(Top.h)
     THEN at' = [at EXCEPT !.frames = ToPeer(@)] /\ UNCHANGED tree
     ELSE LET t == devtree_alloc_node(tree, Top.parent, Toks[Top.h].name)
              n == Len(t.nodes)
          IN /\ tree' = IF t.bad # "" THEN t ELSE copy_props(t, n, next_props(Top.h))
             /\ at' = [at EXCEPT !.frames =
                         IF child(Top.h) = 0 THEN ToPeer(@)
                         ELSE Append(@, [h |-> child(Top.h), parent |-> n, i |-> 0])]
  /\ UNCHANGED fw

copy_return ==
  /\ Goes("copy") /\ (at.frames # <<>> => Top.h = 0)
  /\ at' = IF at.frames = <<>> THEN [at EXCEPT !.phase = "done"]
           ELSE [at EXCEPT !.frames = ToPeer(Rest)]
  /\ UNCHANGED <<fw, tree>>

-----------------------------------------------------------------------------

DevtreeInit ==
  /\ fw \in [kind : {"fdt", "ofw", "obp"}, board : Boards, size : BufSizes]
  /\ fw.kind # "fdt" => \A k \in DOMAIN Toks : Toks[k].t # "bad"
  /\ tree = create_libk_devtree(fw.size)
  /\ at = [phase |-> IF fw.kind = "fdt" THEN "fix" ELSE "copy", bad |-> "", pos |-> 1, cur |-> 0,
           frames |-> IF fw.kind = "fdt" THEN <<>>
                      ELSE <<[h |-> IF fw.kind = "ofw" THEN 1 ELSE child(1),
                              parent |-> 0, i |-> 0]>>]

Stopped == (at.phase = "done" \/ at.bad # "" \/ tree.bad # "") /\ UNCHANGED devtreeVars

DevtreeNext ==
  \/ fix_endian
  \/ create_begin
  \/ create_end
  \/ create_prop
  \/ create_other
  \/ create_memrsv_node
  \/ copy_node
  \/ copy_return
  \/ Stopped

DevtreeSpec == DevtreeInit /\ [][DevtreeNext]_devtreeVars

-----------------------------------------------------------------------------
\* What the description says, token by token: own is the owner of each token
\* and kept the nodes the tree shall have.

RECURSIVE AncestorsIn(_, _)
AncestorsIn(own, j) == IF j = 0 THEN {} ELSE {j} \cup AncestorsIn(own, own[j])

Described(own) ==
  [own |-> own,
   kept |-> {j \in Begins : /\ fw.kind # "fdt" => AncestorsIn(own, j) \cap fw.board.unnamed = {}
                            /\ fw.kind = "obp" => j # 1}]
Description == Described([k \in DOMAIN Toks |-> Owner(k)])

Ancestors(d, j) == AncestorsIn(d.own, j)
NodeOf(d, j) == Cardinality({i \in d.kept : i <= j})
KeptOwner(d, j) == IF d.own[j] \in d.kept THEN d.own[j] ELSE 0
Kids(d, j) == {c \in d.kept : d.own[c] = j}
OwnProps(d, j) == {k \in PropToks : d.own[k] = j}
Latest(S) == IF S = {} THEN 0 ELSE Max(S)
Reversed(S) == Reverse(SetToSortSeq(S, <))

\* No name is found inside one that comes before it, but at its end.
Inside(s, u) == \E i \in 1..(Len(u) - Len(s)) : SubSeq(u, i, i + Len(s) - 1) = s
NoneInside ==
  \A k \in Begins \cup PropToks : \A j \in Before(Begins \cup PropToks, k) :
    Toks[k].name # <<>> => ~Inside(Toks[k].name, Toks[j].name)

Tok(d, j, name) == Latest({k \in OwnProps(d, j) : Alike(Toks[k].name, name)})
DataOf(k) == IF k = 0 THEN <<>> ELSE Toks[k].data
Value(d, j, name) == DataOf(Tok(d, j, name))
CellsOf(data) == IF data = <<>> THEN 1 ELSE data[1]
Cells(d, j, name) == IF j \notin d.kept THEN 1 ELSE CellsOf(Value(d, j, name))

RECURSIVE Num(_)
Num(cells) == IF cells = <<>> THEN 0 ELSE Num(Front(cells)) * Cell + Last(cells)

\* The entries of a property whose fields take these numbers of cells.
Width(widths) == FoldLeft(+, 0, widths)
Entries(data, widths, w) ==
  LET Start(i, f) == w * (i - 1) + Width(SubSeq(widths, 1, f - 1))
  IN [i \in 1..(Len(data) \div w) |->
        [f \in DOMAIN widths |-> Num(SubSeq(data, Start(i, f) + 1, Start(i, f) + widths[f]))]]
EntriesOf(data, widths) == Entries(data, widths, Width(widths))

RangesOf(d, b) ==
  EntriesOf(Value(d, b, <<"ranges">>),
            <<Cells(d, b, AddrCells), Cells(d, KeptOwner(d, b), AddrCells), Cells(d, b, SizeCells)>>)
RegsAt(d, j, bus) ==
  EntriesOf(Value(d, j, <<"reg">>), <<Cells(d, bus, AddrCells), Cells(d, bus, SizeCells)>>)
RegsOf(d, j) == RegsAt(d, j, KeptOwner(d, j))

\* The address the processor sees for an address on bus b.
Through(addr, rs, hit) == IF hit = {} THEN addr ELSE addr - rs[Min(hit)][1] + rs[Min(hit)][2]
Across(addr, rs) ==
  Through(addr, rs, {i \in DOMAIN rs : rs[i][1] <= addr /\ addr < rs[i][1] + rs[i][3]})
RECURSIVE Up(_, _, _)
Up(d, b, addr) ==
  IF b = 0 THEN addr ELSE Up(d, KeptOwner(d, b), Across(addr, RangesOf(d, b)))

\* A bus whose addresses are as wide as its parent's, or that has no ranges.
SameWidth(d, b) ==
  \/ Value(d, b, <<"ranges">>) = <<>>
  \/ Cells(d, b, AddrCells) = Cells(d, KeptOwner(d, b), AddrCells)

RefChild(d, j, name) ==
  LET Best(S) == OrElse(Latest({c \in S : Toks[c].name = name}),
                        Latest({c \in S : Partly(Toks[c].name, name)}))
  IN Best(Kids(d, j))

RECURSIVE PathOf(_, _)
PathOf(d, j) ==
  IF KeptOwner(d, j) = 0 THEN <<>> ELSE PathOf(d, d.own[j]) \o <<"/">> \o Toks[j].name

IsController(d, j) == Tok(d, j, <<"interrupt", "-controller">>) # 0
IntParent(d, j) ==
  Latest({a \in Ancestors(d, j) \cap d.kept :
            \/ a # j /\ IsController(d, a)
            \/ Tok(d, a, <<"interrupt", "-parent">>) # 0})
\* a is the node that IntParent finds.
IntParentNode(d, j, a) ==
  IF a # j /\ IsController(d, a) THEN a
  ELSE Latest({c \in d.kept : Value(d, c, <<"phandle">>) = Value(d, a, <<"interrupt", "-parent">>)})

\* The interrupts of a node as devtree_get_int steps through them; r is the
\* first of them.
RECURSIVE IntsFrom(_, _)
IntsFrom(n, r) ==
  IF r.next < 0 THEN <<>>
  ELSE <<r>> \o (IF r.next = 0 THEN <<>> ELSE IntsFrom(n, devtree_get_int(tree, n, r.next)))

-----------------------------------------------------------------------------

\* The tree has the nodes and properties of the description, the last one
\* first, whichever firmware it comes from; what is in a string is found at
\* its place.
PropsFaithful(ps, ks) ==
  /\ Len(ps) = Len(ks)
  /\ \A i \in DOMAIN ps :
       /\ tree.props[ps[i]].data = Toks[ks[i]].data
       /\ NoneInside => devtree_get_prop_name(tree, ps[i]) = Toks[ks[i]].name

NodeFaithful(d, j, n, name) ==
  /\ devtree_get_parent_node(tree, n) = IF KeptOwner(d, j) = 0 THEN 0 ELSE NodeOf(d, d.own[j])
  /\ KeptOwner(d, j) # 0 => /\ IsPrefix(Toks[j].name, name)
                            /\ NoneInside => name = Toks[j].name
  /\ LET Mapped(kids) == [i \in DOMAIN kids |-> NodeOf(d, kids[i])]
     IN SelectSeq(Children(tree, n), LAMBDA c : c <= Cardinality(d.kept))
          = Mapped(Reversed(Kids(d, j)))
  /\ PropsFaithful(Props(tree, n), Reversed(OwnProps(d, j)))

ReservedFaithful(rsv, ps) ==
  /\ [i \in DOMAIN rsv |-> tree.props[Reverse(ps)[i]].data] = rsv
  /\ \A p, q \in Range(ps) :
       p # q => devtree_get_prop_name(tree, p) # devtree_get_prop_name(tree, q)

TreeFaithful(d) ==
  /\ \A j \in d.kept :
       NodeFaithful(d, j, NodeOf(d, j), devtree_get_node_name(tree, NodeOf(d, j)))
  /\ fw.kind = "fdt" =>
       IF fw.board.rsv = <<>> THEN Len(tree.nodes) = Cardinality(d.kept)
       ELSE ReservedFaithful(fw.board.rsv, Props(tree, Cardinality(d.kept) + 1))

\* A path leads to the node it names, the last one of several; the addresses
\* of a device are those the processor sees, and its interrupts go to the
\* controller that is named for them.
PathFaithful(d, j, n, path) ==
  Cardinality({c \in Kids(d, KeptOwner(d, j)) : Toks[c].name = Toks[j].name}) = 1
    => devtree_walk(tree, path) = IF path = <<>> THEN 0 ELSE n

RegFaithful(d, j, regs, idx, r) ==
  IF idx = Len(regs) THEN r.next = -1
  ELSE /\ r.next = IF idx + 1 < Len(regs) THEN idx + 1 ELSE 0
       /\ r.size = regs[idx + 1][2]
       /\ (\A b \in Ancestors(d, j) \cap d.kept : SameWidth(d, b))
            => r.addr = Up(d, KeptOwner(d, j), regs[idx + 1][1])
RegsFaithful(d, j, n, regs) ==
  \A idx \in 0..Len(regs) : RegFaithful(d, j, regs, idx, devtree_get_translated_reg(tree, n, idx))

IntsFaithful(d, j, ints) ==
  IF Tok(d, j, Extended) # 0
  THEN /\ FlattenSeq([i \in DOMAIN ints |-> <<ints[i].phandle>> \o ints[i].encode])
            = Value(d, j, Extended)
       /\ \A i \in DOMAIN ints :
            devtree_get_num_int_cells(tree, ints[i].node) = Len(ints[i].encode)
  ELSE LET Node(a) == IF a = 0 THEN 0 ELSE NodeOf(d, IntParentNode(d, j, a)) IN
       /\ Len(ints) = 1 /\ ints[1].encode = Value(d, j, <<"interrupts">>)
       /\ ints[1].node = Node(IntParent(d, j))

LookupFaithful(d, j, n) ==
  /\ PathFaithful(d, j, n, PathOf(d, j))
  /\ \A i \in d.kept : devtree_in_subtree(tree, NodeOf(d, i), n) <=> i \in Ancestors(d, j)
  /\ Tok(d, j, <<"reg">>) # 0 => RegsFaithful(d, j, n, RegsOf(d, j))
  /\ IntsFaithful(d, j, IntsFrom(n, devtree_get_int(tree, n, 0)))
  /\ devtree_get_use_ioport(tree, n) <=>
       \E a \in Ancestors(d, j) \cap d.kept : Tok(d, a, <<"use", "-ioport">>) # 0

LookupsFaithful(d) ==
  /\ \A p \in Paths :
       LET Node(j) == IF j = 0 THEN 0 ELSE NodeOf(d, j) IN
       devtree_walk(tree, <<"/">> \o p) = Node(RefChild(d, Min(d.kept), p))
  /\ \A j \in d.kept : LookupFaithful(d, j, NodeOf(d, j))

\* The tree describes what the firmware described, and what the loader, the
\* HAL and the drivers look up in it is right.
Faithful(d) == TreeFaithful(d) /\ (NoneInside => LookupsFaithful(d))
DevtreeExact ==
  at.phase = "done" /\ tree.bad = "" /\ at.bad = "" => Faithful(Description)
=============================================================================
