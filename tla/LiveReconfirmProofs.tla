-------------------------- MODULE LiveReconfirmProofs --------------------------
(***************************************************************************)
(* Proofs about LiveReconfirm, for every filesystem whose root tree is one *)
(* leaf, any trouble on its device and any number of requests: roots that  *)
(* are cached for a generation are the roots of that generation, although  *)
(* the root tree is read after the superblock and, outside a freeze        *)
(* window, the filesystem commits in between.                              *)
(***************************************************************************)
EXTENDS LiveReconfirm, WellFoundedInduction, TLAPS

-----------------------------------------------------------------------------
(* The inductive invariant.                                                *)

Looked == {EXTENT_TREE, CSUM_TREE}
Gen(trees) == trees[ROOT_TREE].top.gen
RootAt(trees) == trees[ROOT_TREE].top.at
IsRootItem(it, t) == it.key[1] = t /\ it.key[2] = ROOT_ITEM

(* The root tree of some trees is one leaf, and its items lead to the tops *)
(* of the two trees that are looked up.                                    *)
Leads(items, trees) ==
    \A t \in Looked :
        /\ \E it \in Range(items) : IsRootItem(it, t)
        /\ \A it \in Range(items) : IsRootItem(it, t) => it.val = trees[t].top.at
WellRooted(trees) ==
    /\ Looked \cup {ROOT_TREE} \subseteq DOMAIN trees
    /\ Gen(trees) \in Nat \ {0}
    /\ RootAt(trees) \in Blocks
    /\ \A t \in Looked : trees[t].top.at \in Blocks
    /\ \E items : /\ trees[ROOT_TREE].leaf = <<Leaf(RootAt(trees), Gen(trees), items)>>
                  /\ Leads(items, trees)
RootNode(trees) ==
    Node(RootAt(trees), Gen(trees), 0, ROOT_TREE, trees[ROOT_TREE].leaf[1].items)

(* Every copy of a root leaf is that leaf, or bad.                         *)
Places == {0} \cup UNION {Phys(b) : b \in Blocks}
RootOnDisk(trees) == \A p \in Phys(RootAt(trees)) : disk[p] \in BadKinds \cup {RootNode(trees)}
StoreOK ==
    /\ disk = [p \in Places |-> disk[p]]
    /\ WellRooted(mem) /\ RootOnDisk(mem)
    /\ WellRooted(committed) /\ RootOnDisk(committed)
    /\ mem = committed \/ Gen(mem) = Gen(committed) + 1

(* A superblock that verifies is the last one written.                     *)
SupersOK ==
    /\ supers = [i \in 1..3 |-> supers[i]]
    /\ \A i \in 1..3 : supers[i].kind = "super" => supers[i] = SuperOf(committed)

(* What was read of a generation is right as long as it is the last one.   *)
SuperReadOK ==
    /\ sb.gen \in Nat /\ sb.gen <= Gen(committed)
    /\ sb.gen = Gen(committed) => sb.root = RootAt(committed)
WalkOK ==
    pc = "walk" =>
      /\ roots = NoRoots \/ roots.gen = sb.gen
      /\ sb.gen = Gen(committed) =>
           /\ queue \in {<<>>, <<Ref(sb.root, DontCheck)>>}
           /\ roots.ext \in {-1, committed[EXTENT_TREE].top.at}
           /\ roots.csum \in {-1, committed[CSUM_TREE].top.at}
CachedOK ==
    /\ cached.gen \in Int /\ cached.gen <= Gen(committed)
    /\ cached.gen = Gen(committed) =>
         /\ cached.ext = committed[EXTENT_TREE].top.at
         /\ cached.csum = committed[CSUM_TREE].top.at

CInv == StoreOK /\ SupersOK /\ SuperReadOK /\ WalkOK /\ CachedOK

-----------------------------------------------------------------------------
(* Reading.                                                                *)

(* A set of naturals that is not empty has a smallest element.             *)
LEMMA MinIn ==
    ASSUME NEW T \in SUBSET Nat, T # {}
    PROVE  Min(T) \in T
<1>1. PICK x \in T : \A y \in T : ~(<<y, x>> \in OpToRel(<, Nat))
  BY NatLessThanWellFounded, WFMin
<1>2. \A y \in T : ~(y < x)
  BY <1>1 DEF OpToRel
<1>3. \A y \in T : x <= y
  BY <1>2
<1> QED
  BY <1>3 DEF Min

(* The copies of a block are tried in some order.                          *)
LEMMA StripesAreCopies ==
    ASSUME NEW b \in Blocks
    PROVE  /\ lookup_stripes(Chunks, b) # <<>>
           /\ DOMAIN lookup_stripes(Chunks, b) \subseteq Nat
           /\ \A i \in DOMAIN lookup_stripes(Chunks, b) : lookup_stripes(Chunks, b)[i] \in Phys(b)
<1> DEFINE hit == {c \in Chunks : c.begin <= b /\ b < c.end}
           c   == CHOOSE x \in hit : TRUE
<1>1. Phys(b) # {}
  BY PlacesAssumption
<1>2. lookup_stripes(Chunks, b) # <<>>
  <2>1. DOMAIN <<>> = {}
    OBVIOUS
  <2>2. Range(<<>>) = {}
    BY <2>1 DEF Range
  <2> QED
    BY <1>1, <2>2 DEF Phys
<1>3. hit # {}
  BY <1>2 DEF lookup_stripes
<1>4. c \in Chunks
  BY <1>3
<1>5. lookup_stripes(Chunks, b) = [i \in DOMAIN c.stripes |-> c.stripes[i] + (b - c.begin)]
  BY <1>3 DEF lookup_stripes
<1>6. c.stripes \in Seq(Nat)
  BY <1>4, StoreAssumption
<1>7. DOMAIN c.stripes = 1..Len(c.stripes)
  BY <1>6
<1> HIDE DEF c, hit
<1>8. DOMAIN lookup_stripes(Chunks, b) \subseteq Nat
  BY <1>5, <1>7
<1> QED
  BY <1>2, <1>8 DEF Phys, Range

(* No bad copy is a node of this filesystem.                               *)
LEMMA BadIsBad ==
    ASSUME NEW n \in BadKinds
    PROVE  n.kind # "node" \/ n.fsid # "own"
<1>1. Garbage.kind # "node" /\ Eio.kind # "node" /\ Foreign.fsid # "own"
  BY DEF Garbage, Eio, Foreign
<1> QED
  BY <1>1 DEF BadKinds

(* What is read at the root of some trees on the disk and passes the       *)
(* checks is their root leaf.                                              *)
LEMMA ReadsRoot ==
    ASSUME NEW trees, WellRooted(trees), RootOnDisk(trees),
           Fine(read_node(Chunks, RootAt(trees), DontCheck))
    PROVE  read_node(Chunks, RootAt(trees), DontCheck).node = RootNode(trees)
<1> DEFINE b        == RootAt(trees)
           copy     == lookup_stripes(Chunks, b)
           readable == {i \in DOMAIN copy : disk[copy[i]].kind # "eio"}
           verified == {i \in readable : disk[copy[i]].kind = "node"}
           good     == {i \in verified : validate_header(disk[copy[i]], b, DontCheck)}
           got      == read_node(Chunks, b, DontCheck)
<1>1. b \in Blocks
  BY DEF WellRooted
<1>2. /\ copy # <<>>
      /\ DOMAIN copy \subseteq Nat
      /\ \A i \in DOMAIN copy : copy[i] \in Phys(b)
  BY <1>1, StripesAreCopies
<1>3. got = [read_error          |-> readable = {},
             all_mirrors_failed  |-> readable # {} /\ verified = {},
             generation_mismatch |-> verified # {} /\ good = {},
             mirror_mismatch     |-> verified # {} /\ Cardinality(verified) < Len(copy),
             node                |-> IF good # {} THEN disk[copy[Min(good)]]
                                     ELSE IF verified # {} THEN disk[copy[Min(verified)]]
                                     ELSE Garbage]
  BY <1>2 DEF read_node
<1> HIDE DEF good, verified, readable, copy
<1>4. good # {}
  <2>1. /\ got.read_error = (readable = {})
        /\ got.all_mirrors_failed = (readable # {} /\ verified = {})
        /\ got.generation_mismatch = (verified # {} /\ good = {})
    BY <1>3
  <2>2. ~got.read_error /\ ~got.all_mirrors_failed /\ ~got.generation_mismatch
    BY DEF Fine
  <2> QED
    BY <2>1, <2>2, Zenon
<1>5. Min(good) \in good
  <2>1. good \subseteq Nat
    BY <1>2 DEF good, verified, readable
  <2> QED
    BY <1>4, <2>1, MinIn
<1>6. got.node = disk[copy[Min(good)]]
  BY <1>3, <1>4
<1>7. copy[Min(good)] \in Phys(b) /\ validate_header(disk[copy[Min(good)]], b, DontCheck)
      /\ disk[copy[Min(good)]].kind = "node"
  BY <1>2, <1>5 DEF good, verified, readable
<1>8. disk[copy[Min(good)]] \in BadKinds \cup {RootNode(trees)}
  BY <1>7 DEF RootOnDisk
<1>9. disk[copy[Min(good)]] \notin BadKinds
  BY <1>7, BadIsBad DEF validate_header
<1> QED
  BY <1>6, <1>8, <1>9

-----------------------------------------------------------------------------
(* The filesystem.                                                         *)

(* The items of a root leaf lead to the tops of the trees they are for.    *)
LEMMA RootItemsLead ==
    ASSUME NEW trees, Looked \subseteq DOMAIN trees
    PROVE  Leads(RootItems(trees, 1), trees)
<1> DEFINE items == RootItems(trees, 1)
           lay   == RootLayout[1]
<1>1. /\ DOMAIN items = DOMAIN lay
      /\ \A j \in DOMAIN lay :
           items[j] = [key |-> <<lay[j], ROOT_ITEM, 0>>,
                       val |-> IF lay[j] \in DOMAIN trees THEN trees[lay[j]].top.at ELSE 0]
  BY DEF RootItems
<1>2. /\ \A it \in Range(items) : \E j \in DOMAIN lay : it = items[j]
      /\ \A j \in DOMAIN lay : items[j] \in Range(items)
  BY <1>1 DEF Range
<1>3. \A t \in Looked : \E j \in DOMAIN lay : lay[j] = t
  BY ReconfirmAssumption DEF Looked, Range
<1> HIDE DEF items
<1>4. ASSUME NEW j \in DOMAIN lay
      PROVE  /\ items[j].key[1] = lay[j] /\ items[j].key[2] = ROOT_ITEM
             /\ items[j].val = IF lay[j] \in DOMAIN trees THEN trees[lay[j]].top.at ELSE 0
  <2> DEFINE k == <<lay[j], ROOT_ITEM, 0>>
             v == IF lay[j] \in DOMAIN trees THEN trees[lay[j]].top.at ELSE 0
  <2>1. items[j] = [key |-> k, val |-> v] /\ k[1] = lay[j] /\ k[2] = ROOT_ITEM
    BY <1>1
  <2> HIDE DEF k, v
  <2>2. items[j].key = k /\ items[j].val = v
    BY <2>1
  <2> QED
    BY <2>1, <2>2 DEF v
<1> HIDE DEF lay
<1>5. \A t \in Looked : \E it \in Range(items) : IsRootItem(it, t)
  BY <1>2, <1>3, <1>4 DEF IsRootItem
<1>6. ASSUME NEW t \in Looked, NEW it \in Range(items), IsRootItem(it, t)
      PROVE  it.val = trees[t].top.at
  <2>1. PICK j \in DOMAIN lay : it = items[j]
    BY <1>2
  <2>2. lay[j] = t
    BY <1>4, <1>6, <2>1 DEF IsRootItem
  <2> QED
    BY <1>4, <2>1, <2>2
<1> QED
  BY <1>5, <1>6 DEF Leads, items

(* The node at the root's block is the root leaf, where no other tree has  *)
(* that block.                                                             *)
LEMMA NodeAtRoot ==
    ASSUME NEW trees, WellRooted(trees),
           \A t \in DOMAIN trees : t # ROOT_TREE => RootAt(trees) \notin NodesOf(trees[t])
    PROVE  NodeAt(trees, RootAt(trees)) = RootNode(trees)
<1> DEFINE b    == RootAt(trees)
           tree == trees[ROOT_TREE]
<1>1. PICK items : tree.leaf = <<Leaf(b, Gen(trees), items)>>
  BY DEF WellRooted
<1>2. ROOT_TREE \in DOMAIN trees /\ b \in NodesOf(tree)
  BY DEF WellRooted, NodesOf, RootAt
<1>3. (CHOOSE t \in DOMAIN trees : b \in NodesOf(trees[t])) = ROOT_TREE
  BY <1>2
<1>4. NodeAt(trees, b) = NodeOf(ROOT_TREE, tree, b)
  BY <1>3 DEF NodeAt
<1>5. /\ DOMAIN tree.leaf = {1} /\ tree.leaf[1] = Leaf(b, Gen(trees), items)
      /\ tree.leaf[1].at = b /\ tree.leaf[1].gen = Gen(trees)
  BY <1>1 DEF Leaf
<1>6. {i \in DOMAIN tree.leaf : tree.leaf[i].at = b} = {1}
  BY <1>5
<1>7. (CHOOSE i \in {1} : TRUE) = 1
  OBVIOUS
<1>8. NodeOf(ROOT_TREE, tree, b)
        = Node(b, tree.leaf[1].gen, 0, ROOT_TREE, tree.leaf[1].items)
  BY <1>6, <1>7 DEF NodeOf
<1> QED
  BY <1>4, <1>5, <1>8 DEF RootNode

(* What a transaction does: new blocks for the rewritten leaf of each of   *)
(* the two trees, for their tops and for the root leaf, which leads to the *)
(* new tops.                                                               *)
Moves(change, to) ==
    /\ to \in [Slots(Looked \cup {ROOT_TREE}) -> Free] /\ IsInjective(to)
    /\ mem = committed /\ UNCHANGED <<supers, committed>>
    /\ disk' = DiskWith(mem', to, Copies(to))
    /\ DOMAIN mem' = DOMAIN mem
    /\ \A t \in DOMAIN mem \ (Looked \cup {ROOT_TREE}) : mem'[t] = mem[t]
    /\ RootAt(mem') = to[LeafSlot(ROOT_TREE)] /\ Gen(mem') = Gen(mem) + 1
    /\ \E items : /\ mem'[ROOT_TREE].leaf = <<Leaf(RootAt(mem'), Gen(mem'), items)>>
                  /\ Leads(items, mem')
    /\ \A t \in Looked :
         /\ mem'[t].leaf = [mem[t].leaf EXCEPT ![change[t].leaf] =
                               Leaf(to[LeafSlot(t)], Gen(mem) + 1, change[t].items)]
         /\ mem'[t].top.at = to[IF IsLeaf(mem[t]) THEN LeafSlot(t) ELSE TopSlot(t)]

LEMMA NewTrees ==
    ASSUME StoreOK,
           NEW change, DOMAIN change = Looked,
           WriteNodes(change, FALSE)
    PROVE  \E to : Moves(change, to)
<1> DEFINE slots == Slots(Looked \cup {ROOT_TREE})
           gen   == Gen(mem) + 1
<1>1. PICK to \in Placements(slots, Free) :
        mem' = Rewritten(change, gen, to) /\ disk' = DiskWith(mem', to, Copies(to))
  <2>1. \A C : \A lost \in {{}} \cup (IF FALSE THEN {{p} : p \in C} ELSE {}) : C \ lost = C
    OBVIOUS
  <2> QED
    BY <2>1 DEF WriteNodes, Gen
<1>2. to \in [slots -> Free] /\ IsInjective(to)
  BY <1>1 DEF Placements
<1>3. mem = committed /\ UNCHANGED <<supers, committed>>
  BY DEF WriteNodes
<1>4. /\ Gen(mem) \in Nat /\ gen \in Nat \ {0}
      /\ DOMAIN mem \cap (Looked \cup {ROOT_TREE}) = Looked \cup {ROOT_TREE}
      /\ IsLeaf(mem[ROOT_TREE])
  BY DEF StoreOK, WellRooted, IsLeaf
<1> DEFINE
      cow(t, i, items) ==
        [leaf |-> [mem[t].leaf EXCEPT ![i] = Leaf(to[LeafSlot(t)], gen, items)],
         top  |-> [at  |-> to[IF IsLeaf(mem[t]) THEN LeafSlot(t) ELSE TopSlot(t)],
                   gen |-> gen]]
      data == [t \in DOMAIN mem |->
                 IF t \in DOMAIN change THEN cow(t, change[t].leaf, change[t].items) ELSE mem[t]]
      root == cow(ROOT_TREE, 1, RootItems(data, 1))
<1>5. mem' = [data EXCEPT ![ROOT_TREE] = root]
  <2>1. DOMAIN RootLayout = {1}
    BY StoreAssumption, ReconfirmAssumption
  <2>2. (CHOOSE i \in DOMAIN RootLayout : \E t \in DOMAIN change : t \in Range(RootLayout[i])) = 1
    <3>1. EXTENT_TREE \in DOMAIN change /\ EXTENT_TREE \in Range(RootLayout[1])
      BY ReconfirmAssumption DEF Looked
    <3> QED
      BY <2>1, <3>1
  <2>3. Rewritten(change, gen, to) = [data EXCEPT ![ROOT_TREE] = root]
    BY <2>2 DEF Rewritten
  <2> QED
    BY <1>1, <2>3
<1> HIDE DEF cow, root
<1>6. /\ DOMAIN mem' = DOMAIN mem
      /\ mem'[ROOT_TREE] = root
      /\ \A t \in Looked : /\ mem'[t] = data[t]
                           /\ mem'[t] = cow(t, change[t].leaf, change[t].items)
      /\ \A t \in DOMAIN mem \ (Looked \cup {ROOT_TREE}) : mem'[t] = mem[t]
  BY <1>4, <1>5 DEF Looked, ROOT_TREE, EXTENT_TREE, CSUM_TREE
<1> HIDE DEF data
<1>7. /\ RootAt(mem') = to[LeafSlot(ROOT_TREE)] /\ Gen(mem') = gen
      /\ mem'[ROOT_TREE].leaf = <<Leaf(RootAt(mem'), gen, RootItems(data, 1))>>
  <2>1. PICK l : mem[ROOT_TREE].leaf = <<l>>
    BY DEF StoreOK, WellRooted
  <2>2. \A x : [<<l>> EXCEPT ![1] = x] = <<x>>
    OBVIOUS
  <2>3. /\ root.leaf = <<Leaf(to[LeafSlot(ROOT_TREE)], gen, RootItems(data, 1))>>
        /\ root.top = [at |-> to[LeafSlot(ROOT_TREE)], gen |-> gen]
    BY <1>4, <2>1, <2>2 DEF root, cow
  <2> QED
    BY <1>6, <2>3 DEF RootAt, Gen
<1>8. ASSUME NEW t \in Looked
      PROVE  /\ mem'[t].leaf = [mem[t].leaf EXCEPT ![change[t].leaf] =
                                  Leaf(to[LeafSlot(t)], gen, change[t].items)]
             /\ mem'[t].top.at = to[IF IsLeaf(mem[t]) THEN LeafSlot(t) ELSE TopSlot(t)]
  <2> DEFINE new == Leaf(to[LeafSlot(t)], gen, change[t].items)
             s   == IF IsLeaf(mem[t]) THEN LeafSlot(t) ELSE TopSlot(t)
  <2>1. mem'[t] = cow(t, change[t].leaf, change[t].items)
    BY <1>6
  <2>2. mem'[t] = [leaf |-> [mem[t].leaf EXCEPT ![change[t].leaf] = new],
                   top  |-> [at |-> to[s], gen |-> gen]]
    BY <2>1, Zenon DEF cow
  <2> HIDE DEF new, s
  <2>3. mem'[t].leaf = [mem[t].leaf EXCEPT ![change[t].leaf] = new] /\ mem'[t].top.at = to[s]
    BY <2>2
  <2> QED
    BY <2>3 DEF new, s
<1>9. Leads(RootItems(data, 1), mem')
  <2>1. Leads(RootItems(data, 1), data)
    BY <1>4, RootItemsLead DEF data
  <2> QED
    BY <1>6, <2>1 DEF Leads
<1> HIDE DEF slots
<1>10. Moves(change, to)
  BY <1>1, <1>2, <1>3, <1>6, <1>7, <1>8, <1>9 DEF Moves, slots
<1> QED
  BY <1>10

(* A transaction puts the nodes where neither the trees in memory nor the  *)
(* committed ones are, and its root leaf leads to the new tops.            *)
LEMMA Transaction ==
    ASSUME StoreOK,
           NEW change, DOMAIN change = Looked,
           WriteNodes(change, FALSE)
    PROVE  StoreOK' /\ UNCHANGED <<supers, committed>>
<1> DEFINE slots == Slots(Looked \cup {ROOT_TREE})
           gen   == Gen(mem) + 1
<1>1. PICK to : Moves(change, to)
  BY NewTrees
<1>2. to \in [slots -> Free] /\ IsInjective(to)
  BY <1>1 DEF Moves
<1>3. mem = committed /\ UNCHANGED <<supers, committed>>
  BY <1>1 DEF Moves
<1>4. /\ Gen(mem) \in Nat /\ gen \in Nat \ {0}
      /\ Looked \cup {ROOT_TREE} \subseteq DOMAIN mem
      /\ IsLeaf(mem[ROOT_TREE])
  BY DEF StoreOK, WellRooted, IsLeaf
<1>6. /\ DOMAIN mem' = DOMAIN mem
      /\ \A t \in DOMAIN mem \ (Looked \cup {ROOT_TREE}) : mem'[t] = mem[t]
  BY <1>1 DEF Moves
<1>7. /\ LeafSlot(ROOT_TREE) \in slots
      /\ \A t \in Looked : /\ LeafSlot(t) \in slots
                           /\ ~IsLeaf(mem[t]) => TopSlot(t) \in slots
                           /\ LeafSlot(t) # LeafSlot(ROOT_TREE)
                           /\ TopSlot(t) # LeafSlot(ROOT_TREE)
  BY DEF Slots, LeafSlot, TopSlot, Looked, ROOT_TREE, EXTENT_TREE, CSUM_TREE
<1>8. PICK items : /\ RootAt(mem') = to[LeafSlot(ROOT_TREE)] /\ Gen(mem') = gen
                   /\ mem'[ROOT_TREE].leaf = <<Leaf(RootAt(mem'), gen, items)>>
                   /\ Leads(items, mem')
  BY <1>1 DEF Moves
<1>9. ASSUME NEW t \in Looked
      PROVE  /\ \E s \in slots : mem'[t].top.at = to[s] /\ s # LeafSlot(ROOT_TREE)
             /\ \A i \in DOMAIN mem'[t].leaf :
                   \/ mem'[t].leaf[i].at = to[LeafSlot(t)]
                   \/ i \in DOMAIN mem[t].leaf /\ mem'[t].leaf[i] = mem[t].leaf[i]
  <2> DEFINE new == Leaf(to[LeafSlot(t)], gen, change[t].items)
             s   == IF IsLeaf(mem[t]) THEN LeafSlot(t) ELSE TopSlot(t)
  <2>1. /\ mem'[t].leaf = [mem[t].leaf EXCEPT ![change[t].leaf] = new]
        /\ mem'[t].top.at = to[s]
    BY <1>1 DEF Moves
  <2>2. mem'[t].top.at = to[s] /\ s \in slots /\ s # LeafSlot(ROOT_TREE)
    BY <1>7, <2>1
  <2>3. new.at = to[LeafSlot(t)]
    BY DEF Leaf
  <2> HIDE DEF new
  <2> QED
    BY <2>1, <2>2, <2>3
<1>10. WellRooted(mem')
  <2>1. RootAt(mem') \in Blocks /\ \A t \in Looked : mem'[t].top.at \in Blocks
    <3>1. \A s \in slots : to[s] \in Blocks
      BY <1>2 DEF Free
    <3> HIDE DEF slots
    <3> QED
      BY <1>7, <1>8, <1>9, <3>1
  <2> QED
    BY <1>4, <1>6, <1>8, <2>1 DEF WellRooted
<1>11. /\ \A s \in slots : to[s] \in Blocks /\ to[s] \notin Used(mem)
       /\ \A s \in slots : to[s] = RootAt(mem') => s = LeafSlot(ROOT_TREE)
       /\ \A s \in slots : to[s] \in Range(to)
       /\ \A b \in Range(to) : b \in Blocks /\ b \notin Used(mem)
  <2>1. \A s \in slots : to[s] \in Blocks /\ to[s] \notin Used(mem)
    BY <1>2 DEF Free
  <2>2. DOMAIN to = slots
    BY <1>2
  <2> HIDE DEF slots
  <2> QED
    BY <1>2, <1>7, <1>8, <2>1, <2>2 DEF IsInjective, Range
<1>12. ASSUME NEW t \in DOMAIN mem', t # ROOT_TREE
       PROVE  RootAt(mem') \notin NodesOf(mem'[t])
  <2>1. t \in DOMAIN mem /\ NodesOf(mem[t]) \subseteq Used(mem)
    BY <1>6 DEF Used
  <2>2. RootAt(mem') \notin Used(mem)
    BY <1>7, <1>8, <1>11
  <2>3. CASE t \notin Looked
    BY <1>6, <1>12, <2>1, <2>2, <2>3
  <2>4. CASE t \in Looked
    <3>1. mem'[t].top.at # RootAt(mem')
      <4>1. PICK s \in slots : mem'[t].top.at = to[s] /\ s # LeafSlot(ROOT_TREE)
        BY <1>9, <2>4
      <4>2. to[s] = RootAt(mem') => s = LeafSlot(ROOT_TREE)
        BY <1>11
      <4> HIDE DEF slots
      <4> QED
        BY <4>1, <4>2
    <3>2. ASSUME NEW i \in DOMAIN mem'[t].leaf
          PROVE  mem'[t].leaf[i].at # RootAt(mem')
      <4>1. CASE mem'[t].leaf[i].at = to[LeafSlot(t)]
        BY <1>7, <1>11, <2>4, <4>1
      <4>2. CASE i \in DOMAIN mem[t].leaf /\ mem'[t].leaf[i] = mem[t].leaf[i]
        BY <2>1, <2>2, <4>2 DEF NodesOf
      <4> QED
        BY <1>9, <2>4, <4>1, <4>2
    <3> QED
      BY <3>1, <3>2 DEF NodesOf
  <2> QED
    BY <2>3, <2>4
<1>13. /\ DOMAIN disk = Places /\ disk' = [p \in Places |-> disk'[p]]
       /\ \A p \in Places : p \notin Copies(to) => disk'[p] = disk[p]
       /\ \A p \in Places : p \in Copies(to) =>
            disk'[p] = NodeAt(mem', CHOOSE b \in Range(to) : p \in Phys(b))
  BY <1>1 DEF StoreOK, DiskWith, Moves
<1>14. \A p \in Phys(RootAt(mem')) : disk'[p] = RootNode(mem')
  <2> SUFFICES ASSUME NEW p \in Phys(RootAt(mem')) PROVE disk'[p] = RootNode(mem')
    OBVIOUS
  <2>1. RootAt(mem') \in Range(to) /\ RootAt(mem') \in Blocks
    BY <1>7, <1>8, <1>11
  <2>2. p \in Copies(to) /\ p \in Places
    BY <2>1 DEF Copies, Places
  <2>3. (CHOOSE b \in Range(to) : p \in Phys(b)) = RootAt(mem')
    BY <1>11, <2>1, PlacesAssumption
  <2>4. NodeAt(mem', RootAt(mem')) = RootNode(mem')
    BY <1>10, <1>12, NodeAtRoot
  <2> QED
    BY <1>13, <2>2, <2>3, <2>4
<1>15. \A p \in Phys(RootAt(committed)) : disk'[p] = disk[p]
  <2>1. RootAt(committed) \in Used(mem) /\ RootAt(committed) \in Blocks
    BY <1>3 DEF Used, NodesOf, RootAt, StoreOK, WellRooted
  <2> SUFFICES ASSUME NEW p \in Phys(RootAt(committed)) PROVE disk'[p] = disk[p]
    OBVIOUS
  <2>2. p \in Places
    BY <2>1 DEF Places
  <2>3. p \notin Copies(to)
    BY <1>11, <2>1, PlacesAssumption DEF Copies
  <2> QED
    BY <1>13, <2>2, <2>3
<1>16. (WellRooted(mem) /\ RootOnDisk(mem))'
  BY <1>10, <1>14 DEF RootOnDisk
<1>17. (WellRooted(committed) /\ RootOnDisk(committed))'
  BY <1>3, <1>15 DEF RootOnDisk, StoreOK
<1>18. Gen(mem') = Gen(committed') + 1
  BY <1>3, <1>8
<1> QED
  BY <1>3, <1>13, <1>16, <1>17, <1>18 DEF StoreOK

(* The trees of the first generation.                                      *)
LEMMA FirstTrees == WellRooted(InitTrees) /\ Gen(InitTrees) = 1
<1> DEFINE
      data   == [t \in DOMAIN Contents |->
                   TreeAt(Layout[t], [i \in DOMAIN Contents[t] |-> Contents[t][i][1]])]
      leaves == [i \in DOMAIN RootLayout |-> RootItems(data, i)]
      b      == Layout[ROOT_TREE]
<1>1. Looked \subseteq DOMAIN Contents /\ ROOT_TREE \notin DOMAIN Contents
  BY ReconfirmAssumption, LayoutAssumption DEF Looked
<1>2. InitTrees = [t \in DOMAIN Contents \cup {ROOT_TREE} |->
                     IF t = ROOT_TREE THEN TreeAt(b, leaves) ELSE data[t]]
  BY DEF InitTrees
<1> HIDE DEF data
<1>3. /\ DOMAIN InitTrees = DOMAIN Contents \cup {ROOT_TREE}
      /\ InitTrees[ROOT_TREE] = TreeAt(b, leaves)
      /\ \A t \in Looked : InitTrees[t] = data[t]
  BY <1>1, <1>2
<1>4. leaves = <<RootItems(data, 1)>>
  <2>1. DOMAIN RootLayout = 1..1
    BY StoreAssumption, ReconfirmAssumption
  <2>2. leaves = [i \in 1..1 |-> RootItems(data, i)]
    BY <2>1
  <2> QED
    BY <2>2
<1>5. /\ InitTrees[ROOT_TREE].leaf = [i \in DOMAIN leaves |-> Leaf(b + i - 1, 1, leaves[i])]
      /\ InitTrees[ROOT_TREE].top.at = b /\ InitTrees[ROOT_TREE].top.gen = 1
  <2>1. Len(leaves) = 1
    BY <1>4
  <2> HIDE DEF leaves
  <2> QED
    BY <1>3, <2>1 DEF TreeAt
<1> HIDE DEF leaves
<1>6. \A t \in DOMAIN InitTrees : InitTrees[t].top.at \in Blocks
  BY LayoutAssumption DEF NodesOf
<1>7. b \in Nat
  BY <1>3, <1>5, <1>6, StoreAssumption
<1>8. InitTrees[ROOT_TREE].leaf = <<Leaf(b, 1, RootItems(data, 1))>>
  <2>1. DOMAIN leaves = 1..1 /\ leaves[1] = RootItems(data, 1) /\ b + 1 - 1 = b
    BY <1>4, <1>7
  <2>2. InitTrees[ROOT_TREE].leaf = [i \in 1..1 |-> Leaf(b, 1, RootItems(data, 1))]
    BY <1>5, <2>1
  <2> QED
    BY <2>2
<1>9. Leads(RootItems(data, 1), InitTrees)
  <2>1. Leads(RootItems(data, 1), data)
    BY <1>1, RootItemsLead DEF data
  <2> QED
    BY <1>3, <2>1 DEF Leads
<1>10. RootAt(InitTrees) = b /\ Gen(InitTrees) = 1 /\ b \in Blocks
  BY <1>3, <1>5, <1>6 DEF RootAt, Gen
<1> QED
  BY <1>1, <1>3, <1>6, <1>8, <1>9, <1>10 DEF WellRooted

(* The invariant holds at first, with some copies bad.                     *)
LEMMA InvInit == Init => CInv
<1> SUFFICES ASSUME Init PROVE CInv
  OBVIOUS
<1>1. PICK bad \in BadCopiesOfOne(Used(InitTrees)), badSupers \in SUBSET Superblocks :
        /\ mem = InitTrees /\ committed = mem
        /\ disk = [p \in {0} \cup UNION {Phys(b) : b \in Blocks} |->
                     IF p = 0 THEN Garbage
                     ELSE IF p \in DOMAIN bad THEN bad[p]
                     ELSE InitNode(CHOOSE b \in Blocks : p \in Phys(b))]
        /\ supers = [i \in 1..3 |-> IF i \notin Superblocks THEN [kind |-> "eof"]
                                    ELSE IF i \in badSupers THEN Garbage ELSE SuperOf(mem)]
  BY DEF Init, InitStore
<1>2. /\ sb = SuperOf(mem) /\ cached = NoRoots /\ pc = "judged"
  BY DEF Init
<1>3. WellRooted(mem) /\ Gen(mem) = 1 /\ committed = mem
  BY <1>1, FirstTrees
<1>4. RootOnDisk(mem)
  <2> SUFFICES ASSUME NEW p \in Phys(RootAt(mem))
               PROVE  disk[p] \in BadKinds \cup {RootNode(mem)}
    BY DEF RootOnDisk
  <2>1. RootAt(mem) \in Blocks /\ RootAt(mem) \in Used(mem)
    BY <1>3 DEF WellRooted, Used, NodesOf, RootAt
  <2>2. p \in Places /\ Places = {0} \cup UNION {Phys(b) : b \in Blocks}
    BY <2>1 DEF Places
  <2>3. CASE p = 0
    BY <1>1, <2>2, <2>3 DEF BadKinds
  <2>4. CASE p # 0 /\ p \in DOMAIN bad
    <3>1. bad[p] \in BadKinds
      BY <2>4 DEF BadCopiesOfOne
    <3> QED
      BY <1>1, <2>2, <2>4, <3>1
  <2>5. CASE p # 0 /\ p \notin DOMAIN bad
    <3>1. (CHOOSE b \in Blocks : p \in Phys(b)) = RootAt(mem)
      BY <2>1, PlacesAssumption
    <3>2. disk[p] = InitNode(RootAt(mem))
      BY <1>1, <2>2, <2>5, <3>1
    <3>3. \A t \in DOMAIN mem : t # ROOT_TREE => RootAt(mem) \notin NodesOf(mem[t])
      <4>1. RootAt(mem) \in NodesOf(mem[ROOT_TREE]) /\ ROOT_TREE \in DOMAIN mem
        BY <1>3 DEF NodesOf, RootAt, WellRooted
      <4> QED
        BY <1>1, <4>1, LayoutAssumption
    <3>4. InitNode(RootAt(mem)) = RootNode(mem)
      BY <1>3, <2>1, <3>3, NodeAtRoot DEF InitNode
    <3> QED
      BY <3>2, <3>4
  <2> QED
    BY <2>3, <2>4, <2>5
<1>5. StoreOK
  BY <1>1, <1>3, <1>4 DEF StoreOK, Places
<1>6. SupersOK
  BY <1>1, <1>3 DEF SupersOK, Garbage
<1>7. SuperReadOK
  BY <1>2, <1>3 DEF SuperReadOK, SuperOf, Gen, RootAt
<1>8. WalkOK /\ CachedOK
  BY <1>2, <1>3 DEF WalkOK, CachedOK, NoRoots
<1> QED
  BY <1>5, <1>6, <1>7, <1>8 DEF CInv

-----------------------------------------------------------------------------
(* The steps.                                                              *)

(* The superblock that is read is the last one written.                    *)
LEMMA ReadsLastSuper ==
    ASSUME SupersOK, GoodSupers # {}
    PROVE  read_superblock = SuperOf(committed)
<1>1. GoodSupers \subseteq 1..3 /\ \A i \in GoodSupers : supers[i].kind = "super"
  BY DEF SupersOK, GoodSupers
<1>2. Min(GoodSupers) \in GoodSupers
  BY <1>1, MinIn
<1> QED
  BY <1>1, <1>2 DEF SupersOK, read_superblock

(* A pop of the walk that finds the root leaf finds both roots, and any    *)
(* other ends it.                                                          *)
LEMMA WalkStep ==
    ASSUME CInv, WalkLiveRoots
    PROVE  WalkOK'
<1> DEFINE got == read_node(Chunks, Last(queue).at, Last(queue).exp)
           its == ItemsOf(got, ROOT_ITEM)
           bytenr(t, old) == IF \E it \in its : it.key[1] = t
                             THEN (CHOOSE it \in its : it.key[1] = t).val
                             ELSE old
           new == [gen |-> sb.gen, ext |-> bytenr(EXTENT_TREE, roots.ext),
                   csum |-> bytenr(CSUM_TREE, roots.csum)]
<1>1. /\ pc = "walk" /\ pc' = pc
      /\ UNCHANGED <<storeVars, sb>>
      /\ queue # <<>>
      /\ roots' = new
      /\ queue' = IF RootsFound(new) THEN <<>> ELSE Pop(queue, got, MinKey, MaxKey)
  BY DEF WalkLiveRoots
<1>2. UNCHANGED committed
  BY <1>1 DEF storeVars
<1>3. roots'.gen = sb'.gen
  BY <1>1
<1>4. ASSUME sb.gen = Gen(committed)
      PROVE  /\ queue' = <<>>
             /\ roots'.ext \in {-1, committed[EXTENT_TREE].top.at}
             /\ roots'.csum \in {-1, committed[CSUM_TREE].top.at}
  <2>1. /\ queue = <<Ref(RootAt(committed), DontCheck)>>
        /\ roots.ext \in {-1, committed[EXTENT_TREE].top.at}
        /\ roots.csum \in {-1, committed[CSUM_TREE].top.at}
    BY <1>1, <1>4 DEF CInv, WalkOK, SuperReadOK
  <2>2. Last(queue) = Ref(RootAt(committed), DontCheck) /\ Front(queue) = <<>>
    BY <2>1 DEF Last, Front
  <2>3. got = read_node(Chunks, RootAt(committed), DontCheck)
    BY <2>2 DEF Ref
  <2>4. ASSUME Fine(got)
        PROVE  AtLeaf(got) /\ got.node = RootNode(committed)
    <3>1. got.node = RootNode(committed)
      BY <2>3, <2>4, ReadsRoot DEF CInv, StoreOK
    <3> QED
      BY <2>4, <3>1 DEF AtLeaf, RootNode, Node
  <2>5. queue' = <<>>
    BY <1>1, <2>2, <2>4 DEF Pop
  <2>6. ASSUME NEW t \in Looked, NEW old \in {-1, committed[t].top.at}
        PROVE  bytenr(t, old) \in {-1, committed[t].top.at}
    <3>1. CASE ~Fine(got)
      BY <3>1 DEF ItemsOf, AtLeaf
    <3>2. CASE Fine(got)
      <4>1. got.node.items = committed[ROOT_TREE].leaf[1].items
        BY <2>4, <3>2 DEF RootNode, Node
      <4>2. PICK items : /\ committed[ROOT_TREE].leaf
                              = <<Leaf(RootAt(committed), Gen(committed), items)>>
                         /\ Leads(items, committed)
        BY DEF CInv, StoreOK, WellRooted
      <4>3. got.node.items = items
        BY <4>1, <4>2 DEF Leaf
      <4>4. \A it \in its : it \in Range(items) /\ it.key[2] = ROOT_ITEM
        BY <2>4, <3>2, <4>3 DEF ItemsOf
      <4>5. \A it \in its : it.key[1] = t => it.val = committed[t].top.at
        BY <4>2, <4>4 DEF Leads, IsRootItem
      <4> HIDE DEF its
      <4> QED
        BY <4>5
    <3> QED
      BY <3>1, <3>2
  <2>7. /\ bytenr(EXTENT_TREE, roots.ext) \in {-1, committed[EXTENT_TREE].top.at}
        /\ bytenr(CSUM_TREE, roots.csum) \in {-1, committed[CSUM_TREE].top.at}
    BY <2>1, <2>6 DEF Looked
  <2> HIDE DEF bytenr
  <2> QED
    BY <1>1, <2>5, <2>7
<1> QED
  BY <1>1, <1>2, <1>3, <1>4 DEF WalkOK

(* Every step preserves the invariant: a commit outdates what was read,    *)
(* and until then the root leaf stays where it is.                         *)
LEMMA InvStep == CInv /\ [Next]_vars => CInv'
<1> SUFFICES ASSUME CInv, [Next]_vars PROVE CInv'
  OBVIOUS
<1>0. UNCHANGED storeVars => (StoreOK /\ SupersOK)'
  BY DEF CInv, StoreOK, SupersOK, storeVars, RootOnDisk
<1>1. UNCHANGED <<storeVars, sb, cached, roots, queue>> /\ (pc' = "walk" => pc = "walk") => CInv'
  BY <1>0 DEF CInv, SuperReadOK, WalkOK, CachedOK, storeVars
<1>2. ASSUME NEW r \in Requests, Ask(r) PROVE CInv'
  BY <1>1, <1>2 DEF Ask
<1>3. CASE Freeze \/ Thaw
  BY <1>1, <1>3 DEF Freeze, Thaw
<1>4. CASE ReadLiveSuper
  <2>1. UNCHANGED storeVars /\ UNCHANGED cached
    BY <1>4 DEF ReadLiveSuper
  <2>2. CachedOK'
    BY <2>1 DEF CInv, CachedOK, storeVars
  <2>3. CASE GoodSupers = {}
    BY <1>1, <1>4, <2>3 DEF ReadLiveSuper, Judge
  <2>4. CASE GoodSupers # {}
    <3>1. sb' = SuperOf(committed)
      BY <1>4, <2>4, ReadsLastSuper DEF ReadLiveSuper, CInv
    <3>2. pc' = "walk" => roots' = NoRoots /\ queue' = <<Ref(sb'.root, DontCheck)>>
      BY <1>4, <2>4 DEF ReadLiveSuper
    <3>3. SuperReadOK'
      BY <2>1, <3>1 DEF SuperReadOK, SuperOf, Gen, RootAt, storeVars, CInv, StoreOK, WellRooted
    <3>4. WalkOK'
      BY <3>2 DEF WalkOK, NoRoots
    <3> QED
      BY <1>0, <2>1, <2>2, <3>3, <3>4 DEF CInv
  <2> QED
    BY <2>3, <2>4
<1>5. CASE WalkLiveRoots
  <2>1. UNCHANGED <<storeVars, sb, cached>>
    BY <1>5 DEF WalkLiveRoots
  <2> QED
    BY <1>0, <1>5, <2>1, WalkStep DEF CInv, SuperReadOK, CachedOK, storeVars
<1>6. CASE RootsResolved
  <2>1. UNCHANGED <<storeVars, sb, roots, queue>> /\ pc' # "walk" /\ pc = "walk"
    BY <1>6 DEF RootsResolved, Judge
  <2>2. CachedOK'
    <3>1. CASE RootsFound(roots)
      <4>1. cached' = roots
        BY <1>6, <3>1 DEF RootsResolved, CacheRoots
      <4>2. roots.gen = sb.gen
        BY <2>1, <3>1 DEF CInv, WalkOK, RootsFound, NoRoots
      <4> QED
        BY <2>1, <3>1, <4>1, <4>2
           DEF CInv, WalkOK, SuperReadOK, CachedOK, RootsFound, storeVars
    <3>2. CASE ~RootsFound(roots)
      BY <1>6, <2>1, <3>2 DEF RootsResolved, CInv, CachedOK, storeVars
    <3> QED
      BY <3>1, <3>2
  <2> QED
    BY <1>0, <2>1, <2>2 DEF CInv, SuperReadOK, WalkOK, storeVars
<1>7. CASE ExtentCovers \/ CsumAt
  BY <1>1, <1>7 DEF ExtentCovers, CsumAt, Descend, Judge
<1>8. ASSUME NEW i, NEW v, FsWriteNodes(i, v) PROVE CInv'
  <2> DEFINE change == [t \in {EXTENT_TREE, CSUM_TREE} |-> [leaf |-> i, items |-> Contents[t][i][v]]]
  <2>1. WriteNodes(change, FALSE) /\ UNCHANGED lookVars
    BY <1>8 DEF FsWriteNodes
  <2>2. DOMAIN change = Looked
    BY DEF Looked
  <2> HIDE DEF change
  <2>3. StoreOK' /\ UNCHANGED <<supers, committed>>
    BY <2>1, <2>2, Transaction DEF CInv
  <2> QED
    BY <2>1, <2>3 DEF CInv, SupersOK, SuperReadOK, WalkOK, CachedOK, lookVars
<1>9. CASE FsWriteSuper
  <2>1. /\ mem # committed /\ committed' = mem /\ UNCHANGED <<disk, mem>> /\ UNCHANGED lookVars
        /\ supers' = [i \in DOMAIN supers |->
                        IF supers[i].kind = "eof" THEN supers[i] ELSE SuperOf(mem)]
    BY <1>9 DEF FsWriteSuper, WriteSuper
  <2>2. Gen(committed') = Gen(committed) + 1 /\ Gen(committed) \in Nat
    BY <2>1 DEF CInv, StoreOK, WellRooted
  <2>3. StoreOK'
    BY <2>1 DEF CInv, StoreOK, RootOnDisk
  <2>4. SupersOK'
    BY <2>1 DEF CInv, SupersOK
  <2>5. (SuperReadOK /\ WalkOK /\ CachedOK)'
    BY <2>1, <2>2 DEF CInv, SuperReadOK, WalkOK, CachedOK, lookVars
  <2> QED
    BY <2>3, <2>4, <2>5 DEF CInv
<1>10. CASE UNCHANGED vars
  BY <1>1, <1>10 DEF vars, lookVars
<1> QED
  BY <1>2, <1>3, <1>4, <1>5, <1>6, <1>7, <1>8, <1>9, <1>10 DEF Next, Reconfirm

(* The inductive invariant: superblocks, root leaf and everything read of  *)
(* them agree as long as no commit lies in between.                        *)
THEOREM Invariance == Spec => []CInv
  BY InvInit, InvStep, PTL DEF Spec

(* However the walk of the root tree and the filesystem's commits          *)
(* interleave, and whatever copies are bad, roots cached for the           *)
(* superblock's generation are the committed ones.                         *)
THEOREM CacheIsFresh == Spec => []CacheFresh
<1>1. CInv => CacheFresh
  <2> SUFFICES ASSUME CInv, GoodSupers # {}, cached.gen = read_superblock.gen
               PROVE  /\ cached.ext = committed[EXTENT_TREE].top.at
                      /\ cached.csum = committed[CSUM_TREE].top.at
    BY DEF CacheFresh
  <2>1. read_superblock.gen = Gen(committed)
    BY ReadsLastSuper DEF CInv, SuperOf, Gen
  <2> QED
    BY <2>1 DEF CInv, CachedOK
<1> QED
  BY <1>1, Invariance, PTL

=============================================================================
