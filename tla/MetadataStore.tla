----------------------------- MODULE MetadataStore -----------------------------
(***************************************************************************)
(* The metadata of a single-device btrfs filesystem as scrub-rs reads it   *)
(* from the raw device: superblock copies, and tree nodes stored once per  *)
(* stripe of their chunk, each copy with a checksum of its own. The        *)
(* filesystem may be mounted: it rewrites trees copy-on-write into free    *)
(* blocks and publishes them with the superblock, while scrub-rs reads     *)
(* node by node. What scrub-rs does is modelled from reader.rs, chunk.rs   *)
(* and superblock.rs; the filesystem and the device are external.          *)
(*                                                                         *)
(* Tree and key numbers are btrfs's own. An item is [key, val]; a key is   *)
(* <<objectid, type, offset>>. One node, one sector and one checksum are   *)
(* the units of the addresses.                                             *)
(***************************************************************************)
EXTENDS Integers, FiniteSets, SequencesExt

CONSTANTS
    Blocks,      \* logical addresses the filesystem keeps tree nodes at
    Chunks,      \* its chunks: [begin, end, data, stripes]
    Contents,    \* per tree and leaf, the versions of its items that transactions write
    Layout,      \* the block each tree starts at
    RootLayout,  \* the trees whose ROOT_ITEM each leaf of the root tree holds
    Trouble      \* bound: transactions, lost writes and bad copies in a behaviour

ASSUME StoreAssumption ==
    /\ Blocks \subseteq Nat
    /\ Trouble \in Nat
    /\ RootLayout \in Seq(Seq(Nat))
    /\ \A c \in Chunks : /\ c.begin \in Nat /\ c.end \in Nat /\ c.begin < c.end
                         /\ c.stripes \in Seq(Nat) \ {<<>>}
    /\ \A c, d \in Chunks : c = d \/ c.end <= d.begin \/ d.end <= c.begin

VARIABLES
    disk,       \* what the device holds at each physical node address
    supers,     \* the superblock copies, in the order they are tried
    mem,        \* the trees as the filesystem has written them
    committed,  \* the trees as its superblock describes them
    budget      \* what is left of Trouble

storeVars == <<disk, supers, mem, committed, budget>>

(* Tree objectids and item types (key.rs). EXTENT_CSUM_OBJECTID is -10 as  *)
(* a u64 there; what matters is that it is above the others.               *)
ROOT_TREE == 1
EXTENT_TREE == 2
CHUNK_TREE == 3
DEV_TREE == 4
FS_TREE == 5
CSUM_TREE == 7
EXTENT_CSUM_OBJECTID == 1000
EXTENT_CSUM == 128
ROOT_ITEM == 132
EXTENT_ITEM == 168
DEV_EXTENT_KEY == 204
CHUNK_ITEM == 228

IsSequence(s) == Len(s) \in Nat /\ DOMAIN s = 1..Len(s)

(* Keys are ordered by objectid, then type, then offset.                   *)
KeyLess(a, b) ==
    \/ a[1] < b[1]
    \/ a[1] = b[1] /\ a[2] < b[2]
    \/ a[1] = b[1] /\ a[2] = b[2] /\ a[3] < b[3]
KeyLeq(a, b) == a = b \/ KeyLess(a, b)

(* What a copy of a node may be: bytes whose header checksum fails, a read *)
(* that fails, a node another filesystem left there, or a node.            *)
Garbage == [kind |-> "garbage"]
Eio     == [kind |-> "eio"]
Foreign == [kind |-> "node", fsid |-> "other", bytenr |-> 0, gen |-> 0, level |-> 0,
            owner |-> 0, items |-> <<>>]

-----------------------------------------------------------------------------
(* Reading: scrub-rs.                                                      *)

(* ChunkMap::lookup_stripes: the physical copies of a logical address, <<>>*)
(* where no chunk covers it.                                               *)
lookup_stripes(map, b) ==
    LET hit == {c \in map : c.begin <= b /\ b < c.end}
        c   == CHOOSE x \in hit : TRUE
    IN  IF hit = {} THEN <<>>
        ELSE [i \in DOMAIN c.stripes |-> c.stripes[i] + (b - c.begin)]

Phys(b) == Range(lookup_stripes(Chunks, b))

(* Every block of the filesystem is mapped, and to places of its own;      *)
(* there is no node at physical 0.                                         *)
ASSUME PlacesAssumption ==
    \A b \in Blocks : /\ Phys(b) # {} /\ 0 \notin Phys(b)
                      /\ \A c \in Blocks : b # c => Phys(b) \cap Phys(c) = {}

(* The header fields a node must have. A tree's root is read with none.    *)
DontCheck == [gen |-> -1, level |-> -1, owner |-> -1]

(* Mutant: the generation of the key pointer is not compared.              *)
ValidateHeaderNoGen(n, b, exp) ==
    /\ n.bytenr = b
    /\ n.fsid = "own"
    /\ exp # DontCheck => n.level = exp.level /\ n.owner = exp.owner

validate_header(n, b, exp) ==
    /\ n.bytenr = b
    /\ n.fsid = "own"
    /\ exp # DontCheck => n.level = exp.level /\ n.owner = exp.owner /\ n.gen = exp.gen

(* Mutant: only the first copy is tried.                                   *)
ReadFirstCopy(map, b, exp) ==
    LET n == disk[IF lookup_stripes(map, b) = <<>> THEN 0 ELSE Head(lookup_stripes(map, b))]
    IN  [read_error          |-> n.kind = "eio",
         all_mirrors_failed  |-> n.kind = "garbage",
         generation_mismatch |-> n.kind = "node" /\ ~validate_header(n, b, exp),
         mirror_mismatch     |-> FALSE,
         node                |-> n]

(* FsReader::read_node: every copy is tried; the first that passes all     *)
(* checks is used, else the first whose checksum is right (a stale node).  *)
(* An unmapped address is read at physical 0, where no node is.            *)
read_node(map, b, exp) ==
    LET at       == IF lookup_stripes(map, b) = <<>> THEN <<0>> ELSE lookup_stripes(map, b)
        readable == {i \in DOMAIN at : disk[at[i]].kind # "eio"}
        verified == {i \in readable : disk[at[i]].kind = "node"}
        good     == {i \in verified : validate_header(disk[at[i]], b, exp)}
    IN  [read_error          |-> readable = {},
         all_mirrors_failed  |-> readable # {} /\ verified = {},
         generation_mismatch |-> verified # {} /\ good = {},
         mirror_mismatch     |-> verified # {} /\ Cardinality(verified) < Len(at),
         node                |-> IF good # {} THEN disk[at[Min(good)]]
                                 ELSE IF verified # {} THEN disk[at[Min(verified)]]
                                 ELSE Garbage]

(* The tree walk (walk_leaves_impl): a queue of nodes to read, of which    *)
(* the last is read next.                                                  *)
Ref(at, exp) == [at |-> at, exp |-> exp]
Fine(got) == ~got.read_error /\ ~got.all_mirrors_failed /\ ~got.generation_mismatch
AtLeaf(got) == Fine(got) /\ got.node.level = 0

(* A finite set of numbers as a sequence, and what a sequence has at some  *)
(* positions.                                                              *)
Ascending(S) ==
    [k \in 1..Cardinality(S) |-> CHOOSE x \in S : Cardinality({y \in S : y <= x}) = k]
Pick(s, at) == LET order == Ascending(at) IN [k \in DOMAIN order |-> s[order[k]]]

(* The pointers of an internal node, with the header fields each child     *)
(* must have.                                                              *)
Pointers(node) ==
    [i \in DOMAIN node.items |->
        Ref(node.items[i].val.at, [gen |-> node.items[i].val.gen, level |-> node.level - 1,
                                   owner |-> node.owner])]

(* Mutant: a child that starts below the range is taken to lie below it.   *)
ChildrenByFirstKey(node, lo, hi) ==
    LET ptrs == node.items IN
    Reverse(Pick(Pointers(node), {i \in DOMAIN ptrs : KeyLeq(lo, ptrs[i].key)
                                                     /\ KeyLess(ptrs[i].key, hi)}))

(* The children of a node that can hold keys of [lo, hi), last one first.  *)
Children(node, lo, hi) ==
    LET ptrs == node.items IN
    Reverse(Pick(Pointers(node),
                 {i \in DOMAIN ptrs : /\ i < Len(ptrs) => KeyLess(lo, ptrs[i + 1].key)
                                      /\ KeyLess(ptrs[i].key, hi)}))

(* Mutant: a stale node is read again until it is right.                   *)
PopRetryStale(queue, got, lo, hi) ==
    IF got.generation_mismatch THEN queue
    ELSE Front(queue) \o (IF Fine(got) /\ ~AtLeaf(got) THEN Children(got.node, lo, hi) ELSE <<>>)

(* The queue after the pop.                                                *)
Pop(queue, got, lo, hi) ==
    Front(queue) \o (IF Fine(got) /\ ~AtLeaf(got) THEN Children(got.node, lo, hi) ELSE <<>>)

MinKey == <<-1, 0, 0>>
MaxKey == <<EXTENT_CSUM_OBJECTID + 1, 0, 0>>

(* What a leaf's callback looks at: the items of one type, as a set where  *)
(* their order does not matter, or in order.                               *)
ItemsOf(got, type) ==
    IF AtLeaf(got) THEN {it \in Range(got.node.items) : it.key[2] = type} ELSE {}
ItemSeq(got, type) ==
    LET its == got.node.items IN
    IF AtLeaf(got) THEN Pick(its, {i \in DOMAIN its : its[i].key[2] = type}) ELSE <<>>

(* Superblock::read: the first copy that verifies; one past the end of the *)
(* device, unreadable or wrong is passed over.                             *)
GoodSupers == {i \in DOMAIN supers : supers[i].kind = "super"}
read_superblock == supers[Min(GoodSupers)]

-----------------------------------------------------------------------------
(* The filesystem (external). A tree is its leaves and its top, which is   *)
(* the leaf itself where there is only one.                                *)

Leaf(at, gen, items) == [at |-> at, gen |-> gen, items |-> items]
IsLeaf(tree) == Len(tree.leaf) = 1
NodesOf(tree) == {tree.top.at} \cup {tree.leaf[i].at : i \in DOMAIN tree.leaf}
Used(trees) == UNION {NodesOf(trees[t]) : t \in DOMAIN trees}

(* The ROOT_ITEMs of a leaf of the root tree.                              *)
RootItems(trees, i) ==
    [j \in DOMAIN RootLayout[i] |->
        LET t == RootLayout[i][j] IN
        [key |-> <<t, ROOT_ITEM, 0>>,
         val |-> IF t \in DOMAIN trees THEN trees[t].top.at ELSE 0]]

Node(b, gen, level, owner, items) ==
    [kind |-> "node", fsid |-> "own", bytenr |-> b, gen |-> gen, level |-> level,
     owner |-> owner, items |-> items]

(* The node a tree has at a block it uses.                                 *)
NodeOf(t, tree, b) ==
    LET at == {i \in DOMAIN tree.leaf : tree.leaf[i].at = b} IN
    IF at # {}
    THEN LET l == tree.leaf[CHOOSE i \in at : TRUE] IN Node(b, l.gen, 0, t, l.items)
    ELSE Node(b, tree.top.gen, 1, t,
              [i \in DOMAIN tree.leaf |->
                  [key |-> tree.leaf[i].items[1].key,
                   val |-> [at |-> tree.leaf[i].at, gen |-> tree.leaf[i].gen]]])
NodeAt(trees, b) ==
    LET t == CHOOSE t \in DOMAIN trees : b \in NodesOf(trees[t]) IN NodeOf(t, trees[t], b)

(* The nodes a transaction rewrites, numbered.                             *)
LeafSlot(t) == 2 * t
TopSlot(t)  == 2 * t + 1

(* All trees, with leaf i of some of them rewritten at new blocks: the     *)
(* leaf, the top of its tree, and the same two nodes of the root tree.     *)
Rewritten(change, gen, at) ==
    LET cow(t, i, items) ==
            [leaf |-> [mem[t].leaf EXCEPT ![i] = Leaf(at[LeafSlot(t)], gen, items)],
             top  |-> [at  |-> at[IF IsLeaf(mem[t]) THEN LeafSlot(t) ELSE TopSlot(t)],
                       gen |-> gen]]
        data == [t \in DOMAIN mem |->
                    IF t \in DOMAIN change THEN cow(t, change[t].leaf, change[t].items)
                    ELSE mem[t]]
        r == CHOOSE i \in DOMAIN RootLayout :
                 \E t \in DOMAIN change : t \in Range(RootLayout[i])
    IN  [data EXCEPT ![ROOT_TREE] = cow(ROOT_TREE, r, RootItems(data, r))]

(* Where the nodes go: to free blocks, none to a block twice, handed out   *)
(* in ascending order from any of them on, around the end.                 *)
Placements(slots, free) ==
    LET order == Ascending(free)
        from(cursor) == [s \in slots |->
            order[((cursor + Cardinality({x \in slots : x < s})) % Len(order)) + 1]]
    IN  {at \in {from(cursor) : cursor \in DOMAIN order} : at \in [slots -> free] /\ IsInjective(at)}

(* The nodes to place, the blocks that neither the committed nor the       *)
(* written trees use, and the places written to.                           *)
Slots(trees) == {LeafSlot(t) : t \in trees} \cup
                {TopSlot(t) : t \in {x \in trees : ~IsLeaf(mem[x])}}
Free == Blocks \ (Used(mem) \cup Used(committed))
Copies(at) == UNION {Phys(b) : b \in Range(at)}
DiskWith(trees, at, places) ==
    [p \in DOMAIN disk |-> IF p \in places
                           THEN NodeAt(trees, CHOOSE b \in Range(at) : p \in Phys(b))
                           ELSE disk[p]]

(* A transaction, first half: the new nodes in all their copies. The       *)
(* device may lose one of the writes.                                      *)
WriteNodes(change, mayLose) ==
    /\ budget > 0
    /\ mem = committed
    /\ \E at \in Placements(Slots(DOMAIN change \cup {ROOT_TREE}), Free) :
       \E lost \in {{}} \cup (IF mayLose THEN {{p} : p \in Copies(at)} ELSE {}) :
         /\ budget > Cardinality(lost)
         /\ budget' = budget - 1 - Cardinality(lost)
         /\ mem' = Rewritten(change, mem[ROOT_TREE].top.gen + 1, at)
         /\ disk' = DiskWith(mem', at, Copies(at) \ lost)
    /\ UNCHANGED <<supers, committed>>

SuperOf(trees) ==
    [kind |-> "super", gen |-> trees[ROOT_TREE].top.gen, root |-> trees[ROOT_TREE].top.at]

(* Second half: the superblock, in every copy.                             *)
WriteSuper ==
    /\ mem # committed
    /\ committed' = mem
    /\ supers' = [i \in DOMAIN supers |->
                    IF supers[i].kind = "eof" THEN supers[i] ELSE SuperOf(mem)]
    /\ UNCHANGED <<disk, mem, budget>>

-----------------------------------------------------------------------------
(* The first generation: trees of Contents[t][i][1] from Layout[t] on.     *)
TreeAt(b, leaves) ==
    [leaf |-> [i \in DOMAIN leaves |-> Leaf(b + i - 1, 1, leaves[i])],
     top  |-> [at |-> IF Len(leaves) = 1 THEN b ELSE b + Len(leaves), gen |-> 1]]
InitTrees ==
    LET data == [t \in DOMAIN Contents |->
                    TreeAt(Layout[t], [i \in DOMAIN Contents[t] |-> Contents[t][i][1]])]
    IN  [t \in DOMAIN Contents \cup {ROOT_TREE} |->
            IF t = ROOT_TREE
            THEN TreeAt(Layout[t], [i \in DOMAIN RootLayout |-> RootItems(data, i)])
            ELSE data[t]]

(* The trees start in the blocks of the filesystem, no two in one.         *)
ASSUME LayoutAssumption ==
    /\ ROOT_TREE \notin DOMAIN Contents
    /\ \A t \in DOMAIN InitTrees :
          /\ Layout[t] \in Nat
          /\ NodesOf(InitTrees[t]) \subseteq Blocks
          /\ \A u \in DOMAIN InitTrees :
                t # u => NodesOf(InitTrees[t]) \cap NodesOf(InitTrees[u]) = {}

(* What a block holds at first: its node of the trees, and in a free block *)
(* what was freed there, an old checksum leaf.                             *)
InitNode(b) ==
    IF b \in Used(mem) THEN NodeAt(mem, b)
    ELSE Node(b, 0, 0, CSUM_TREE, Contents[CSUM_TREE][1][1])

(* The device with some copies bad from the start, and some superblocks;   *)
(* the third superblock lies past the end of the device.                   *)
Superblocks == 1..2
InitStore(blocks, node(_), bad, badSupers) ==
    /\ mem = InitTrees
    /\ committed = mem
    /\ Cardinality(DOMAIN bad) + Cardinality(badSupers) <= Trouble
    /\ budget = Trouble - Cardinality(DOMAIN bad) - Cardinality(badSupers)
    /\ disk = [p \in {0} \cup UNION {Phys(b) : b \in blocks} |->
                 IF p = 0 THEN Garbage
                 ELSE IF p \in DOMAIN bad THEN bad[p]
                 ELSE node(CHOOSE b \in blocks : p \in Phys(b))]
    /\ supers = [i \in 1..3 |-> IF i \notin Superblocks THEN [kind |-> "eof"]
                                ELSE IF i \in badSupers THEN Garbage ELSE SuperOf(mem)]

(* Any bad copies of one node.                                             *)
BadKinds == {Garbage, Eio, Foreign}
BadCopiesOfOne(nodes) == UNION {[S -> BadKinds] : S \in UNION {SUBSET Phys(b) : b \in nodes}}

=============================================================================
