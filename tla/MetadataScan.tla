----------------------------- MODULE MetadataScan -----------------------------
(***************************************************************************)
(* How the scrub finds out which sectors to check: open.rs reads the       *)
(* superblock and walks the chunk tree and the root tree, scrub_driver.rs  *)
(* walks the device tree for the device extents, and for every data extent *)
(* LazyCsumProvider::range (csum.rs) walks the checksum tree and emits the *)
(* sectors with a checksum. Every walk is walk_leaves_impl (tree.rs), one  *)
(* node per step; the filesystem may commit between any two steps.         *)
(***************************************************************************)
EXTENDS MetadataStore

CONSTANTS
    ChunkRoot,    \* logical address of the chunk tree's only node
    SysChunks,    \* the chunks of the superblock's system chunk array
    MaxItemSpan,  \* sectors one EXTENT_CSUM item can cover
    Shapes        \* "single", or a reason open refuses: "multi", "short", "hash", "striped"

(* What the items of a tree are, and how the next one follows: keys        *)
(* ascend, and checksums do not overlap. An EXTENT_CSUM item's val is the  *)
(* number of sectors it covers; a DEV_EXTENT's is its chunk and its length.*)
IsItem(t, it) ==
    /\ it.key \in (0..EXTENT_CSUM_OBJECTID) \X Nat \X Nat
    /\ it.key[2] \notin {ROOT_ITEM, CHUNK_ITEM}
    /\ it.key[2] = EXTENT_CSUM <=> t = CSUM_TREE
    /\ t = CSUM_TREE => it.key[1] = EXTENT_CSUM_OBJECTID /\ it.val \in 0..MaxItemSpan
    /\ it.key[2] = DEV_EXTENT_KEY => t = DEV_TREE /\ it.val.chunk \in Nat /\ it.val.len \in Nat
Follows(t, b, a) ==
    /\ KeyLess(a.key, b.key)
    /\ t = CSUM_TREE => a.key[3] + a.val <= b.key[3]

(* The trees are in order whatever version each leaf is at.                *)
ASSUME OrderAssumption ==
    \A t \in DOMAIN Contents :
      /\ t \in Nat
      /\ IsSequence(Contents[t]) /\ 1 \in DOMAIN Contents[t]
      /\ \A i \in DOMAIN Contents[t] :
           /\ 1 \in DOMAIN Contents[t][i]
           /\ \A v \in DOMAIN Contents[t][i] :
                /\ IsSequence(Contents[t][i][v]) /\ 1 \in DOMAIN Contents[t][i][v]
                /\ \A x \in DOMAIN Contents[t][i][v] :
                     /\ IsItem(t, Contents[t][i][v][x])
                     /\ \A j \in DOMAIN Contents[t] : \A w \in DOMAIN Contents[t][j] :
                          \A y \in DOMAIN Contents[t][j][w] :
                             i < j \/ (i = j /\ v = w /\ x < y)
                             => Follows(t, Contents[t][j][w][y], Contents[t][i][v][x])

(* Every tree has a ROOT_ITEM, no other tree is in the way of the chunk    *)
(* tree, and the superblock's system chunks lead to it.                    *)
ASSUME ScanAssumption ==
    /\ MaxItemSpan \in Nat
    /\ {CSUM_TREE, DEV_TREE} \subseteq DOMAIN Contents
    /\ RootLayout # <<>> /\ \A i \in DOMAIN RootLayout : RootLayout[i] # <<>>
    /\ \A t \in DOMAIN Contents \cup {FS_TREE} : \E i \in DOMAIN RootLayout :
          t \in Range(RootLayout[i])
    /\ \A i \in DOMAIN RootLayout : Range(RootLayout[i]) \subseteq 0..EXTENT_CSUM_OBJECTID
    /\ SysChunks \subseteq Chunks /\ lookup_stripes(SysChunks, ChunkRoot) # <<>>
    /\ IsFiniteSet(Chunks)
    /\ ChunkRoot \in Nat \ Blocks
    /\ Phys(ChunkRoot) # {} /\ 0 \notin Phys(ChunkRoot)
    /\ \A b \in Blocks : Phys(b) \cap Phys(ChunkRoot) = {}

VARIABLES
    shape,     \* what kind of filesystem was given
    pc,        \* super, chunk, root, dev, csum, done or failed
    sb,        \* the superblock read at open
    map,       \* ChunkMap
    found,     \* chunk records of the chunk tree walk, not yet in the map
    roots,     \* bytenr of each tree whose ROOT_ITEM was found
    extents,   \* dev_extents, in the order of the device tree
    queue,     \* walk_leaves_impl: nodes to descend into, popped at the end
    ext,       \* the device extent being scrubbed
    entries,   \* range(): sectors collected so far
    emitted,   \* what range() emitted, per device extent
    cnt,       \* metadata counters
    reported,  \* LazyCsumProvider: nodes already counted, per counter
    seen,      \* history: the blocks the current walk has read
    missed     \* history: a node was lost to a walk that counts nothing for it

walkVars == <<queue, found, roots, extents, entries>>
scanVars == <<shape, pc, sb, map, walkVars, ext, emitted, cnt, reported, seen, missed>>
vars     == <<storeVars, scanVars>>

Counters == {"header", "mirror", "read", "stale"}

-----------------------------------------------------------------------------
(* walk_leaves_impl, one pop.                                              *)

Top == Last(queue)
Got == read_node(map, Top.at, Top.exp)
(* The counter a pop bumps; a mirror that disagrees is counted for a node  *)
(* that could be used all the same.                                        *)
Bumps(got) == [c \in Counters |->
            CASE c = "header" -> got.all_mirrors_failed
              [] c = "read"   -> got.read_error
              [] c = "stale"  -> got.generation_mismatch
              [] c = "mirror" -> Fine(got) /\ got.mirror_mismatch]

(* The walks at open count every failure but a stale node.                 *)
CountAtOpen(got) ==
    cnt' = [c \in Counters |-> cnt[c] + IF c # "stale" /\ Bumps(got)[c] THEN 1 ELSE 0]

(* A root is read unchecked: its block may by now hold something else.     *)
Height(t) == IF t \in DOMAIN Contents /\ Len(Contents[t]) = 1 THEN 0
             ELSE IF t = CHUNK_TREE \/ (t = ROOT_TREE /\ Len(RootLayout) = 1) THEN 0 ELSE 1
NotTheRoot(got, t) ==
    /\ Top.exp = DontCheck
    /\ Fine(got)
    /\ got.node.owner # t \/ got.node.level # Height(t)
Note(got, t, uncounted) ==
    /\ missed' = (missed \/ NotTheRoot(got, t) \/ (uncounted /\ got.generation_mismatch))
    /\ seen' = (IF Top.exp = DontCheck THEN {} ELSE seen) \cup {Top.at}

(* One pop of a walk at open: walk_leaves, with the callbacks open gives.  *)
OpenWalk(t, got) ==
    /\ queue' = Pop(queue, got, MinKey, MaxKey)
    /\ CountAtOpen(got)
    /\ Note(got, t, TRUE)

-----------------------------------------------------------------------------
(* open.                                                                   *)

Fail ==
    /\ pc' = "failed"
    /\ UNCHANGED <<shape, sb, map, walkVars, ext, emitted, cnt, reported, seen, missed>>

(* The superblock, the checks on it (several devices, a device too short,  *)
(* an unknown checksum type), and the system chunks. A primary copy that   *)
(* had to be passed over counts as a mirror mismatch.                      *)
ReadSuper ==
    /\ pc = "super"
    /\ IF GoodSupers = {} \/ shape \in {"multi", "short", "hash"} THEN Fail
       ELSE /\ sb' = read_superblock
            /\ cnt' = [cnt EXCEPT !["mirror"] = IF 1 \in GoodSupers THEN 0 ELSE 1]
            /\ map' = SysChunks
            /\ queue' = <<Ref(ChunkRoot, DontCheck)>>
            /\ pc' = "chunk"
            /\ UNCHANGED <<shape, found, roots, extents, entries, ext, emitted, reported, seen,
                           missed>>
    /\ UNCHANGED storeVars

WalkChunkTree ==
    /\ pc = "chunk"
    /\ queue # <<>>
    /\ \E got \in {Got} :
         /\ OpenWalk(CHUNK_TREE, got)
         /\ found' = found \cup {it.val : it \in ItemsOf(got, CHUNK_ITEM)}
    /\ UNCHANGED <<storeVars, shape, pc, sb, map, roots, extents, entries, ext, emitted, reported>>

(* A data chunk in a striped profile cannot be mapped linearly.            *)
validate_data_profiles(chunks) == ~(shape = "striped" /\ \E c \in chunks : c.data)

(* The full chunk map; a striped data chunk ends the run.                  *)
ChunksKnown ==
    /\ pc = "chunk"
    /\ queue = <<>>
    /\ IF ~validate_data_profiles(map \cup found) THEN Fail
       ELSE /\ map' = map \cup found
            /\ queue' = <<Ref(sb.root, DontCheck)>>
            /\ pc' = "root"
            /\ UNCHANGED <<shape, sb, found, roots, extents, entries, ext, emitted, cnt, reported,
                           seen, missed>>
    /\ UNCHANGED storeVars

WalkRootTree ==
    /\ pc = "root"
    /\ queue # <<>>
    /\ \E got \in {Got} :
         /\ OpenWalk(ROOT_TREE, got)
         /\ roots' = LET its == ItemsOf(got, ROOT_ITEM)
                         ids == {it.key[1] : it \in its}
                         at(t) == (CHOOSE it \in its : it.key[1] = t).val
                     IN  [t \in DOMAIN roots |-> IF t \in ids THEN {at(t)} ELSE roots[t]]
    /\ UNCHANGED <<storeVars, shape, pc, sb, map, found, extents, entries, ext, emitted, reported>>

RootRef(t) == IF roots[t] = {} THEN <<>> ELSE <<Ref(Max(roots[t]), DontCheck)>>

(* Without the FS and CSUM roots open fails; without the DEV root there is *)
(* nothing to scrub, and that is a header error.                           *)
RootsKnown ==
    /\ pc = "root"
    /\ queue = <<>>
    /\ IF roots[FS_TREE] = {} \/ roots[CSUM_TREE] = {} THEN Fail
       ELSE /\ cnt' = [cnt EXCEPT !["header"] = IF roots[DEV_TREE] = {} THEN @ + 1 ELSE @]
            /\ queue' = RootRef(DEV_TREE)
            /\ pc' = "dev"
            /\ UNCHANGED <<shape, sb, map, found, roots, extents, entries, ext, emitted, reported,
                           seen, missed>>
    /\ UNCHANGED storeVars

(* build_dev_extents: the extents of this device.                          *)
Devid == 1
DevExtents(got) ==
    LET its  == ItemSeq(got, DEV_EXTENT_KEY)
        mine == Pick(its, {i \in DOMAIN its : its[i].key[1] = Devid})
    IN  [i \in DOMAIN mine |->
            [phys |-> mine[i].key[3], chunk |-> mine[i].val.chunk, len |-> mine[i].val.len]]

WalkDevTree ==
    /\ pc = "dev"
    /\ queue # <<>>
    /\ \E got \in {Got} :
         /\ OpenWalk(DEV_TREE, got)
         /\ extents' = extents \o DevExtents(got)
    /\ UNCHANGED <<storeVars, shape, pc, sb, map, found, roots, entries, ext, emitted, reported>>

-----------------------------------------------------------------------------
(* The scrub's loop over the device extents.                               *)

IsData(e) == \E c \in map : c.begin <= e.chunk /\ e.chunk < c.end /\ c.data

(* range(): the keys that may matter to an extent. An item that starts     *)
(* before it may reach into it.                                            *)
RangeKeys(e) ==
    [lo |-> <<EXTENT_CSUM_OBJECTID, EXTENT_CSUM,
              IF e.chunk > MaxItemSpan THEN e.chunk - MaxItemSpan ELSE 0>>,
     hi |-> <<EXTENT_CSUM_OBJECTID, EXTENT_CSUM, e.chunk + e.len>>]

(* The next data extent from index i on: scrub_dev_tree passes over        *)
(* extents of other chunks, and over one whose chunk is unknown.           *)
NextExtent(i) ==
    LET data == {j \in i..Len(extents) : IsData(extents[j])}
    IN  IF data = {} THEN Len(extents) + 1 ELSE Min(data)

StartExtent(i) ==
    /\ ext' = NextExtent(i)
    /\ entries' = <<>>
    /\ queue' = IF ext' > Len(extents) THEN <<>>
                ELSE RootRef(CSUM_TREE)
    /\ pc' = IF ext' > Len(extents) THEN "done" ELSE "csum"

ExtentsKnown ==
    /\ pc = "dev"
    /\ queue = <<>>
    /\ StartExtent(1)
    /\ emitted' = [i \in DOMAIN extents |-> <<>>]
    /\ UNCHANGED <<storeVars, shape, sb, map, found, roots, extents, cnt, reported, seen, missed>>

(* The sectors of the checksum items of a leaf that lie in the extent.     *)
SectorsIn(got, e) ==
    LET its == ItemSeq(got, EXTENT_CSUM)
        span(it) == [k \in 1..it.val |-> it.key[3] + k - 1]
        all == FlattenSeq([i \in DOMAIN its |-> span(its[i])])
    IN  Pick(all, {k \in DOMAIN all : e.chunk <= all[k] /\ all[k] < e.chunk + e.len})

(* Mutant: a node is counted again each time it is met.                    *)
CountEachTime(got) ==
    /\ cnt' = [c \in Counters |-> cnt[c] + IF Bumps(got)[c] THEN 1 ELSE 0]
    /\ UNCHANGED reported

(* Mutant: a node is noted as counted and the counter forgotten.           *)
CountForgotten(got) ==
    /\ reported' = [c \in Counters |-> IF Bumps(got)[c] THEN reported[c] \cup {Top.at}
                                       ELSE reported[c]]
    /\ UNCHANGED cnt

(* Here every failure is counted, once per node.                           *)
CountOnce(got) ==
    LET new == [c \in Counters |-> IF Bumps(got)[c] THEN {Top.at} \ reported[c] ELSE {}]
    IN  /\ reported' = [c \in Counters |-> reported[c] \cup new[c]]
        /\ cnt' = [c \in Counters |-> cnt[c] + Cardinality(new[c])]

WalkCsumTree ==
    /\ pc = "csum"
    /\ queue # <<>>
    /\ \E got \in {Got}, keys \in {RangeKeys(extents[ext])} :
         /\ queue' = Pop(queue, got, keys.lo, keys.hi)
         /\ entries' = entries \o SectorsIn(got, extents[ext])
         /\ CountOnce(got)
         /\ Note(got, CSUM_TREE, FALSE)
    /\ UNCHANGED <<storeVars, shape, pc, sb, map, found, roots, extents, ext, emitted>>

(* sort_unstable_by_key: by address (equal ones look the same).            *)
Sorted(s) ==
    LET rank(i) == Cardinality({j \in DOMAIN s : s[j] < s[i] \/ (s[j] = s[i] /\ j <= i)})
    IN  [k \in DOMAIN s |-> s[CHOOSE i \in DOMAIN s : rank(i) = k]]

(* The walk of an extent is over: its entries are sorted and emitted.      *)
RangeDone ==
    /\ pc = "csum"
    /\ queue = <<>>
    /\ emitted' = [emitted EXCEPT ![ext] = Sorted(entries)]
    /\ StartExtent(ext + 1)
    /\ UNCHANGED <<storeVars, shape, sb, map, found, roots, extents, cnt, reported, seen, missed>>

-----------------------------------------------------------------------------
(* The filesystem rewrites one leaf of a tree with another version of it.  *)
FsWriteNodes(t, i) ==
    /\ Len(Contents[t][i]) > 1
    /\ \E v \in DOMAIN Contents[t][i] :
         /\ Contents[t][i][v] # mem[t].leaf[i].items
         /\ WriteNodes([x \in {t} |-> [leaf |-> i, items |-> Contents[t][i][v]]], TRUE)
    /\ UNCHANGED scanVars

FsWriteSuper ==
    /\ WriteSuper
    /\ UNCHANGED scanVars

(* The chunk tree is one leaf, which no transaction rewrites.              *)
ChunkItems == LET at == Ascending({c.begin : c \in Chunks}) IN
    [i \in DOMAIN at |-> [key |-> <<256, CHUNK_ITEM, at[i]>>,
                          val |-> CHOOSE c \in Chunks : c.begin = at[i]]]
ScanNode(b) == IF b = ChunkRoot THEN Node(b, 1, 0, CHUNK_TREE, ChunkItems) ELSE InitNode(b)
NodesInUse == Used(InitTrees) \cup {ChunkRoot}

(* Bad from the start: any copies of one node, or two copies in one way.   *)
BadCopies ==
    LET used == UNION {Phys(b) : b \in NodesInUse}
    IN  BadCopiesOfOne(NodesInUse) \cup
        {[x \in {p, q} |-> k] : p \in used, q \in used, k \in BadKinds}

Init ==
    /\ \E bad \in BadCopies, badSupers \in SUBSET Superblocks :
           InitStore(Blocks \cup {ChunkRoot}, ScanNode, bad, badSupers)
    /\ shape \in Shapes
    /\ shape = "single" \/ budget = Trouble
    /\ pc = "super"
    /\ sb = SuperOf(mem)
    /\ map = {}
    /\ found = {}
    /\ roots = [t \in {FS_TREE, CSUM_TREE, DEV_TREE} |-> {}]
    /\ extents = <<>>
    /\ queue = <<>>
    /\ ext = 0
    /\ entries = <<>>
    /\ emitted = <<>>
    /\ cnt = [c \in Counters |-> 0]
    /\ reported = [c \in Counters |-> {}]
    /\ seen = {}
    /\ missed = FALSE

ScanStep ==
    \/ ReadSuper \/ WalkChunkTree \/ ChunksKnown \/ WalkRootTree \/ RootsKnown
    \/ WalkDevTree \/ ExtentsKnown \/ WalkCsumTree \/ RangeDone

Over == pc \in {"done", "failed"}

Next ==
    \/ ScanStep
    \/ ~Over /\ \E t \in DOMAIN Contents : \E i \in DOMAIN Contents[t] : FsWriteNodes(t, i)
    \/ ~Over /\ FsWriteSuper
    \/ Over /\ UNCHANGED vars

Spec == Init /\ [][Next]_vars

-----------------------------------------------------------------------------
(* Properties.                                                             *)

(* The types of the scan's variables.                                      *)
TypeOK ==
    /\ pc \in {"super", "chunk", "root", "dev", "csum", "done", "failed"}
    /\ budget \in 0..Trouble
    /\ map \subseteq Chunks /\ found \subseteq Chunks
    /\ \A t \in DOMAIN roots : roots[t] \subseteq Blocks \cup {0} /\ Cardinality(roots[t]) <= 1
    /\ \A i \in DOMAIN queue : queue[i].at \in Blocks \cup {ChunkRoot}
    /\ \A c \in Counters : cnt[c] \in Nat /\ Cardinality(reported[c]) <= cnt[c]
    /\ pc = "csum" => ext \in DOMAIN emitted
    /\ missed \in BOOLEAN

(* What there is to check: the data extents the device tree always has,    *)
(* and in each the sectors the checksum tree always has.                   *)
ExtentsOf(its) ==
    {[phys |-> it.key[3], chunk |-> it.val.chunk, len |-> it.val.len] :
        it \in {x \in Range(its) : x.key[1] = Devid /\ x.key[2] = DEV_EXTENT_KEY}}
AlwaysListed(i) ==
    {e \in ExtentsOf(Contents[DEV_TREE][i][1]) :
        \A v \in DOMAIN Contents[DEV_TREE][i] : e \in ExtentsOf(Contents[DEV_TREE][i][v])}
DataExtents ==
    {e \in UNION {AlwaysListed(i) : i \in DOMAIN Contents[DEV_TREE]} :
        \E c \in Chunks : c.data /\ c.begin <= e.chunk /\ e.chunk < c.end}
AlwaysHas(i, s) ==
    \A v \in DOMAIN Contents[CSUM_TREE][i] : \E it \in Range(Contents[CSUM_TREE][i][v]) :
        it.key[3] <= s /\ s < it.key[3] + it.val
Settled(e) == {s \in e.chunk..(e.chunk + e.len - 1) :
                  \E i \in DOMAIN Contents[CSUM_TREE] : AlwaysHas(i, s)}
Covered == \A e \in DataExtents : \E i \in DOMAIN extents :
               extents[i] = e /\ Settled(e) \subseteq Range(emitted[i])

(* A scan that ends with no header, read or stale count has handed every   *)
(* settled sector of every data extent to the scrub, whatever the device   *)
(* and the filesystem did meanwhile, unless it met one of the two losses   *)
(* that are counted nowhere: a stale node in a walk at open, or a tree     *)
(* root whose block holds another node by now.                             *)
GapsShown ==
    pc = "done" /\ ~missed /\ cnt["header"] + cnt["read"] + cnt["stale"] = 0 => Covered

(* No sector is emitted twice for a device extent, the sectors of an       *)
(* extent come in ascending order, and no extent is listed twice, although *)
(* blocks are reused while the walk holds pointers to them.                *)
EmittedOnce ==
    /\ IsInjective(extents)
    /\ \A i \in DOMAIN emitted : \A j, k \in DOMAIN emitted[i] :
           j < k => emitted[i][j] < emitted[i][k]

(* On an idle filesystem one good copy of every node and of the superblock *)
(* is enough: the scan does not fail, misses nothing and reports no error. *)
OneGoodCopy ==
    /\ mem[ROOT_TREE].top.gen = 1
    /\ shape = "single"
    /\ GoodSupers # {}
    /\ \A b \in NodesInUse : \E p \in Phys(b) : disk[p] = ScanNode(b)
MirrorsSuffice ==
    OneGoodCopy =>
        /\ pc # "failed"
        /\ pc = "done" => Covered /\ cnt["header"] + cnt["read"] + cnt["stale"] = 0

(* There every node with a copy that fails its checksum is counted, and    *)
(* once, though the checksum tree is walked again for every extent.        *)
MirrorsCounted ==
    OneGoodCopy /\ pc = "done" =>
        cnt["mirror"] = Cardinality({b \in NodesInUse : \E p \in Phys(b) : disk[p].kind # "node"})
                        + (IF 1 \in GoodSupers THEN 0 ELSE 1)

(* A walk never holds a pointer to a block it has read, nor two to one     *)
(* block, although its root is read unchecked and blocks change hands: it  *)
(* ends after at most as many reads as there are blocks.                   *)
ReadOnce ==
    /\ \A i, j \in DOMAIN queue : queue[i].at = queue[j].at => i = j
    /\ \A i \in DOMAIN queue : queue[i].exp # DontCheck => queue[i].at \notin seen

(* Every transaction reached the device as it was written.                 *)
NothingLost == budget = Trouble - (mem[ROOT_TREE].top.gen - 1)

(* The --help text of main.rs: checksum branches that go stale during the  *)
(* run are "skipped and counted in stale_csum_branches". So, for the       *)
(* extents the scan knows of, a missing sector comes with a count.         *)
CsumGapsCounted ==
    pc = "done" /\ cnt["header"] + cnt["read"] + cnt["stale"] = 0 /\ NothingLost
    => \A i \in DOMAIN extents :
           extents[i] \in DataExtents => Settled(extents[i]) \subseteq Range(emitted[i])

=============================================================================
