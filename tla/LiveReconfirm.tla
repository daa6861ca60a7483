----------------------------- MODULE LiveReconfirm -----------------------------
(***************************************************************************)
(* BtrfsReconfirmer: before a sector is repaired, its mismatch is judged   *)
(* again against the metadata as it is now. reconfirm reads the            *)
(* superblock, finds the roots of the extent and checksum trees (cached    *)
(* for a superblock generation), descends the extent tree to the item that *)
(* covers the sector and then the checksum tree to its checksum. One read  *)
(* is one step. In a freeze window the filesystem stands still; outside    *)
(* one (a dry run) it may commit between any two reads.                    *)
(*                                                                         *)
(* An extent item's val says whether it is NODATASUM, a checksum item's is *)
(* the sequence of its checksums. Leaf i of the two trees describes the    *)
(* same sectors, and a transaction moves both to another version. The      *)
(* device loses no write here: the descents check nothing of a node but    *)
(* its checksum, address and fsid, and would follow a copy left behind.    *)
(***************************************************************************)
EXTENDS MetadataStore

CONSTANTS
    Requests,     \* [token, stored]: a sector and the checksum the scan had for it
    MaxRequests   \* bound: requests in a behaviour

ASSUME ReconfirmAssumption ==
    /\ MaxRequests \in Nat
    /\ \A r \in Requests : r.token \in Nat
    /\ Len(RootLayout) = 1
    /\ {EXTENT_TREE, CSUM_TREE} \subseteq DOMAIN Contents \cap Range(RootLayout[1])
    /\ Len(Contents[EXTENT_TREE]) = Len(Contents[CSUM_TREE])
    /\ \A i \in DOMAIN Contents[EXTENT_TREE] :
          DOMAIN Contents[EXTENT_TREE][i] = DOMAIN Contents[CSUM_TREE][i]

MaxOffset == 1000000   \* u64::MAX

(* What an item of the two trees is, and how the next one follows it: keys *)
(* ascend, and neither extents nor checksums overlap.                      *)
IsItem(t, it) ==
    /\ it.key \in Nat \X Nat \X (0..MaxOffset)
    /\ t = CSUM_TREE => /\ it.key[1] = EXTENT_CSUM_OBJECTID /\ it.key[2] = EXTENT_CSUM
                        /\ Len(it.val) \in Nat
Follows(t, b, a) ==
    /\ KeyLess(a.key, b.key)
    /\ t = EXTENT_TREE /\ a.key[2] = EXTENT_ITEM /\ b.key[2] = EXTENT_ITEM
       => a.key[1] + a.key[3] <= b.key[1]
    /\ t = CSUM_TREE => a.key[3] + Len(a.val) <= b.key[3]

(* The items of a leaf are in order, and so are those of two leaves.       *)
InOrder(t, its) ==
    /\ IsSequence(its)
    /\ Len(its) > 0
    /\ \A x \in DOMAIN its : IsItem(t, its[x])
    /\ \A x, y \in DOMAIN its : x < y => Follows(t, its[y], its[x])
Before(t, its, jts) == \A x \in DOMAIN its, y \in DOMAIN jts : Follows(t, jts[y], its[x])

(* The trees are in order whatever version each leaf is at.                *)
ASSUME OrderAssumption ==
    \A t \in {EXTENT_TREE, CSUM_TREE} :
      /\ IsSequence(Contents[t])
      /\ \A i \in DOMAIN Contents[t] :
           /\ 1 \in DOMAIN Contents[t][i]
           /\ \A v \in DOMAIN Contents[t][i] :
                /\ InOrder(t, Contents[t][i][v])
                /\ \A j \in DOMAIN Contents[t] : \A w \in DOMAIN Contents[t][j] :
                      i < j => Before(t, Contents[t][i][v], Contents[t][j][w])

VARIABLES
    frozen,    \* the writer holds a freeze window
    left,      \* requests still to come
    pc,        \* super, walk, cover, csum, or judged: no request in hand
    req,       \* the request
    sb,        \* the superblock read for it
    cached,    \* cached_roots: [gen, ext, csum], or none
    roots,     \* the roots in use
    queue,     \* the walk of the root tree
    at,        \* the node a descent reads next
    depth,     \* nodes read by the descent
    verdict,   \* corruption, stale or unverifiable
    counted,   \* a metadata counter has been bumped
    steady     \* history: the request in hand was asked in the present window

lookVars == <<frozen, left, pc, req, sb, cached, roots, queue, at, depth, verdict, counted,
              steady>>
vars     == <<storeVars, lookVars>>

NoRoots   == [gen |-> -1, ext |-> -1, csum |-> -1]
MaxDepth  == 16

Judge(v) ==
    /\ verdict' = v
    /\ pc' = "judged"

-----------------------------------------------------------------------------
(* The writer asks, with the filesystem frozen or not.                     *)

Ask(r) ==
    /\ pc = "judged"
    /\ left > 0
    /\ left' = left - 1
    /\ req' = r
    /\ pc' = "super"
    /\ steady' = frozen
    /\ UNCHANGED <<storeVars, frozen, sb, cached, roots, queue, at, depth, verdict, counted>>

(* FIFREEZE returns once the filesystem has committed.                     *)
Freeze ==
    /\ pc = "judged"
    /\ left > 0
    /\ ~frozen
    /\ mem = committed
    /\ frozen' = TRUE
    /\ UNCHANGED <<storeVars, left, pc, req, sb, cached, roots, queue, at, depth, verdict, counted,
                   steady>>

Thaw ==
    /\ pc = "judged"
    /\ left > 0
    /\ frozen
    /\ frozen' = FALSE
    /\ steady' = FALSE
    /\ UNCHANGED <<storeVars, left, pc, req, sb, cached, roots, queue, at, depth, verdict, counted>>

-----------------------------------------------------------------------------
(* The roots.                                                              *)

(* Mutant: the cache is used whatever the generation.                      *)
CachedRootsAnyGen(gen) == cached # NoRoots

(* cached_roots_at: the cache holds for exactly its generation.            *)
CachedRootsAt(gen) == cached # NoRoots /\ cached.gen = gen

(* read_live_superblock, then the cache or a walk of the root tree.        *)
ReadLiveSuper ==
    /\ pc = "super"
    /\ IF GoodSupers = {}
       THEN /\ Judge("unverifiable")
            /\ counted' = TRUE
            /\ UNCHANGED <<sb, roots, queue, at>>
       ELSE /\ sb' = read_superblock
            /\ IF CachedRootsAt(sb'.gen)
               THEN /\ roots' = cached
                    /\ at' = cached.ext
                    /\ pc' = "cover"
                    /\ UNCHANGED queue
               ELSE /\ queue' = <<Ref(sb'.root, DontCheck)>>
                    /\ roots' = NoRoots
                    /\ pc' = "walk"
                    /\ UNCHANGED at
            /\ UNCHANGED <<verdict, counted>>
    /\ depth' = 0
    /\ UNCHANGED <<storeVars, frozen, left, req, cached, steady>>

(* Mutant: the end of the walk is taken for its success.                   *)
RootsFoundAny(r) == r # NoRoots

RootsFound(r) == r.ext # -1 /\ r.csum # -1

(* resolve_live_tree_roots: the walk is left early once both roots are     *)
(* found. A stale node is passed over in silence, any other failure is     *)
(* counted.                                                                *)
WalkLiveRoots ==
    /\ pc = "walk"
    /\ queue # <<>>
    /\ \E got \in {read_node(Chunks, Last(queue).at, Last(queue).exp)} :
         LET its == ItemsOf(got, ROOT_ITEM)
             bytenr(t, old) == IF \E it \in its : it.key[1] = t
                               THEN (CHOOSE it \in its : it.key[1] = t).val
                               ELSE old
             new == [gen |-> sb.gen, ext |-> bytenr(EXTENT_TREE, roots.ext),
                     csum |-> bytenr(CSUM_TREE, roots.csum)]
         IN  /\ roots' = new
             /\ queue' = IF RootsFound(new) THEN <<>>
                         ELSE Pop(queue, got, MinKey, MaxKey)
             /\ counted' = (\/ counted
                            \/ got.read_error
                            \/ got.all_mirrors_failed
                            \/ Fine(got) /\ got.mirror_mismatch)
    /\ UNCHANGED <<storeVars, frozen, left, pc, req, sb, cached, at, depth, verdict, steady>>

(* Mutant: the roots are cached for the generation of the moment.          *)
CacheUnderNow == cached' = [roots EXCEPT !.gen = read_superblock.gen]

(* The roots are cached for the generation they were asked at.             *)
CacheRoots == cached' = roots

RootsResolved ==
    /\ pc = "walk"
    /\ queue = <<>>
    /\ IF RootsFound(roots)
       THEN /\ CacheRoots
            /\ at' = roots.ext
            /\ pc' = "cover"
            /\ UNCHANGED <<verdict, counted>>
       ELSE /\ Judge("unverifiable")
            /\ counted' = TRUE
            /\ UNCHANGED <<cached, at>>
    /\ UNCHANGED <<storeVars, frozen, left, req, sb, roots, queue, depth, steady>>

-----------------------------------------------------------------------------
(* The descents, one node per step.                                        *)

(* partition_point: how many keys of a node are at or before the target.   *)
UpTo(node, target) == Cardinality({i \in DOMAIN node.items : KeyLeq(node.items[i].key, target)})

CoverTarget(s) == <<s, EXTENT_ITEM, MaxOffset>>
CsumTarget(s)  == <<EXTENT_CSUM_OBJECTID, EXTENT_CSUM, s>>

(* The extent item at or before the target in this leaf, and whether it    *)
(* covers the sector.                                                      *)
Cover(node, s) ==
    LET its  == node.items
        here == {i \in 1..UpTo(node, CoverTarget(s)) : its[i].key[2] = EXTENT_ITEM}
        it   == its[Max(here)]
    IN  IF here = {} \/ it.key[1] + it.key[3] <= s THEN "hole"
        ELSE IF it.val.nodatasum THEN "nodatasum" ELSE "live"

(* One step of a descent to a target: a node that cannot be read ends it,  *)
(* an internal node leads on or, before its first key, to none; a node of  *)
(* whatever generation, level or owner is taken.                           *)
Descend(target, none, AtEnd(_)) ==
    \E got \in {read_node(Chunks, at, DontCheck)} :
        IF depth = MaxDepth \/ got.read_error \/ got.all_mirrors_failed
        THEN Judge("unverifiable") /\ UNCHANGED <<at, depth>>
        ELSE IF got.node.level = 0 THEN AtEnd(got.node)
        ELSE IF UpTo(got.node, target) = 0 THEN Judge(none) /\ UNCHANGED <<at, depth>>
        ELSE /\ at' = got.node.items[UpTo(got.node, target)].val.at
             /\ depth' = depth + 1
             /\ UNCHANGED <<pc, verdict>>

(* extent_covers.                                                          *)
ExtentCovers ==
    /\ pc = "cover"
    /\ Descend(CoverTarget(req.token), "stale", LAMBDA leaf :
         IF Cover(leaf, req.token) = "live"
         THEN /\ pc' = "csum"
              /\ at' = roots.csum
              /\ depth' = 0
              /\ UNCHANGED verdict
         ELSE Judge("stale") /\ UNCHANGED <<at, depth>>)
    /\ UNCHANGED <<storeVars, frozen, left, req, sb, cached, roots, queue, counted, steady>>

(* The checksum in this leaf, from the last item at or before the sector.  *)
LiveCsum(node, s) ==
    LET n  == UpTo(node, CsumTarget(s))
        it == node.items[n]
    IN  IF n = 0 THEN {}
        ELSE IF it.key[2] # EXTENT_CSUM \/ s >= it.key[3] + Len(it.val) THEN {}
        ELSE {it.val[s - it.key[3] + 1]}

(* csum_at, and the comparison in reconfirm_mismatch.                      *)
CsumAt ==
    /\ pc = "csum"
    /\ Descend(CsumTarget(req.token), "stale", LAMBDA leaf :
         /\ Judge(IF LiveCsum(leaf, req.token) = {req.stored} THEN "corruption" ELSE "stale")
         /\ UNCHANGED <<at, depth>>)
    /\ UNCHANGED <<storeVars, frozen, left, req, sb, cached, roots, queue, counted, steady>>

-----------------------------------------------------------------------------
(* The filesystem: leaf i of both trees goes to another version.           *)
FsWriteNodes(i, v) ==
    /\ ~frozen
    /\ Contents[EXTENT_TREE][i][v] # mem[EXTENT_TREE].leaf[i].items
       \/ Contents[CSUM_TREE][i][v] # mem[CSUM_TREE].leaf[i].items
    /\ WriteNodes([t \in {EXTENT_TREE, CSUM_TREE} |-> [leaf |-> i, items |-> Contents[t][i][v]]],
                  FALSE)
    /\ UNCHANGED lookVars

FsWriteSuper ==
    /\ ~frozen
    /\ WriteSuper
    /\ UNCHANGED lookVars

Init ==
    /\ \E bad \in BadCopiesOfOne(Used(InitTrees)), badSupers \in SUBSET Superblocks :
           InitStore(Blocks, InitNode, bad, badSupers)
    /\ frozen = FALSE
    /\ left = MaxRequests
    /\ pc = "judged"
    /\ req = CHOOSE r \in Requests : TRUE
    /\ sb = SuperOf(mem)
    /\ cached = NoRoots
    /\ roots = NoRoots
    /\ queue = <<>>
    /\ at = -1
    /\ depth = 0
    /\ verdict = "unverifiable"
    /\ counted = FALSE
    /\ steady = FALSE

Reconfirm == ReadLiveSuper \/ WalkLiveRoots \/ RootsResolved \/ ExtentCovers \/ CsumAt
AllAsked == pc = "judged" /\ left = 0

Next ==
    \/ Reconfirm
    \/ \E r \in Requests : Ask(r)
    \/ Freeze
    \/ Thaw
    \/ ~AllAsked /\ \E i \in DOMAIN Contents[EXTENT_TREE] :
           \E v \in DOMAIN Contents[EXTENT_TREE][i] : FsWriteNodes(i, v)
    \/ ~AllAsked /\ FsWriteSuper
    \/ AllAsked /\ UNCHANGED vars

Spec == Init /\ [][Next]_vars

-----------------------------------------------------------------------------
(* Properties.                                                             *)

(* The types of the variables; a cached pair of roots is complete, and a   *)
(* descent is always at a block of the filesystem.                         *)
TypeOK ==
    /\ pc \in {"super", "walk", "cover", "csum", "judged"}
    /\ verdict \in {"corruption", "stale", "unverifiable"}
    /\ left \in 0..MaxRequests
    /\ depth \in 0..MaxDepth
    /\ frozen \in BOOLEAN /\ counted \in BOOLEAN /\ steady \in BOOLEAN
    /\ cached # NoRoots => {cached.ext, cached.csum} \subseteq Blocks
    /\ pc \in {"cover", "csum"} => at \in Blocks
    /\ steady => frozen

(* What the committed trees say of a request, looked up in all the items.  *)
Items(t) == UNION {Range(committed[t].leaf[i].items) : i \in DOMAIN committed[t].leaf}
Covers(it, s) == it.key[2] = EXTENT_ITEM /\ it.key[1] <= s /\ s < it.key[1] + it.key[3]
Truth(r) ==
    IF /\ \E it \in Items(EXTENT_TREE) : Covers(it, r.token) /\ ~it.val.nodatasum
       /\ \E it \in Items(CSUM_TREE) :
             /\ it.key[3] <= r.token
             /\ r.token < it.key[3] + Len(it.val)
             /\ it.val[r.token - it.key[3] + 1] = r.stored
    THEN "corruption" ELSE "stale"

(* The covering extent item ends one leaf and an item of the same extent   *)
(* begins the next: the descent goes to the next leaf.                     *)
LeafEdge(s) ==
    LET leaf == committed[EXTENT_TREE].leaf IN
    \E i \in 1..(Len(leaf) - 1) :
        /\ \E it \in Range(leaf[i].items) : Covers(it, s)
        /\ KeyLeq(leaf[i + 1].items[1].key, CoverTarget(s))

(* The superblock and every node in use have a good copy.                  *)
Readable ==
    /\ GoodSupers # {}
    /\ \A b \in Used(committed) : NodeAt(committed, b) \in {disk[p] : p \in Phys(b)}

(* A node of another filesystem stands where a node should be, in all the  *)
(* copies that verify: the descents follow it.                             *)
Impostor == \E b \in Used(committed) :
    /\ NodeAt(committed, b) \notin {disk[p] : p \in Phys(b)}
    /\ Foreign \in {disk[p] : p \in Phys(b)}

(* A verdict reached in a freeze window is the truth about the committed   *)
(* trees or no verdict, and it is a verdict when every node has one good   *)
(* copy, whatever was committed since the roots were cached; except for a  *)
(* sector at a leaf edge, and for nodes that are not this filesystem's.    *)
VerdictLive ==
    pc = "judged" /\ steady /\ ~LeafEdge(req.token) /\ ~Impostor
    => /\ verdict \in {Truth(req), "unverifiable"}
       /\ Readable => verdict = Truth(req)

(* Roots cached for the generation the superblock now has are the roots    *)
(* it leads to, although outside a freeze window the root tree is walked   *)
(* after the superblock was read and may be another's by then.             *)
CacheFresh ==
    GoodSupers # {} /\ cached.gen = read_superblock.gen
    => /\ cached.ext = committed[EXTENT_TREE].top.at
       /\ cached.csum = committed[CSUM_TREE].top.at

(* The --help text of main.rs: stale is "benign churn", and "Re-confirm    *)
(* proved it was never genuine corruption". So a mismatch the committed    *)
(* trees still confirm is never judged stale, with the filesystem frozen   *)
(* and every node readable.                                                *)
StaleIsBenign ==
    pc = "judged" /\ steady /\ Readable /\ verdict = "stale"
    => Truth(req) = "stale"

=============================================================================
