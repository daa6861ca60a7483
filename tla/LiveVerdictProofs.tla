--------------------------- MODULE LiveVerdictProofs ---------------------------
(***************************************************************************)
(* Proofs about LiveReconfirm, continued: for trees of any number of       *)
(* leaves and items, any trouble on the device and any number of requests, *)
(* a verdict reached in a freeze window is the truth about the committed   *)
(* trees.                                                                  *)
(***************************************************************************)
EXTENDS LiveReconfirmProofs, FiniteSetTheorems

-----------------------------------------------------------------------------
(* The inductive invariant.                                                *)

Width(t) == Len(Contents[t])

(* One of the two trees: leaves of some version each, at blocks of their   *)
(* own, and a top that is the leaf where there is one leaf.                *)
TreeOK(t, tree) ==
    /\ tree.leaf = [i \in 1..Width(t) |-> tree.leaf[i]]
    /\ tree.top.at \in Blocks
    /\ \A i \in 1..Width(t) :
         /\ tree.leaf[i].at \in Blocks
         /\ \E v \in DOMAIN Contents[t][i] : tree.leaf[i].items = Contents[t][i][v]
         /\ \A j \in 1..Width(t) : tree.leaf[i].at = tree.leaf[j].at => i = j
         /\ tree.top.at = tree.leaf[i].at <=> Width(t) = 1

(* Neither of them shares a block with any other tree, and every copy of   *)
(* their nodes is that node, or bad.                                       *)
Apart(trees) ==
    \A t \in Looked : \A u \in DOMAIN trees :
        t # u => NodesOf(trees[t]) \cap NodesOf(trees[u]) = {}
OnDisk(trees) ==
    \A t \in Looked : \A b \in NodesOf(trees[t]) : \A p \in Phys(b) :
        disk[p] \in BadKinds \cup {NodeOf(t, trees[t], b)}
Sound(trees) == (\A t \in Looked : TreeOK(t, trees[t])) /\ Apart(trees) /\ OnDisk(trees)
TreesOK == Sound(mem) /\ Sound(committed)

(* The leaf a descent to a target ends at: the last one that begins at or  *)
(* before it, or the first.                                                *)
FirstKey(t, i) == committed[t].leaf[i].items[1].key
Chosen(t, target, n) ==
    \A i \in 1..Width(t) : /\ KeyLeq(FirstKey(t, i), target) => i <= n
                           /\ 1 < i /\ i <= n => KeyLeq(FirstKey(t, i), target)
Reached(t, target) ==
    \/ depth = 0 /\ at = committed[t].top.at
    \/ depth = 1 /\ \E n \in 1..Width(t) : at = committed[t].leaf[n].at /\ Chosen(t, target, n)

(* The two halves of Truth.                                                *)
IsLive(s) == \E it \in Items(EXTENT_TREE) : Covers(it, s) /\ ~it.val.nodatasum
Sums(it, s, c) ==
    /\ it.key[3] <= s
    /\ s < it.key[3] + Len(it.val)
    /\ it.val[s - it.key[3] + 1] = c
IsStored(r) == \E it \in Items(CSUM_TREE) : Sums(it, r.token, r.stored)

(* How far a request has come in a freeze window.                          *)
Calm == steady /\ ~LeafEdge(req.token) /\ ~Impostor
WindowOK == (steady => frozen /\ req \in Requests) /\ (frozen => mem = committed)
RootsOK ==
    steady =>
      /\ pc \in {"walk", "cover", "csum"} => sb.gen = Gen(committed)
      /\ pc = "walk" => depth = 0 /\ (queue = <<>> /\ Readable => RootsFound(roots))
      /\ pc \in {"cover", "csum"} => /\ roots.ext = committed[EXTENT_TREE].top.at
                                     /\ roots.csum = committed[CSUM_TREE].top.at
DescentOK ==
    Calm =>
      /\ pc = "cover" => Reached(EXTENT_TREE, CoverTarget(req.token))
      /\ pc = "csum" => Reached(CSUM_TREE, CsumTarget(req.token)) /\ IsLive(req.token)

VInv == TreesOK /\ WindowOK /\ RootsOK /\ DescentOK /\ VerdictLive

-----------------------------------------------------------------------------
(* Keys in order.                                                          *)

Keys == Nat \X Nat \X Nat

(* The order of keys is transitive.                                        *)
LEMMA KeyOrder ==
    ASSUME NEW a \in Keys, NEW b \in Keys, NEW c \in Keys, KeyLess(a, b), KeyLeq(b, c)
    PROVE  KeyLeq(a, c)
<1>1. /\ a[1] \in Nat /\ a[2] \in Nat /\ a[3] \in Nat
      /\ b[1] \in Nat /\ b[2] \in Nat /\ b[3] \in Nat
      /\ c[1] \in Nat /\ c[2] \in Nat /\ c[3] \in Nat
  BY DEF Keys
<1>2. CASE b = c
  BY <1>2 DEF KeyLeq
<1>3. CASE KeyLess(b, c)
  BY <1>1, <1>3 DEF KeyLess, KeyLeq
<1> QED
  BY <1>2, <1>3 DEF KeyLeq

(* Two keys with the same parts are the same key.                          *)
LEMMA KeySame ==
    ASSUME NEW a \in Keys, NEW b \in Keys, a[1] = b[1], a[2] = b[2], a[3] = b[3]
    PROVE  a = b
  BY SMT DEF Keys

(* A set of positive numbers with a bound has a largest element.           *)
LEMMA MaxIn ==
    ASSUME NEW m \in Nat, NEW T \in SUBSET (1..m), T # {}
    PROVE  Max(T) \in T /\ \A y \in T : y <= Max(T)
<1> DEFINE D == {m - x : x \in T}
<1>1. D \in SUBSET Nat /\ D # {}
  <2>1. \A x \in T : m - x \in Nat
    OBVIOUS
  <2>2. D \subseteq Nat
    BY <2>1
  <2> QED
    BY <2>2, Zenon
<1>2. PICK d \in D : \A y \in D : ~(<<y, d>> \in OpToRel(<, Nat))
  BY <1>1, NatLessThanWellFounded, WFMin
<1>3. \A y \in D : d <= y
  <2> HIDE DEF D
  <2>1. \A y \in D : ~(y < d)
    BY <1>1, <1>2 DEF OpToRel
  <2> QED
    BY <1>1, <2>1
<1>4. PICK x \in T : d = m - x
  OBVIOUS
<1>5. \A y \in T : x >= y
  <2> SUFFICES ASSUME NEW y \in T PROVE x >= y
    OBVIOUS
  <2>1. m - y \in D
    OBVIOUS
  <2>2. m - x <= m - y
    BY <1>3, <1>4, <2>1
  <2> QED
    BY <2>2
<1>6. Max(T) \in T /\ \A y \in T : Max(T) >= y
  BY <1>5 DEF Max
<1> QED
  BY <1>6

(* Where a set of positions holds with a position all before it, its size  *)
(* is its last position.                                                   *)
LEMMA Prefix ==
    ASSUME NEW m \in Nat, NEW S \in SUBSET (1..m),
           \A x \in S : \A y \in 1..m : y < x => y \in S
    PROVE  Cardinality(S) \in 0..m /\ S = 1..Cardinality(S)
<1>1. CASE S = {}
  BY <1>1, FS_EmptySet
<1>2. CASE S # {}
  <2>1. Max(S) \in S /\ \A y \in S : y <= Max(S)
    BY <1>2, MaxIn
  <2> DEFINE n == Max(S)
  <2>2. n \in 1..m
    BY <2>1
  <2>3. S = 1..n
    <3> HIDE DEF n
    <3>1. n \in S /\ \A y \in S : y <= n
      BY <2>1 DEF n
    <3>2. \A y \in 1..n : y \in S
      BY <2>2, <3>1
    <3>3. \A y \in S : y \in 1..n
      BY <2>2, <3>1
    <3> QED
      BY <3>2, <3>3
  <2> HIDE DEF n
  <2>4. Cardinality(1..n) = n
    BY <2>2, FS_Interval
  <2> QED
    BY <2>2, <2>3, <2>4
<1> QED
  BY <1>1, <1>2

(* partition_point: in a node whose keys ascend, the keys counted are the  *)
(* ones up to that position.                                               *)
LEMMA PartitionPoint ==
    ASSUME NEW m \in Nat, NEW node, DOMAIN node.items = 1..m,
           \A x \in 1..m : node.items[x].key \in Keys,
           \A x, y \in 1..m : x < y => KeyLess(node.items[x].key, node.items[y].key),
           NEW target \in Keys
    PROVE  /\ UpTo(node, target) \in 0..m
           /\ \A x \in 1..m : KeyLeq(node.items[x].key, target) <=> x <= UpTo(node, target)
<1> DEFINE S == {i \in DOMAIN node.items : KeyLeq(node.items[i].key, target)}
<1>1. S \in SUBSET (1..m)
  OBVIOUS
<1>2. \A x \in S : \A y \in 1..m : y < x => y \in S
  BY KeyOrder
<1>3. UpTo(node, target) = Cardinality(S)
  BY DEF UpTo
<1>4. Cardinality(S) \in 0..m /\ S = 1..Cardinality(S)
  <2> HIDE DEF S
  <2> QED
    BY <1>1, <1>2, Prefix
<1>5. \A x \in 1..m : x \in S <=> KeyLeq(node.items[x].key, target)
  OBVIOUS
<1> HIDE DEF S
<1> QED
  BY <1>3, <1>4, <1>5

-----------------------------------------------------------------------------
(* Looking up in a leaf.                                                   *)

(* A version of leaf i of one of the trees.                                *)
IsVersion(t, i, its) == i \in 1..Width(t) /\ \E v \in DOMAIN Contents[t][i] : its = Contents[t][i][v]

LEMMA LimitIsNat == MaxOffset \in Nat
  BY SMT DEF MaxOffset

(* What OrderAssumption says of the items of a leaf and of two leaves.     *)
LEMMA LeafOrder ==
    ASSUME NEW t \in Looked, NEW i, NEW its, IsVersion(t, i, its)
    PROVE  /\ Len(its) \in Nat /\ Len(its) > 0 /\ DOMAIN its = 1..Len(its)
           /\ \A x \in DOMAIN its :
                 /\ IsItem(t, its[x])
                 /\ its[x].key \in Keys
                 /\ its[x].key[1] \in Nat /\ its[x].key[3] \in 0..MaxOffset
                 /\ \A y \in DOMAIN its : x < y => Follows(t, its[y], its[x])
           /\ \A j, jts : IsVersion(t, j, jts) /\ i < j =>
                 \A x \in DOMAIN its, y \in DOMAIN jts : Follows(t, jts[y], its[x])
<1>1. PICK v \in DOMAIN Contents[t][i] : its = Contents[t][i][v]
  BY DEF IsVersion
<1>2. DOMAIN Contents[t] = 1..Width(t) /\ i \in DOMAIN Contents[t]
  BY OrderAssumption DEF IsVersion, Looked, IsSequence, Width
<1>3. /\ InOrder(t, its)
      /\ \A j \in DOMAIN Contents[t] : \A w \in DOMAIN Contents[t][j] :
           i < j => Before(t, its, Contents[t][j][w])
  BY <1>1, <1>2, OrderAssumption DEF Looked
<1>4. \A x \in DOMAIN its :
        /\ its[x].key \in Keys
        /\ its[x].key[1] \in Nat /\ its[x].key[3] \in 0..MaxOffset
  <2>1. \A x \in DOMAIN its : its[x].key \in Nat \X Nat \X (0..MaxOffset)
    BY <1>3, SMT DEF InOrder, IsItem
  <2>2. ASSUME NEW k \in Nat \X Nat \X (0..MaxOffset)
        PROVE  /\ k \in Nat \X Nat \X Nat
               /\ k[1] \in Nat /\ k[3] \in 0..MaxOffset
    BY <2>2, LimitIsNat, SMT
  <2> QED
    BY <2>1, <2>2, SMT DEF Keys
<1>5. ASSUME NEW j, NEW jts, IsVersion(t, j, jts), i < j
      PROVE  Before(t, its, jts)
  BY <1>2, <1>3, <1>5 DEF IsVersion
<1> QED
  BY <1>3, <1>4, <1>5 DEF InOrder, IsSequence, Before

(* How many items of a leaf are at or before a target.                     *)
LEMMA LeafUpTo ==
    ASSUME NEW t \in Looked, NEW i, NEW node, IsVersion(t, i, node.items), NEW target \in Keys
    PROVE  /\ UpTo(node, target) \in 0..Len(node.items)
           /\ \A x \in DOMAIN node.items :
                 KeyLeq(node.items[x].key, target) <=> x <= UpTo(node, target)
<1> DEFINE its == node.items
<1>1. /\ Len(its) \in Nat /\ DOMAIN its = 1..Len(its)
      /\ \A x \in DOMAIN its : its[x].key \in Keys
      /\ \A x, y \in DOMAIN its : x < y => KeyLess(its[x].key, its[y].key)
  BY LeafOrder DEF Follows
<1> QED
  BY <1>1, PartitionPoint

(* The targets are keys.                                                   *)
LEMMA CoverTargetIsKey == ASSUME NEW s \in Nat PROVE CoverTarget(s) \in Keys
  BY LimitIsNat, SMT DEF CoverTarget, Keys, EXTENT_ITEM

LEMMA CsumTargetIsKey == ASSUME NEW s \in Nat PROVE CsumTarget(s) \in Keys
  BY DEF CsumTarget, Keys, EXTENT_CSUM, EXTENT_CSUM_OBJECTID

(* An item that covers a sector is at or before the target.                *)
LEMMA CoveringIsBefore ==
    ASSUME NEW i, NEW its, IsVersion(EXTENT_TREE, i, its), NEW x \in DOMAIN its,
           NEW s \in Nat, Covers(its[x], s)
    PROVE  KeyLeq(its[x].key, CoverTarget(s))
<1> DEFINE k == its[x].key
<1>1. /\ k \in Keys /\ k[1] \in Nat /\ k[3] \in 0..MaxOffset
      /\ k[2] = EXTENT_ITEM /\ k[1] <= s
  BY LeafOrder DEF Looked, Covers
<1> HIDE DEF k
<1>2. CASE k[1] = s /\ k[3] = MaxOffset
  <2> DEFINE target == CoverTarget(s)
  <2>1. target[1] = s /\ target[2] = EXTENT_ITEM /\ target[3] = MaxOffset /\ target \in Keys
    BY CoverTargetIsKey DEF CoverTarget
  <2> HIDE DEF target
  <2>2. k = target
    BY <1>1, <1>2, <2>1, KeySame
  <2> QED
    BY <2>2 DEF KeyLeq, target, k
<1>3. CASE ~(k[1] = s /\ k[3] = MaxOffset)
  <2>1. k[1] < s \/ (k[1] = s /\ k[3] < MaxOffset)
    BY <1>1, <1>3, LimitIsNat
  <2>2. KeyLess(k, CoverTarget(s))
    BY <1>1, <2>1 DEF KeyLess, CoverTarget
  <2> QED
    BY <2>2 DEF KeyLeq, k
<1> QED
  BY <1>2, <1>3

(* The item that covers a sector, if any, is the last extent item at or    *)
(* before the target of the descent.                                       *)
LEMMA CoverRight ==
    ASSUME NEW i, NEW node, IsVersion(EXTENT_TREE, i, node.items), NEW s \in Nat
    PROVE  Cover(node, s) = "live" <=>
             \E x \in DOMAIN node.items :
                Covers(node.items[x], s) /\ ~node.items[x].val.nodatasum
<1> DEFINE its    == node.items
           m      == Len(its)
           target == CoverTarget(s)
           n      == UpTo(node, target)
           here   == {k \in 1..n : its[k].key[2] = EXTENT_ITEM}
           last   == Max(here)
<1>1. /\ m \in Nat /\ DOMAIN its = 1..m
      /\ \A x, y \in 1..m : x < y => Follows(EXTENT_TREE, its[y], its[x])
  BY LeafOrder DEF Looked
<1>2. target \in Keys
  BY CoverTargetIsKey
<1>3. n \in 0..m /\ \A x \in 1..m : KeyLeq(its[x].key, target) <=> x <= n
  BY <1>1, <1>2, LeafUpTo DEF Looked
<1>4. Cover(node, s) = IF here = {} \/ its[last].key[1] + its[last].key[3] <= s THEN "hole"
                       ELSE IF its[last].val.nodatasum THEN "nodatasum" ELSE "live"
  BY DEF Cover
<1>5. here \subseteq 1..m /\ \A k \in here : k <= n /\ its[k].key[2] = EXTENT_ITEM
  BY <1>3
<1>6. here # {} => last \in here /\ \A y \in here : y <= last
  BY <1>1, <1>5, MaxIn
<1>7. ASSUME NEW x \in 1..m
      PROVE  /\ its[x].key[1] \in Nat /\ its[x].key[3] \in 0..MaxOffset
  BY <1>1, LeafOrder DEF Looked
<1>8. ASSUME NEW x \in here PROVE its[x].key[1] <= s
  <2>1. KeyLeq(its[x].key, target) /\ its[x].key[1] \in Nat
    BY <1>3, <1>5, <1>7
  <2> QED
    BY <2>1 DEF KeyLeq, KeyLess, CoverTarget
<1>9. ASSUME NEW x \in 1..m, Covers(its[x], s) PROVE x \in here
  <2>1. KeyLeq(its[x].key, target)
    BY <1>1, <1>9, CoveringIsBefore
  <2> QED
    BY <1>3, <1>9, <2>1 DEF Covers
<1> HIDE DEF here, n, target
<1>10. ASSUME NEW x \in 1..m, Covers(its[x], s) PROVE x = last
  <2>1. x \in here /\ last \in here /\ x <= last /\ last \in 1..m
    BY <1>5, <1>6, <1>9, <1>10
  <2>2. ASSUME x < last PROVE FALSE
    <3>1. Follows(EXTENT_TREE, its[last], its[x])
      BY <1>1, <2>1, <2>2
    <3>2. its[x].key[1] + its[x].key[3] <= its[last].key[1]
      BY <1>5, <2>1, <3>1 DEF Follows
    <3>3. its[last].key[1] <= s /\ s < its[x].key[1] + its[x].key[3]
      BY <1>8, <1>10, <2>1 DEF Covers
    <3>4. its[last].key[1] \in Nat /\ its[x].key[1] \in Nat /\ its[x].key[3] \in Nat
      BY <1>7, <2>1
    <3> HIDE DEF its, last
    <3> QED
      BY <3>2, <3>3, <3>4
  <2> QED
    BY <2>1, <2>2
<1>11. ASSUME Cover(node, s) = "live"
       PROVE  \E x \in 1..m : Covers(its[x], s) /\ ~its[x].val.nodatasum
  <2>1. here # {} /\ ~(its[last].key[1] + its[last].key[3] <= s) /\ ~its[last].val.nodatasum
    BY <1>4, <1>11
  <2>2. last \in here /\ last \in 1..m /\ its[last].key[2] = EXTENT_ITEM
    BY <1>5, <1>6, <2>1
  <2>3. Covers(its[last], s)
    BY <1>7, <1>8, <2>1, <2>2 DEF Covers
  <2> QED
    BY <2>1, <2>2, <2>3
<1>12. ASSUME NEW x \in 1..m, Covers(its[x], s), ~its[x].val.nodatasum
       PROVE  Cover(node, s) = "live"
  <2>1. x = last /\ here # {}
    BY <1>9, <1>10, <1>12
  <2>2. ~(its[last].key[1] + its[last].key[3] <= s)
    BY <1>7, <1>12, <2>1 DEF Covers
  <2> QED
    BY <1>4, <1>12, <2>1, <2>2
<1> QED
  BY <1>1, <1>11, <1>12

(* Among keys of checksum items the offset decides.                        *)
LEMMA TargetOrder ==
    ASSUME NEW k \in Keys, NEW s \in Nat, CsumTarget(s) \in Keys,
           k[1] = EXTENT_CSUM_OBJECTID, k[2] = EXTENT_CSUM
    PROVE  k[3] <= s <=> KeyLeq(k, CsumTarget(s))
<1> DEFINE target == CsumTarget(s)
<1>1. target[1] = EXTENT_CSUM_OBJECTID /\ target[2] = EXTENT_CSUM /\ target[3] = s
  BY DEF CsumTarget
<1>2. k[3] \in Nat
  BY DEF Keys
<1> HIDE DEF target
<1>3. k[3] = s => k = target
  BY <1>1, KeySame DEF target
<1>4. KeyLess(k, target) <=> k[3] < s
  BY <1>1, <1>2 DEF KeyLess, EXTENT_CSUM, EXTENT_CSUM_OBJECTID
<1> QED
  BY <1>1, <1>2, <1>3, <1>4 DEF KeyLeq, target

(* The checksum of a sector, if any, is in the last item at or before it.  *)
LEMMA CsumRight ==
    ASSUME NEW i, NEW node, IsVersion(CSUM_TREE, i, node.items), NEW s \in Nat, NEW c
    PROVE  LiveCsum(node, s) = {c} <=> \E x \in DOMAIN node.items : Sums(node.items[x], s, c)
<1> DEFINE its    == node.items
           m      == Len(its)
           target == CsumTarget(s)
           n      == UpTo(node, target)
<1>1. /\ m \in Nat /\ DOMAIN its = 1..m
      /\ \A x, y \in 1..m : x < y => Follows(CSUM_TREE, its[y], its[x])
  BY LeafOrder DEF Looked
<1>2. target \in Keys
  BY CsumTargetIsKey
<1>3. n \in 0..m /\ \A x \in 1..m : KeyLeq(its[x].key, target) <=> x <= n
  BY <1>1, <1>2, LeafUpTo DEF Looked
<1>4. ASSUME NEW x \in 1..m
      PROVE  /\ its[x].key[3] \in Nat /\ Len(its[x].val) \in Nat
             /\ its[x].key[2] = EXTENT_CSUM
             /\ its[x].key[3] <= s <=> x <= n
  <2>1. /\ its[x].key[3] \in Nat /\ Len(its[x].val) \in Nat /\ its[x].key \in Keys
        /\ its[x].key[1] = EXTENT_CSUM_OBJECTID /\ its[x].key[2] = EXTENT_CSUM
    BY <1>1, LeafOrder DEF Looked, IsItem
  <2>2. its[x].key[3] <= s <=> KeyLeq(its[x].key, target)
    BY <1>2, <2>1, TargetOrder
  <2> QED
    BY <1>3, <2>1, <2>2
<1>5. LiveCsum(node, s) = IF n = 0 THEN {}
                          ELSE IF \/ its[n].key[2] # EXTENT_CSUM
                                  \/ s >= its[n].key[3] + Len(its[n].val) THEN {}
                          ELSE {its[n].val[s - its[n].key[3] + 1]}
  BY DEF LiveCsum
<1> HIDE DEF n, target
<1>6. ASSUME LiveCsum(node, s) = {c}
      PROVE  \E x \in 1..m : Sums(its[x], s, c)
  <2>1. /\ n # 0 /\ ~(s >= its[n].key[3] + Len(its[n].val))
        /\ its[n].val[s - its[n].key[3] + 1] = c
    BY <1>5, <1>6
  <2>2. n \in 1..m
    BY <1>3, <2>1
  <2>3. its[n].key[3] \in Nat /\ Len(its[n].val) \in Nat /\ its[n].key[3] <= s
    BY <1>4, <2>2
  <2>4. Sums(its[n], s, c)
    BY <2>1, <2>3 DEF Sums
  <2> QED
    BY <2>2, <2>4
<1>7. ASSUME NEW x \in 1..m, Sums(its[x], s, c)
      PROVE  LiveCsum(node, s) = {c}
  <2>0. /\ its[x].key[3] <= s /\ s < its[x].key[3] + Len(its[x].val)
        /\ its[x].val[s - its[x].key[3] + 1] = c
    BY <1>7 DEF Sums
  <2>1. n \in 1..m /\ x <= n
    BY <1>3, <1>4, <2>0
  <2>2. /\ its[n].key[3] \in Nat /\ its[n].key[3] <= s /\ its[n].key[2] = EXTENT_CSUM
        /\ its[x].key[3] \in Nat /\ Len(its[x].val) \in Nat
    BY <1>4, <2>1
  <2>3. ASSUME x < n PROVE FALSE
    <3>1. its[x].key[3] + Len(its[x].val) <= its[n].key[3]
      <4>1. Follows(CSUM_TREE, its[n], its[x])
        BY <1>1, <2>1, <2>3
      <4> HIDE DEF its
      <4> QED
        BY <4>1 DEF Follows
    <3> HIDE DEF its
    <3>2. \A k, l, o \in Nat : ~(s < k + l /\ k + l <= o /\ o <= s)
      OBVIOUS
    <3> QED
      BY <2>0, <2>2, <3>1, <3>2, Zenon
  <2>4. x = n
    BY <2>1, <2>3
  <2>5. n # 0 /\ ~(s >= its[n].key[3] + Len(its[n].val))
    BY <2>0, <2>1, <2>2, <2>4
  <2> QED
    BY <1>5, <2>0, <2>2, <2>4, <2>5
<1> QED
  BY <1>1, <1>6, <1>7

-----------------------------------------------------------------------------
(* Choosing a leaf.                                                        *)

(* The items of a tree are those of its leaves.                            *)
LEMMA TreeItems ==
    ASSUME NEW t \in Looked, TreeOK(t, committed[t])
    PROVE  /\ Width(t) \in Nat /\ DOMAIN committed[t].leaf = 1..Width(t)
           /\ Len(committed[t].leaf) = Width(t)
           /\ \A i \in 1..Width(t) : IsVersion(t, i, committed[t].leaf[i].items)
           /\ \A it : it \in Items(t) <=>
                \E i \in 1..Width(t) : \E x \in DOMAIN committed[t].leaf[i].items :
                   it = committed[t].leaf[i].items[x]
<1> DEFINE leaf == committed[t].leaf
<1>1. Width(t) \in Nat
  BY OrderAssumption DEF Looked, IsSequence, Width
<1>2. leaf = [i \in 1..Width(t) |-> leaf[i]]
  BY DEF TreeOK
<1> HIDE DEF leaf
<1>3. DOMAIN leaf = 1..Width(t) /\ Len(leaf) = Width(t)
  <2>1. DOMAIN leaf = 1..Width(t)
    BY <1>2
  <2>2. leaf \in Seq({leaf[i] : i \in 1..Width(t)})
    BY <1>1, <1>2
  <2> QED
    BY <1>1, <2>1, <2>2
<1>4. \A i \in 1..Width(t) : IsVersion(t, i, leaf[i].items)
  BY DEF TreeOK, IsVersion, leaf
<1>5. \A it : it \in Items(t) <=> \E i \in DOMAIN leaf : it \in Range(leaf[i].items)
  BY DEF Items, leaf
<1>6. \A f, it : it \in Range(f) <=> \E x \in DOMAIN f : it = f[x]
  BY DEF Range
<1> QED
  BY <1>1, <1>3, <1>4, <1>5, <1>6 DEF leaf

(* A leaf with an item at or before the target begins at or before it.     *)
LEMMA BeginsBefore ==
    ASSUME NEW t \in Looked, TreeOK(t, committed[t]), NEW i \in 1..Width(t),
           NEW x \in DOMAIN committed[t].leaf[i].items, NEW target \in Keys,
           KeyLeq(committed[t].leaf[i].items[x].key, target)
    PROVE  KeyLeq(FirstKey(t, i), target)
<1> DEFINE its == committed[t].leaf[i].items
<1>1. IsVersion(t, i, its)
  BY TreeItems
<1> HIDE DEF its
<1>2. /\ Len(its) \in Nat /\ Len(its) > 0 /\ DOMAIN its = 1..Len(its)
      /\ \A k \in DOMAIN its : its[k].key \in Keys
      /\ \A k, l \in DOMAIN its : k < l => KeyLess(its[k].key, its[l].key)
  BY <1>1, LeafOrder DEF Follows
<1>3. 1 \in DOMAIN its /\ x \in DOMAIN its /\ (x = 1 \/ 1 < x)
  <2>1. x \in DOMAIN its
    BY DEF its
  <2> QED
    BY <1>2, <2>1
<1>4. KeyLeq(its[x].key, target) /\ FirstKey(t, i) = its[1].key
  BY DEF its, FirstKey
<1>5. CASE x = 1
  BY <1>4, <1>5
<1>6. CASE 1 < x
  <2>1. KeyLess(its[1].key, its[x].key) /\ its[1].key \in Keys /\ its[x].key \in Keys
    BY <1>2, <1>3, <1>6
  <2> QED
    BY <1>4, <2>1, KeyOrder
<1> QED
  BY <1>3, <1>5, <1>6

(* The leaf the descent of the extent tree chooses decides whether the     *)
(* sector is live, unless it is at a leaf edge.                            *)
LEMMA ExtentLeafDecides ==
    ASSUME TreeOK(EXTENT_TREE, committed[EXTENT_TREE]), NEW s \in Nat, ~LeafEdge(s),
           NEW n \in 1..Width(EXTENT_TREE), Chosen(EXTENT_TREE, CoverTarget(s), n),
           NEW node, node.items = committed[EXTENT_TREE].leaf[n].items
    PROVE  Cover(node, s) = "live" <=> IsLive(s)
<1> DEFINE leaf == committed[EXTENT_TREE].leaf
           W    == Width(EXTENT_TREE)
<1>1. /\ W \in Nat /\ Len(leaf) = W
      /\ \A i \in 1..W : IsVersion(EXTENT_TREE, i, leaf[i].items)
      /\ \A it : it \in Items(EXTENT_TREE) <=>
            \E i \in 1..W : \E x \in DOMAIN leaf[i].items : it = leaf[i].items[x]
  BY TreeItems DEF Looked
<1>2. Cover(node, s) = "live" <=>
        \E x \in DOMAIN leaf[n].items :
           Covers(leaf[n].items[x], s) /\ ~leaf[n].items[x].val.nodatasum
  <2>1. IsVersion(EXTENT_TREE, n, node.items)
    BY <1>1
  <2>2. Cover(node, s) = "live" <=>
          \E x \in DOMAIN node.items : Covers(node.items[x], s) /\ ~node.items[x].val.nodatasum
    BY <2>1, CoverRight
  <2> QED
    BY <2>2, Zenon
<1>3. ASSUME NEW i \in 1..W, NEW x \in DOMAIN leaf[i].items, Covers(leaf[i].items[x], s)
      PROVE  i = n
  <2>1. KeyLeq(leaf[i].items[x].key, CoverTarget(s))
    BY <1>1, <1>3, CoveringIsBefore
  <2>2. KeyLeq(FirstKey(EXTENT_TREE, i), CoverTarget(s))
    BY <2>1, CoverTargetIsKey, BeginsBefore DEF Looked
  <2>3. i <= n
    BY <2>2 DEF Chosen
  <2>4. ASSUME i < n PROVE FALSE
    <3>1. i + 1 \in 1..W /\ 1 < i + 1 /\ i + 1 <= n /\ i \in 1..(W - 1)
      BY <1>1, <2>4
    <3>2. KeyLeq(leaf[i + 1].items[1].key, CoverTarget(s))
      BY <3>1 DEF Chosen, FirstKey
    <3>3. \E it \in Range(leaf[i].items) : Covers(it, s)
      BY <1>3 DEF Range
    <3> QED
      BY <1>1, <3>1, <3>2, <3>3 DEF LeafEdge
  <2> QED
    BY <2>3, <2>4
<1> QED
  BY <1>1, <1>2, <1>3 DEF IsLive

(* The same for the checksum tree, with no exception: its items do not     *)
(* overlap.                                                                *)
LEMMA CsumLeafDecides ==
    ASSUME TreeOK(CSUM_TREE, committed[CSUM_TREE]), NEW r, r.token \in Nat,
           NEW n \in 1..Width(CSUM_TREE), Chosen(CSUM_TREE, CsumTarget(r.token), n),
           NEW node, node.items = committed[CSUM_TREE].leaf[n].items
    PROVE  LiveCsum(node, r.token) = {r.stored} <=> IsStored(r)
<1> DEFINE leaf == committed[CSUM_TREE].leaf
           W    == Width(CSUM_TREE)
           s    == r.token
<1>1. /\ W \in Nat
      /\ \A i \in 1..W : IsVersion(CSUM_TREE, i, leaf[i].items)
      /\ \A it : it \in Items(CSUM_TREE) <=>
            \E i \in 1..W : \E x \in DOMAIN leaf[i].items : it = leaf[i].items[x]
  BY TreeItems DEF Looked
<1>2. LiveCsum(node, s) = {r.stored} <=>
        \E x \in DOMAIN leaf[n].items : Sums(leaf[n].items[x], s, r.stored)
  <2>1. IsVersion(CSUM_TREE, n, node.items)
    BY <1>1
  <2>2. LiveCsum(node, s) = {r.stored} <=>
          \E x \in DOMAIN node.items : Sums(node.items[x], s, r.stored)
    BY <2>1, CsumRight
  <2> QED
    BY <2>2, Zenon
<1>3. ASSUME NEW i \in 1..W, NEW x \in DOMAIN leaf[i].items,
             Sums(leaf[i].items[x], s, r.stored)
      PROVE  i = n
  <2>1. ASSUME NEW j \in 1..W, NEW y \in DOMAIN leaf[j].items
        PROVE  /\ leaf[j].items[y].key[3] \in Nat /\ Len(leaf[j].items[y].val) \in Nat
               /\ leaf[j].items[y].key[3] <= s
                    <=> KeyLeq(leaf[j].items[y].key, CsumTarget(s))
    <3>1. IsItem(CSUM_TREE, leaf[j].items[y]) /\ leaf[j].items[y].key \in Keys
          /\ leaf[j].items[y].key[3] \in 0..MaxOffset
      BY <1>1, LeafOrder DEF Looked
    <3>2. leaf[j].items[y].key[3] \in Nat /\ Len(leaf[j].items[y].val) \in Nat
      <4>1. \A o \in 0..MaxOffset : o \in Nat
        BY LimitIsNat
      <4>2. leaf[j].items[y].key[3] \in Nat
        BY <3>1, <4>1
      <4>3. Len(leaf[j].items[y].val) \in Nat
        BY <3>1, LimitIsNat DEF IsItem
      <4> QED
        BY <4>2, <4>3
    <3>3. leaf[j].items[y].key[1] = EXTENT_CSUM_OBJECTID /\ leaf[j].items[y].key[2] = EXTENT_CSUM
      BY <3>1 DEF IsItem
    <3> QED
      BY <3>1, <3>2, <3>3, CsumTargetIsKey, TargetOrder
  <2>2. KeyLeq(FirstKey(CSUM_TREE, i), CsumTarget(s))
    BY <1>3, <2>1, CsumTargetIsKey, BeginsBefore DEF Looked, Sums
  <2>3. i <= n
    BY <2>2 DEF Chosen
  <2>4. ASSUME i < n PROVE FALSE
    <3>0. 1 < n
      BY <1>1, <2>4
    <3>1. KeyLeq(leaf[n].items[1].key, CsumTarget(s)) /\ 1 \in DOMAIN leaf[n].items
      <4>1. KeyLeq(leaf[n].items[1].key, CsumTarget(s))
        BY <3>0 DEF Chosen, FirstKey
      <4> QED
        BY <1>1, <4>1, LeafOrder DEF Looked
    <3>2. leaf[n].items[1].key[3] <= s /\ leaf[n].items[1].key[3] \in Nat
      BY <2>1, <3>1
    <3>3. Follows(CSUM_TREE, leaf[n].items[1], leaf[i].items[x])
      BY <1>1, <2>4, <3>1, LeafOrder DEF Looked
    <3>4. leaf[i].items[x].key[3] + Len(leaf[i].items[x].val) <= leaf[n].items[1].key[3]
      BY <3>3 DEF Follows
    <3>5. /\ leaf[i].items[x].key[3] \in Nat /\ Len(leaf[i].items[x].val) \in Nat
          /\ s < leaf[i].items[x].key[3] + Len(leaf[i].items[x].val)
      BY <1>3, <2>1 DEF Sums
    <3>6. \A a, l, c, z \in Nat : ~(a + l <= c /\ c <= z /\ z < a + l)
      OBVIOUS
    <3> QED
      BY <3>2, <3>4, <3>5, <3>6
  <2> QED
    BY <2>3, <2>4
<1> QED
  BY <1>1, <1>2, <1>3 DEF IsStored

(* Where no leaf begins at or before the target, the trees do not say      *)
(* that the sector is live or has this checksum.                           *)
LEMMA NoLeafNoItem ==
    ASSUME \A t \in Looked : TreeOK(t, committed[t]), NEW r, r.token \in Nat
    PROVE  /\ (\A i \in 1..Width(EXTENT_TREE) :
                   ~KeyLeq(FirstKey(EXTENT_TREE, i), CoverTarget(r.token))) => ~IsLive(r.token)
           /\ (\A i \in 1..Width(CSUM_TREE) :
                   ~KeyLeq(FirstKey(CSUM_TREE, i), CsumTarget(r.token))) => ~IsStored(r)
<1> DEFINE s == r.token
<1>1. ASSUME IsLive(s)
      PROVE  \E i \in 1..Width(EXTENT_TREE) : KeyLeq(FirstKey(EXTENT_TREE, i), CoverTarget(s))
  <2>1. PICK i \in 1..Width(EXTENT_TREE) :
          \E x \in DOMAIN committed[EXTENT_TREE].leaf[i].items :
             Covers(committed[EXTENT_TREE].leaf[i].items[x], s)
    BY <1>1, TreeItems DEF IsLive, Looked
  <2>2. PICK x \in DOMAIN committed[EXTENT_TREE].leaf[i].items :
             Covers(committed[EXTENT_TREE].leaf[i].items[x], s)
    BY <2>1
  <2>3. KeyLeq(committed[EXTENT_TREE].leaf[i].items[x].key, CoverTarget(s))
    BY <2>2, TreeItems, CoveringIsBefore DEF Looked
  <2> QED
    BY <2>3, CoverTargetIsKey, BeginsBefore DEF Looked
<1>2. ASSUME IsStored(r)
      PROVE  \E i \in 1..Width(CSUM_TREE) : KeyLeq(FirstKey(CSUM_TREE, i), CsumTarget(s))
  <2>1. PICK i \in 1..Width(CSUM_TREE) :
          \E x \in DOMAIN committed[CSUM_TREE].leaf[i].items :
             committed[CSUM_TREE].leaf[i].items[x].key[3] <= s
    BY <1>2, TreeItems DEF IsStored, Looked, Sums
  <2> DEFINE its == committed[CSUM_TREE].leaf[i].items
  <2>2. PICK x \in DOMAIN its : its[x].key[3] <= s
    BY <2>1
  <2>3. IsItem(CSUM_TREE, its[x]) /\ its[x].key \in Keys
    BY TreeItems, LeafOrder DEF Looked
  <2>4. KeyLeq(its[x].key, CsumTarget(s))
    BY <2>2, <2>3, CsumTargetIsKey, TargetOrder DEF IsItem
  <2> QED
    BY <2>4, CsumTargetIsKey, BeginsBefore DEF Looked
<1> QED
  BY <1>1, <1>2

-----------------------------------------------------------------------------
(* Reading the nodes of the trees.                                         *)

(* A node with a good copy is read whatever the other copies are; one with *)
(* bad copies only, none of them another filesystem's, is not read.        *)
LEMMA ReadsNode ==
    ASSUME NEW b \in Blocks, NEW own, own.kind = "node", own.fsid = "own", own.bytenr = b,
           \A p \in Phys(b) : disk[p] \in BadKinds \cup {own}
    PROVE  LET got == read_node(Chunks, b, DontCheck) IN
           /\ own \in {disk[p] : p \in Phys(b)} =>
                ~got.read_error /\ ~got.all_mirrors_failed /\ Fine(got) /\ got.node = own
           /\ {own, Foreign} \cap {disk[p] : p \in Phys(b)} = {} =>
                got.read_error \/ got.all_mirrors_failed
<1> DEFINE copy     == lookup_stripes(Chunks, b)
           readable == {i \in DOMAIN copy : disk[copy[i]].kind # "eio"}
           verified == {i \in readable : disk[copy[i]].kind = "node"}
           good     == {i \in verified : validate_header(disk[copy[i]], b, DontCheck)}
           got      == read_node(Chunks, b, DontCheck)
<1>1. /\ copy # <<>>
      /\ DOMAIN copy \subseteq Nat
      /\ \A i \in DOMAIN copy : copy[i] \in Phys(b)
  BY StripesAreCopies
<1>2. \A p \in Phys(b) : \E i \in DOMAIN copy : copy[i] = p
  BY DEF Phys, Range
<1>3. got = [read_error          |-> readable = {},
             all_mirrors_failed  |-> readable # {} /\ verified = {},
             generation_mismatch |-> verified # {} /\ good = {},
             mirror_mismatch     |-> verified # {} /\ Cardinality(verified) < Len(copy),
             node                |-> IF good # {} THEN disk[copy[Min(good)]]
                                     ELSE IF verified # {} THEN disk[copy[Min(verified)]]
                                     ELSE Garbage]
  BY <1>1 DEF read_node
<1> HIDE DEF good, verified, readable, copy
<1>4. /\ got.read_error = (readable = {})
      /\ got.all_mirrors_failed = (readable # {} /\ verified = {})
      /\ got.generation_mismatch = (verified # {} /\ good = {})
      /\ good # {} => got.node = disk[copy[Min(good)]]
  BY <1>3
<1> HIDE DEF got
<1>5. ASSUME own \in {disk[p] : p \in Phys(b)}
      PROVE  ~got.read_error /\ ~got.all_mirrors_failed /\ Fine(got) /\ got.node = own
  <2>1. PICK i \in DOMAIN copy : disk[copy[i]] = own
    BY <1>2, <1>5
  <2>2. i \in good /\ i \in verified /\ i \in readable
    BY <2>1 DEF good, verified, readable, validate_header
  <2>3. Min(good) \in good
    <3>1. good \subseteq Nat
      BY <1>1 DEF good, verified, readable
    <3> QED
      BY <2>2, <3>1, MinIn
  <2>4. /\ copy[Min(good)] \in Phys(b) /\ disk[copy[Min(good)]].kind = "node"
        /\ validate_header(disk[copy[Min(good)]], b, DontCheck)
    BY <1>1, <2>3 DEF good, verified, readable
  <2>5. disk[copy[Min(good)]] = own
    BY <2>4, BadIsBad DEF validate_header
  <2>6. readable # {} /\ verified # {} /\ good # {}
    BY <2>2
  <2>7. ~got.read_error /\ ~got.all_mirrors_failed /\ ~got.generation_mismatch
    BY <1>4, <2>6, Zenon
  <2> QED
    BY <1>4, <2>5, <2>6, <2>7 DEF Fine
<1>6. ASSUME {own, Foreign} \cap {disk[p] : p \in Phys(b)} = {}
      PROVE  got.read_error \/ got.all_mirrors_failed
  <2>1. \A i \in DOMAIN copy : disk[copy[i]] \in {Garbage, Eio}
    BY <1>1, <1>6 DEF BadKinds
  <2>2. verified = {}
    BY <2>1 DEF verified, readable, Garbage, Eio
  <2> QED
    BY <1>4, <2>2, Zenon
<1> QED
  BY <1>5, <1>6 DEF got

(* The node of a tree at a block of it carries that block, the tree as its *)
(* owner, and the id of the filesystem.                                    *)
LEMMA OwnNode ==
    ASSUME NEW t, NEW tree, NEW b
    PROVE  /\ NodeOf(t, tree, b).kind = "node"
           /\ NodeOf(t, tree, b).fsid = "own"
           /\ NodeOf(t, tree, b).bytenr = b
  BY DEF NodeOf, Node

(* The nodes of a tree: its leaves, and its top if that is none of them.   *)
LEMMA TreeBlocks ==
    ASSUME NEW t \in Looked, NEW tree, TreeOK(t, tree)
    PROVE  /\ Width(t) = 1 => tree.top.at = tree.leaf[1].at
           /\ \A b : b \in NodesOf(tree) <=>
                b = tree.top.at \/ \E i \in 1..Width(t) : b = tree.leaf[i].at
<1>1. DOMAIN tree.leaf = 1..Width(t) /\ (Width(t) = 1 => tree.top.at = tree.leaf[1].at)
  BY DEF TreeOK
<1> QED
  BY <1>1 DEF NodesOf

(* The node at the block of a leaf is that leaf.                           *)
LEMMA LeafNode ==
    ASSUME NEW t \in Looked, NEW tree, TreeOK(t, tree), NEW i \in 1..Width(t)
    PROVE  NodeOf(t, tree, tree.leaf[i].at)
             = Node(tree.leaf[i].at, tree.leaf[i].gen, 0, t, tree.leaf[i].items)
<1>1. DOMAIN tree.leaf = 1..Width(t)
  BY DEF TreeOK
<1>2. {j \in 1..Width(t) : tree.leaf[j].at = tree.leaf[i].at} = {i}
  BY DEF TreeOK
<1>3. (CHOOSE j \in {i} : TRUE) = i
  OBVIOUS
<1> QED
  BY <1>1, <1>2, <1>3 DEF NodeOf

(* The node at the top of a tree with several leaves points to them in     *)
(* order.                                                                  *)
LEMMA TopNode ==
    ASSUME NEW t \in Looked, NEW tree, TreeOK(t, tree), Width(t) # 1
    PROVE  NodeOf(t, tree, tree.top.at)
             = Node(tree.top.at, tree.top.gen, 1, t,
                    [i \in 1..Width(t) |->
                       [key |-> tree.leaf[i].items[1].key,
                        val |-> [at |-> tree.leaf[i].at, gen |-> tree.leaf[i].gen]]])
<1>1. DOMAIN tree.leaf = 1..Width(t)
  BY DEF TreeOK
<1>2. {j \in 1..Width(t) : tree.leaf[j].at = tree.top.at} = {}
  BY DEF TreeOK
<1> QED
  BY <1>1, <1>2 DEF NodeOf

(* A tree lies in the blocks of the filesystem.                            *)
LEMMA NodesInBlocks ==
    ASSUME NEW t \in Looked, NEW tree, TreeOK(t, tree)
    PROVE  NodesOf(tree) \subseteq Blocks
<1>1. tree.top.at \in Blocks /\ \A i \in 1..Width(t) : tree.leaf[i].at \in Blocks
  BY DEF TreeOK
<1> QED
  BY <1>1, TreeBlocks

(* A node of one of the trees is no other tree's.                          *)
LEMMA NodeIsOf ==
    ASSUME NEW trees, Apart(trees), Looked \subseteq DOMAIN trees,
           NEW t \in Looked, NEW b \in NodesOf(trees[t])
    PROVE  NodeAt(trees, b) = NodeOf(t, trees[t], b)
<1>1. \A u \in DOMAIN trees : b \in NodesOf(trees[u]) => u = t
  BY DEF Apart
<1>2. (CHOOSE u \in DOMAIN trees : b \in NodesOf(trees[u])) = t
  BY <1>1
<1> QED
  BY <1>2 DEF NodeAt

(* The top of a tree of several leaves, as a descent sees it: the keys     *)
(* counted lead to the leaf that is chosen, or there is none before the    *)
(* target.                                                                 *)
LEMMA TopChooses ==
    ASSUME NEW t \in Looked, TreeOK(t, committed[t]), Width(t) # 1, NEW target \in Keys,
           NEW node, node = NodeOf(t, committed[t], committed[t].top.at)
    PROVE  /\ node.level = 1
           /\ UpTo(node, target) = 0 =>
                \A i \in 1..Width(t) : ~KeyLeq(FirstKey(t, i), target)
           /\ UpTo(node, target) # 0 =>
                \E n \in 1..Width(t) :
                   /\ node.items[UpTo(node, target)].val.at = committed[t].leaf[n].at
                   /\ Chosen(t, target, n)
<1> DEFINE W    == Width(t)
           leaf == committed[t].leaf
           ptrs == [i \in 1..W |-> [key |-> leaf[i].items[1].key,
                                    val |-> [at |-> leaf[i].at, gen |-> leaf[i].gen]]]
           n    == UpTo(node, target)
<1>1. node = Node(committed[t].top.at, committed[t].top.gen, 1, t, ptrs)
  BY TopNode
<1> HIDE DEF ptrs
<1>2. node.level = 1 /\ node.items = ptrs
  BY <1>1 DEF Node
<1>3. /\ DOMAIN ptrs = 1..W
      /\ \A i \in 1..W : ptrs[i].key = FirstKey(t, i) /\ ptrs[i].val.at = leaf[i].at
  BY DEF ptrs, FirstKey
<1>4. W \in Nat /\ \A i \in 1..W : IsVersion(t, i, leaf[i].items)
  BY TreeItems
<1>5. \A i \in 1..W : FirstKey(t, i) \in Keys /\ 1 \in DOMAIN leaf[i].items
  BY <1>4, LeafOrder DEF FirstKey
<1>6. \A i, j \in 1..W : i < j => KeyLess(FirstKey(t, i), FirstKey(t, j))
  <2> SUFFICES ASSUME NEW i \in 1..W, NEW j \in 1..W, i < j
               PROVE  KeyLess(FirstKey(t, i), FirstKey(t, j))
    OBVIOUS
  <2>1. Follows(t, leaf[j].items[1], leaf[i].items[1])
    BY <1>4, <1>5, LeafOrder
  <2> QED
    BY <2>1 DEF Follows, FirstKey
<1>7. n \in 0..W /\ \A i \in 1..W : KeyLeq(FirstKey(t, i), target) <=> i <= n
  <2>1. /\ DOMAIN node.items = 1..W
        /\ \A i \in 1..W : node.items[i].key = FirstKey(t, i)
    BY <1>2, <1>3
  <2>2. /\ \A i \in 1..W : node.items[i].key \in Keys
        /\ \A i, j \in 1..W : i < j => KeyLess(node.items[i].key, node.items[j].key)
    BY <1>5, <1>6, <2>1
  <2>3. n \in 0..W /\ \A i \in 1..W : KeyLeq(node.items[i].key, target) <=> i <= n
    BY <1>4, <2>1, <2>2, PartitionPoint
  <2> QED
    BY <2>1, <2>3
<1> HIDE DEF n
<1>8. n = 0 => \A i \in 1..W : ~KeyLeq(FirstKey(t, i), target)
  BY <1>7
<1>9. ASSUME n # 0
      PROVE  n \in 1..W /\ node.items[n].val.at = leaf[n].at /\ Chosen(t, target, n)
  BY <1>2, <1>3, <1>7, <1>9 DEF Chosen
<1> QED
  BY <1>2, <1>8, <1>9 DEF n

(* One step of a descent that is on its way.                               *)
LEMMA DescentRight ==
    ASSUME CInv, Sound(committed), ~Impostor,
           NEW t \in Looked, NEW target \in Keys, Reached(t, target),
           NEW got, got = read_node(Chunks, at, DontCheck)
    PROVE  \/ (got.read_error \/ got.all_mirrors_failed) /\ ~Readable
           \/ /\ ~got.read_error /\ ~got.all_mirrors_failed /\ depth # MaxDepth
              /\ \/ /\ got.node.level = 0
                    /\ \E n \in 1..Width(t) : /\ got.node.items = committed[t].leaf[n].items
                                               /\ Chosen(t, target, n)
                 \/ /\ got.node.level # 0 /\ UpTo(got.node, target) = 0
                    /\ \A i \in 1..Width(t) : ~KeyLeq(FirstKey(t, i), target)
                 \/ /\ got.node.level # 0 /\ UpTo(got.node, target) # 0 /\ depth = 0
                    /\ \E n \in 1..Width(t) :
                         /\ got.node.items[UpTo(got.node, target)].val.at = committed[t].leaf[n].at
                         /\ Chosen(t, target, n)
<1> DEFINE W    == Width(t)
           tree == committed[t]
           own  == NodeOf(t, tree, at)
<1>1. TreeOK(t, tree) /\ Looked \subseteq DOMAIN committed
  BY DEF Sound, CInv, StoreOK, WellRooted
<1>2. at \in NodesOf(tree) /\ at \in Blocks
  <2>1. at = tree.top.at \/ \E i \in 1..W : at = tree.leaf[i].at
    BY DEF Reached
  <2>2. at \in NodesOf(tree)
    BY <1>1, <2>1, TreeBlocks
  <2>3. at \in Blocks
    BY <1>1, <2>1 DEF TreeOK
  <2> QED
    BY <2>2, <2>3
<1>3. at \in Used(committed) /\ NodeAt(committed, at) = own
  BY <1>1, <1>2, NodeIsOf DEF Sound, Used
<1>4. own.kind = "node" /\ own.fsid = "own" /\ own.bytenr = at
  BY OwnNode
<1>5. \A p \in Phys(at) : disk[p] \in BadKinds \cup {own}
  BY <1>2 DEF Sound, OnDisk
<1>6. /\ own \in {disk[p] : p \in Phys(at)} =>
           ~got.read_error /\ ~got.all_mirrors_failed /\ got.node = own
      /\ {own, Foreign} \cap {disk[p] : p \in Phys(at)} = {} =>
           got.read_error \/ got.all_mirrors_failed
  <2> HIDE DEF own
  <2> QED
    BY <1>2, <1>4, <1>5, ReadsNode
<1>7. CASE own \notin {disk[p] : p \in Phys(at)}
  <2>1. Foreign \notin {disk[p] : p \in Phys(at)}
    BY <1>3, <1>7 DEF Impostor
  <2>2. ~Readable
    BY <1>3, <1>7 DEF Readable
  <2> QED
    BY <1>6, <1>7, <2>1, <2>2
<1>8. CASE own \in {disk[p] : p \in Phys(at)}
  <2>1. /\ ~got.read_error /\ ~got.all_mirrors_failed
        /\ got.node = own
    BY <1>6, <1>8
  <2>2. depth # MaxDepth
    BY DEF Reached, MaxDepth
  <2>3. ASSUME NEW n \in 1..W, at = tree.leaf[n].at, Chosen(t, target, n)
        PROVE  got.node.level = 0 /\ got.node.items = tree.leaf[n].items
    <3>1. own = Node(at, tree.leaf[n].gen, 0, t, tree.leaf[n].items)
      BY <1>1, <2>3, LeafNode
    <3> HIDE DEF own
    <3> QED
      BY <2>1, <3>1 DEF Node
  <2>4. CASE depth = 1
    <3>1. \E n \in 1..W : at = tree.leaf[n].at /\ Chosen(t, target, n)
      BY <2>4 DEF Reached
    <3> HIDE DEF own
    <3> QED
      BY <2>1, <2>2, <2>3, <3>1
  <2>5. CASE depth = 0 /\ at = tree.top.at /\ W = 1
    <3>1. 1 \in 1..W /\ at = tree.leaf[1].at /\ Chosen(t, target, 1)
      <4>1. at = tree.leaf[1].at
        BY <1>1, <2>5, TreeBlocks
      <4>2. Chosen(t, target, 1)
        BY <2>5 DEF Chosen
      <4> QED
        BY <2>5, <4>1, <4>2
    <3> HIDE DEF own
    <3> QED
      BY <2>1, <2>2, <2>3, <3>1
  <2>6. CASE depth = 0 /\ at = tree.top.at /\ W # 1
    <3>1. got.node = NodeOf(t, committed[t], committed[t].top.at)
      BY <2>1, <2>6
    <3>2. /\ got.node.level = 1
          /\ UpTo(got.node, target) = 0 => \A i \in 1..W : ~KeyLeq(FirstKey(t, i), target)
          /\ UpTo(got.node, target) # 0 =>
               \E n \in 1..W :
                  /\ got.node.items[UpTo(got.node, target)].val.at = committed[t].leaf[n].at
                  /\ Chosen(t, target, n)
      BY <1>1, <2>6, <3>1, TopChooses
    <3> HIDE DEF own
    <3> QED
      BY <2>1, <2>2, <2>6, <3>2
  <2> QED
    BY <2>4, <2>5, <2>6 DEF Reached
<1> QED
  BY <1>7, <1>8

-----------------------------------------------------------------------------
(* The filesystem.                                                         *)

(* The nodes of a transaction get blocks of their own.                     *)
Slotted(to, S) ==
    /\ \A s \in S : to[s] \in Blocks /\ to[s] \notin Used(mem) /\ to[s] \in Range(to)
    /\ \A r, s \in S : to[r] = to[s] => r = s
    /\ \A b \in Range(to) : b \in Blocks /\ b \notin Used(mem)
    /\ \A t \in Looked \cup {ROOT_TREE} :
         /\ LeafSlot(t) \in S
         /\ ~IsLeaf(mem[t]) => TopSlot(t) \in S
    /\ \A t, u \in Looked \cup {ROOT_TREE} :
         /\ LeafSlot(t) # TopSlot(u)
         /\ t # u => LeafSlot(t) # LeafSlot(u) /\ TopSlot(t) # TopSlot(u)

LEMMA SlotsApart ==
    ASSUME NEW change, NEW to, Moves(change, to)
    PROVE  Slotted(to, Slots(Looked \cup {ROOT_TREE}))
<1> DEFINE slots == Slots(Looked \cup {ROOT_TREE})
<1>1. to \in [slots -> Free] /\ IsInjective(to)
  BY DEF Moves
<1>2. /\ \A t \in Looked \cup {ROOT_TREE} :
           /\ LeafSlot(t) \in slots
           /\ ~IsLeaf(mem[t]) => TopSlot(t) \in slots
      /\ \A t, u \in Looked \cup {ROOT_TREE} :
           /\ LeafSlot(t) # TopSlot(u)
           /\ t # u => LeafSlot(t) # LeafSlot(u) /\ TopSlot(t) # TopSlot(u)
  BY DEF Slots, LeafSlot, TopSlot, Looked, ROOT_TREE, EXTENT_TREE, CSUM_TREE
<1> HIDE DEF slots
<1>3. DOMAIN to = slots /\ \A s \in slots : to[s] \in Blocks /\ to[s] \notin Used(mem)
  BY <1>1 DEF Free
<1>4. /\ \A s \in slots : to[s] \in Range(to)
      /\ \A b \in Range(to) : \E s \in slots : b = to[s]
  BY <1>3 DEF Range
<1>5. \A r, s \in slots : to[r] = to[s] => r = s
  BY <1>1, <1>3 DEF IsInjective
<1>6. \A b \in Range(to) : b \in Blocks /\ b \notin Used(mem)
  BY <1>3, <1>4
<1>7. \A s \in slots : to[s] \in Blocks /\ to[s] \notin Used(mem) /\ to[s] \in Range(to)
  BY <1>3, <1>4
<1>8. Slotted(to, slots)
  BY <1>2, <1>5, <1>6, <1>7 DEF Slotted
<1> QED
  BY <1>8 DEF slots

(* A tree with leaf i and the top at new blocks: every other leaf is the   *)
(* node it was.                                                            *)
MovedTree(t, old, new, i) ==
    /\ i \in 1..Width(t)
    /\ new.leaf = [j \in 1..Width(t) |-> IF j = i THEN new.leaf[i] ELSE old.leaf[j]]
    /\ \E v \in DOMAIN Contents[t][i] : new.leaf[i].items = Contents[t][i][v]
    /\ new.leaf[i].at \in Blocks \ NodesOf(old)
    /\ new.top.at \in Blocks \ NodesOf(old)
    /\ new.top.at = new.leaf[i].at <=> Width(t) = 1

LEMMA TreeMoved ==
    ASSUME NEW t \in Looked, NEW old, TreeOK(t, old), NEW new, NEW i, MovedTree(t, old, new, i)
    PROVE  /\ TreeOK(t, new)
           /\ \A b \in NodesOf(new) :
                \/ b = new.leaf[i].at \/ b = new.top.at
                \/ b \in NodesOf(old) /\ NodeOf(t, new, b) = NodeOf(t, old, b)
<1> DEFINE W == Width(t)
           l == new.leaf[i]
<1>1. /\ i \in 1..W
      /\ new.leaf = [j \in 1..W |-> IF j = i THEN l ELSE old.leaf[j]]
      /\ \E v \in DOMAIN Contents[t][i] : l.items = Contents[t][i][v]
      /\ l.at \in Blocks /\ l.at \notin NodesOf(old)
      /\ new.top.at \in Blocks /\ new.top.at \notin NodesOf(old)
      /\ new.top.at = l.at <=> W = 1
  BY DEF MovedTree
<1> HIDE DEF W, l
<1>2. /\ new.leaf = [j \in 1..W |-> new.leaf[j]]
      /\ \A j \in 1..W : new.leaf[j] = IF j = i THEN l ELSE old.leaf[j]
  BY <1>1
<1>3. \A j \in 1..W : old.leaf[j].at \in NodesOf(old)
  BY TreeBlocks DEF W
<1>4. \A j \in 1..W : /\ old.leaf[j].at \in Blocks
                      /\ \E v \in DOMAIN Contents[t][j] : old.leaf[j].items = Contents[t][j][v]
                      /\ \A k \in 1..W : old.leaf[j].at = old.leaf[k].at => j = k
  BY DEF TreeOK, W
<1>5. ASSUME NEW j \in 1..W
      PROVE  /\ new.leaf[j].at \in Blocks
             /\ \E v \in DOMAIN Contents[t][j] : new.leaf[j].items = Contents[t][j][v]
             /\ \A k \in 1..W : new.leaf[j].at = new.leaf[k].at => j = k
             /\ new.top.at = new.leaf[j].at <=> W = 1
  <2>1. CASE j = i
    <3>1. new.leaf[j] = l
      BY <1>2, <2>1
    <3>2. \A k \in 1..W : l.at = new.leaf[k].at => i = k
      BY <1>1, <1>2, <1>3
    <3> QED
      BY <1>1, <2>1, <3>1, <3>2
  <2>2. CASE j # i
    <3>1. new.leaf[j] = old.leaf[j] /\ old.leaf[j].at \in NodesOf(old)
      BY <1>2, <1>3, <2>2
    <3>2. \A k \in 1..W : old.leaf[j].at = new.leaf[k].at => j = k
      <4> SUFFICES ASSUME NEW k \in 1..W, old.leaf[j].at = new.leaf[k].at PROVE j = k
        OBVIOUS
      <4>1. k # i
        BY <1>1, <1>2, <3>1
      <4> QED
        BY <1>2, <1>4, <4>1
    <3>3. W # 1
      BY <1>1, <2>2
    <3>4. new.top.at # old.leaf[j].at
      BY <1>1, <3>1
    <3> QED
      BY <1>4, <3>1, <3>2, <3>3, <3>4
  <2> QED
    BY <2>1, <2>2
<1>6. TreeOK(t, new)
  BY <1>1, <1>2, <1>5 DEF TreeOK, W
<1>7. ASSUME NEW b \in NodesOf(new), b # l.at, b # new.top.at
      PROVE  b \in NodesOf(old) /\ NodeOf(t, new, b) = NodeOf(t, old, b)
  <2>1. PICK j \in 1..W : b = new.leaf[j].at
    BY <1>6, <1>7, TreeBlocks DEF W
  <2>2. j # i
    BY <1>2, <1>7, <2>1
  <2>3. new.leaf[j] = old.leaf[j]
    BY <1>2, <2>2
  <2>4. NodeOf(t, new, new.leaf[j].at)
          = Node(new.leaf[j].at, new.leaf[j].gen, 0, t, new.leaf[j].items)
    BY <1>6, LeafNode DEF W
  <2>5. NodeOf(t, old, old.leaf[j].at)
          = Node(old.leaf[j].at, old.leaf[j].gen, 0, t, old.leaf[j].items)
    BY LeafNode DEF W
  <2> QED
    BY <1>3, <2>1, <2>3, <2>4, <2>5
<1> QED
  BY <1>6, <1>7 DEF l

(* After a transaction that moves leaf i of the two trees to version v,    *)
(* the trees are sound, and the committed ones still are.                  *)
LEMMA TransactionSound ==
    ASSUME CInv, TreesOK,
           NEW i \in DOMAIN Contents[EXTENT_TREE], NEW v \in DOMAIN Contents[EXTENT_TREE][i],
           NEW change, DOMAIN change = Looked,
           \A t \in Looked : change[t].leaf = i /\ change[t].items = Contents[t][i][v],
           WriteNodes(change, FALSE)
    PROVE  TreesOK'
<1>1. PICK to : Moves(change, to)
  BY NewTrees DEF CInv
<1> DEFINE slots  == Slots(Looked \cup {ROOT_TREE})
           new(t) == Leaf(to[LeafSlot(t)], Gen(mem) + 1, Contents[t][i][v])
<1>2. /\ mem = committed /\ committed' = committed
      /\ DOMAIN mem' = DOMAIN mem /\ Looked \cup {ROOT_TREE} \subseteq DOMAIN mem
      /\ \A t \in DOMAIN mem \ (Looked \cup {ROOT_TREE}) : mem'[t] = mem[t]
  BY <1>1 DEF Moves, CInv, StoreOK, WellRooted
<1>3. Slotted(to, slots)
  BY <1>1, SlotsApart
<1> HIDE DEF slots
<1>4. ASSUME NEW t \in Looked
      PROVE  /\ TreeOK(t, mem[t]) /\ Width(t) \in Nat
             /\ IsLeaf(mem[t]) <=> Width(t) = 1
             /\ i \in 1..Width(t) /\ v \in DOMAIN Contents[t][i]
  <2>1. TreeOK(t, mem[t]) /\ Width(t) \in Nat /\ (IsLeaf(mem[t]) <=> Width(t) = 1)
    BY <1>2, TreeItems DEF TreesOK, Sound, IsLeaf
  <2>2. i \in 1..Width(t) /\ v \in DOMAIN Contents[t][i]
    BY ReconfirmAssumption, OrderAssumption DEF Looked, Width, IsSequence
  <2> QED
    BY <2>1, <2>2
<1>5. ASSUME NEW t \in Looked
      PROVE  /\ mem'[t].leaf = [j \in 1..Width(t) |-> IF j = i THEN new(t) ELSE mem[t].leaf[j]]
             /\ new(t).at = to[LeafSlot(t)] /\ new(t).items = Contents[t][i][v]
             /\ mem'[t].top.at = IF Width(t) = 1 THEN to[LeafSlot(t)] ELSE to[TopSlot(t)]
  <2>1. /\ mem'[t].leaf = [mem[t].leaf EXCEPT ![i] = new(t)]
        /\ mem'[t].top.at = to[IF IsLeaf(mem[t]) THEN LeafSlot(t) ELSE TopSlot(t)]
    <3>1. /\ mem'[t].leaf = [mem[t].leaf EXCEPT ![change[t].leaf] =
                               Leaf(to[LeafSlot(t)], Gen(mem) + 1, change[t].items)]
          /\ mem'[t].top.at = to[IF IsLeaf(mem[t]) THEN LeafSlot(t) ELSE TopSlot(t)]
      BY <1>1, Zenon DEF Moves
    <3>2. change[t].leaf = i /\ change[t].items = Contents[t][i][v]
      OBVIOUS
    <3> QED
      BY <3>1, <3>2, Zenon
  <2>2. mem[t].leaf = [j \in 1..Width(t) |-> mem[t].leaf[j]]
    BY <1>4 DEF TreeOK
  <2>3. new(t).at = to[LeafSlot(t)] /\ new(t).items = Contents[t][i][v]
    BY DEF Leaf
  <2> HIDE DEF new
  <2>4. mem'[t].leaf = [j \in 1..Width(t) |-> IF j = i THEN new(t) ELSE mem[t].leaf[j]]
    BY <2>1, <2>2
  <2> QED
    BY <1>4, <2>1, <2>3, <2>4
<1> HIDE DEF new
<1>6. ASSUME NEW t \in Looked
      PROVE  /\ to[LeafSlot(t)] \in Blocks \ Used(mem) /\ LeafSlot(t) \in slots
             /\ Width(t) # 1 => /\ to[TopSlot(t)] \in Blocks \ Used(mem)
                                /\ to[TopSlot(t)] # to[LeafSlot(t)]
                                /\ TopSlot(t) \in slots
  <2>1. LeafSlot(t) \in slots /\ LeafSlot(t) # TopSlot(t)
    BY <1>3 DEF Slotted
  <2>2. Width(t) # 1 => TopSlot(t) \in slots
    BY <1>3, <1>4 DEF Slotted
  <2> QED
    BY <1>3, <2>1, <2>2 DEF Slotted
<1>7. ASSUME NEW t \in Looked
      PROVE  /\ TreeOK(t, mem'[t])
             /\ \A b \in NodesOf(mem'[t]) :
                  \/ \E q \in slots : q \in {LeafSlot(t), TopSlot(t)} /\ b = to[q]
                  \/ b \in NodesOf(mem[t]) /\ NodeOf(t, mem'[t], b) = NodeOf(t, mem[t], b)
  <2> DEFINE old  == mem[t]
             tree == mem'[t]
  <2>1. tree.leaf[i] = new(t)
    BY <1>4, <1>5
  <2>2. /\ tree.leaf[i].at = to[LeafSlot(t)]
        /\ tree.top.at = IF Width(t) = 1 THEN to[LeafSlot(t)] ELSE to[TopSlot(t)]
    BY <1>5, <2>1
  <2>3. NodesOf(old) \subseteq Used(mem) /\ TreeOK(t, old)
    BY <1>2, <1>4 DEF Used
  <2>4. MovedTree(t, old, tree, i)
    <3>1. \E w \in DOMAIN Contents[t][i] : tree.leaf[i].items = Contents[t][i][w]
      <4>1. v \in DOMAIN Contents[t][i]
        BY <1>4
      <4>2. new(t).items = Contents[t][i][v]
        BY <1>5
      <4> QED
        BY <2>1, <4>1, <4>2
    <3>2. tree.leaf = [j \in 1..Width(t) |-> IF j = i THEN tree.leaf[i] ELSE old.leaf[j]]
      BY <1>5, <2>1
    <3>3. /\ tree.leaf[i].at \in Blocks \ NodesOf(old) /\ tree.top.at \in Blocks \ NodesOf(old)
          /\ tree.top.at = tree.leaf[i].at <=> Width(t) = 1
      BY <1>6, <2>2, <2>3
    <3> HIDE DEF old, tree
    <3> QED
      BY <1>4, <3>1, <3>2, <3>3 DEF MovedTree
  <2> HIDE DEF old, tree
  <2>5. /\ TreeOK(t, tree)
        /\ \A b \in NodesOf(tree) :
             \/ b = tree.leaf[i].at \/ b = tree.top.at
             \/ b \in NodesOf(old) /\ NodeOf(t, tree, b) = NodeOf(t, old, b)
    BY <2>3, <2>4, TreeMoved
  <2>6. ASSUME NEW b, b = tree.leaf[i].at \/ b = tree.top.at
        PROVE  \E q \in slots : q \in {LeafSlot(t), TopSlot(t)} /\ b = to[q]
    BY <1>6, <2>2, <2>6
  <2> QED
    BY <2>5, <2>6 DEF old, tree
<1>9. ASSUME NEW b \in NodesOf(mem'[ROOT_TREE]) PROVE b = to[LeafSlot(ROOT_TREE)]
  <2>1. PICK items : /\ mem'[ROOT_TREE].leaf = <<Leaf(RootAt(mem'), Gen(mem'), items)>>
                     /\ RootAt(mem') = to[LeafSlot(ROOT_TREE)]
    BY <1>1 DEF Moves
  <2>2. DOMAIN mem'[ROOT_TREE].leaf = {1} /\ mem'[ROOT_TREE].leaf[1].at = RootAt(mem')
    BY <2>1 DEF Leaf
  <2> QED
    BY <1>9, <2>1, <2>2 DEF NodesOf, RootAt
<1>10. Apart(mem')
  <2> SUFFICES ASSUME NEW t \in Looked, NEW u \in DOMAIN mem', t # u,
                      NEW b \in NodesOf(mem'[t]), b \in NodesOf(mem'[u])
               PROVE  FALSE
    BY DEF Apart
  <2>1. NodesOf(mem[t]) \cap NodesOf(mem[u]) = {} /\ NodesOf(mem[u]) \subseteq Used(mem)
        /\ NodesOf(mem[t]) \subseteq Used(mem)
    BY <1>2 DEF TreesOK, Sound, Apart, Used
  <2>2. \/ b \in NodesOf(mem[u])
        \/ \E q \in slots : u \in Looked \cup {ROOT_TREE} /\ q \in {LeafSlot(u), TopSlot(u)} /\ b = to[q]
    <3>1. CASE u \in Looked
      BY <1>7, <3>1
    <3>2. CASE u = ROOT_TREE
      BY <1>3, <1>9, <3>2 DEF Slotted
    <3>3. CASE u \notin Looked \cup {ROOT_TREE}
      BY <1>2, <3>3
    <3> QED
      BY <3>1, <3>2, <3>3
  <2>3. \/ b \in NodesOf(mem[t])
        \/ \E q \in slots : q \in {LeafSlot(t), TopSlot(t)} /\ b = to[q]
    BY <1>7
  <2>4. CASE b \in NodesOf(mem[t]) \/ b \in NodesOf(mem[u])
    BY <1>3, <2>1, <2>2, <2>3, <2>4 DEF Slotted
  <2>5. CASE /\ u \in Looked \cup {ROOT_TREE}
             /\ \E q, r \in slots : /\ q \in {LeafSlot(u), TopSlot(u)} /\ b = to[q]
                                   /\ r \in {LeafSlot(t), TopSlot(t)} /\ b = to[r]
    <3>1. PICK q \in slots : q \in {LeafSlot(u), TopSlot(u)} /\ q \in {LeafSlot(t), TopSlot(t)}
      BY <1>3, <2>5 DEF Slotted
    <3> QED
      BY <1>3, <2>5, <3>1 DEF Slotted
  <2> QED
    BY <2>2, <2>3, <2>4, <2>5
<1>11. /\ DOMAIN disk = Places
       /\ \A p \in Places : p \notin Copies(to) => disk'[p] = disk[p]
       /\ \A p \in Places : p \in Copies(to) =>
            disk'[p] = NodeAt(mem', CHOOSE b \in Range(to) : p \in Phys(b))
  BY <1>1 DEF CInv, StoreOK, DiskWith, Moves
<1>12. ASSUME NEW b \in Blocks, b \notin Range(to), NEW p \in Phys(b) PROVE disk'[p] = disk[p]
  <2>1. p \in Places
    BY DEF Places
  <2>2. p \notin Copies(to)
    BY <1>3, <1>12, PlacesAssumption DEF Copies, Slotted
  <2> QED
    BY <1>11, <2>1, <2>2
<1>13. ASSUME NEW b \in Range(to), NEW p \in Phys(b) PROVE disk'[p] = NodeAt(mem', b)
  <2>1. b \in Blocks
    BY <1>3 DEF Slotted
  <2>2. p \in Places /\ p \in Copies(to)
    BY <2>1 DEF Places, Copies
  <2>3. (CHOOSE c \in Range(to) : p \in Phys(c)) = b
    BY <1>3, <2>1, PlacesAssumption DEF Slotted
  <2> QED
    BY <1>11, <2>2, <2>3
<1>14. ASSUME NEW t \in Looked, NEW b \in NodesOf(mem'[t]), NEW p \in Phys(b)
       PROVE  disk'[p] \in BadKinds \cup {NodeOf(t, mem'[t], b)}
  <2>1. CASE b \in Range(to)
    <3>1. NodeAt(mem', b) = NodeOf(t, mem'[t], b)
      BY <1>2, <1>10, NodeIsOf
    <3> QED
      BY <1>13, <2>1, <3>1
  <2>2. CASE b \notin Range(to)
    <3>1. b \in NodesOf(mem[t]) /\ NodeOf(t, mem'[t], b) = NodeOf(t, mem[t], b)
      BY <1>3, <1>7, <2>2 DEF Slotted
    <3>2. b \in Blocks
      BY <1>4, <3>1, NodesInBlocks
    <3>3. disk[p] \in BadKinds \cup {NodeOf(t, mem[t], b)}
      BY <3>1 DEF TreesOK, Sound, OnDisk
    <3> QED
      BY <1>12, <2>2, <3>1, <3>2, <3>3
  <2> QED
    BY <2>1, <2>2
<1>15. ASSUME NEW t \in Looked, NEW b \in NodesOf(committed[t]), NEW p \in Phys(b)
       PROVE  disk'[p] \in BadKinds \cup {NodeOf(t, committed[t], b)}
  <2>1. b \in Used(mem) /\ b \in Blocks
    <3>1. b \in Used(mem)
      BY <1>2 DEF Used
    <3>2. b \in Blocks
      BY <1>2, <1>4, NodesInBlocks
    <3> QED
      BY <3>1, <3>2
  <2>2. b \notin Range(to)
    BY <1>3, <2>1 DEF Slotted
  <2>3. disk[p] \in BadKinds \cup {NodeOf(t, committed[t], b)}
    BY DEF TreesOK, Sound, OnDisk
  <2> QED
    BY <1>12, <2>1, <2>2, <2>3
<1>16. Sound(mem)'
  BY <1>7, <1>10, <1>14 DEF Sound, OnDisk
<1>17. Sound(committed)'
  <2>1. OnDisk(committed)'
    BY <1>2, <1>15 DEF OnDisk
  <2> QED
    BY <1>2, <2>1 DEF TreesOK, Sound, Apart
<1> QED
  BY <1>16, <1>17 DEF TreesOK

(* The trees of the first generation.                                      *)
LEMMA FirstSound == Apart(InitTrees) /\ \A t \in Looked : TreeOK(t, InitTrees[t])
<1>1. Looked \subseteq DOMAIN Contents /\ ROOT_TREE \notin DOMAIN Contents
  BY ReconfirmAssumption, LayoutAssumption DEF Looked
<1>2. DOMAIN InitTrees = DOMAIN Contents \cup {ROOT_TREE}
  BY DEF InitTrees
<1>3. Apart(InitTrees)
  BY <1>1, <1>2, LayoutAssumption DEF Apart
<1>4. ASSUME NEW t \in Looked PROVE TreeOK(t, InitTrees[t])
  <2> DEFINE leaves == [i \in DOMAIN Contents[t] |-> Contents[t][i][1]]
             tree   == InitTrees[t]
             W      == Width(t)
             b      == Layout[t]
  <2>1. tree = TreeAt(b, leaves)
    BY <1>1 DEF InitTrees
  <2>2. W \in Nat /\ DOMAIN Contents[t] = 1..W /\ b \in Nat /\ NodesOf(tree) \subseteq Blocks
    BY <1>1, <1>2, OrderAssumption, LayoutAssumption DEF Looked, IsSequence, Width
  <2>3. Len(leaves) = W /\ DOMAIN leaves = 1..W
    BY <2>2
  <2>4. \A i \in 1..W : leaves[i] = Contents[t][i][1] /\ 1 \in DOMAIN Contents[t][i]
    BY <2>2, OrderAssumption DEF Looked
  <2> HIDE DEF leaves
  <2>5. /\ tree.leaf = [i \in 1..W |-> Leaf(b + i - 1, 1, leaves[i])]
        /\ tree.top.at = IF W = 1 THEN b ELSE b + W
    BY <2>1, <2>3 DEF TreeAt
  <2> HIDE DEF tree, W, b
  <2>6. /\ tree.leaf = [i \in 1..W |-> tree.leaf[i]] /\ DOMAIN tree.leaf = 1..W
        /\ \A i \in 1..W : tree.leaf[i].at = b + i - 1 /\ tree.leaf[i].items = leaves[i]
    BY <2>5 DEF Leaf
  <2>7. tree.top.at \in Blocks /\ \A i \in 1..W : tree.leaf[i].at \in Blocks
    BY <2>2, <2>6 DEF NodesOf
  <2>8. \A i \in 1..W : /\ \A j \in 1..W : tree.leaf[i].at = tree.leaf[j].at => i = j
                        /\ tree.top.at = tree.leaf[i].at <=> W = 1
    BY <2>2, <2>5, <2>6
  <2>9. TreeOK(t, tree)
    BY <2>4, <2>6, <2>7, <2>8 DEF TreeOK, W
  <2> QED
    BY <2>9 DEF tree
<1> QED
  BY <1>3, <1>4

(* The trees are sound at first.                                           *)
LEMMA SoundInit == Init => TreesOK
<1> SUFFICES ASSUME Init PROVE TreesOK
  OBVIOUS
<1>1. PICK bad \in BadCopiesOfOne(Used(InitTrees)) :
        /\ mem = InitTrees /\ committed = mem
        /\ disk = [p \in {0} \cup UNION {Phys(b) : b \in Blocks} |->
                     IF p = 0 THEN Garbage
                     ELSE IF p \in DOMAIN bad THEN bad[p]
                     ELSE InitNode(CHOOSE b \in Blocks : p \in Phys(b))]
  BY DEF Init, InitStore
<1>2. /\ \A t \in Looked : TreeOK(t, mem[t])
      /\ Apart(mem) /\ Looked \subseteq DOMAIN mem
  BY <1>1, FirstSound, FirstTrees DEF WellRooted
<1>3. ASSUME NEW t \in Looked, NEW b \in NodesOf(mem[t]), NEW p \in Phys(b)
      PROVE  disk[p] \in BadKinds \cup {NodeOf(t, mem[t], b)}
  <2>1. b \in Blocks /\ b \in Used(mem)
    BY <1>2, NodesInBlocks DEF Used
  <2>2. p \in {0} \cup UNION {Phys(c) : c \in Blocks} /\ p # 0
    BY <2>1, PlacesAssumption
  <2>3. CASE p \in DOMAIN bad
    <3>1. bad[p] \in BadKinds
      BY <2>3 DEF BadCopiesOfOne
    <3> QED
      BY <1>1, <2>2, <2>3, <3>1
  <2>4. CASE p \notin DOMAIN bad
    <3>1. (CHOOSE c \in Blocks : p \in Phys(c)) = b
      BY <2>1, PlacesAssumption
    <3>2. disk[p] = InitNode(b)
      BY <1>1, <2>2, <2>4, <3>1
    <3>3. InitNode(b) = NodeOf(t, mem[t], b)
      BY <1>2, <2>1, NodeIsOf DEF InitNode
    <3> QED
      BY <3>2, <3>3
  <2> QED
    BY <2>3, <2>4
<1>4. Sound(mem)
  BY <1>2, <1>3 DEF Sound, OnDisk
<1> QED
  BY <1>1, <1>4 DEF TreesOK

-----------------------------------------------------------------------------
(* The steps.                                                              *)

(* Truth in its two halves.                                                *)
LEMMA TruthIs ==
    ASSUME NEW r
    PROVE  Truth(r) = IF IsLive(r.token) /\ IsStored(r) THEN "corruption" ELSE "stale"
  BY DEF Truth, IsLive, IsStored, Sums

(* What the trees and the device say does not change with the reads.       *)
LEMMA SameStore ==
    ASSUME UNCHANGED storeVars
    PROVE  /\ TreesOK <=> TreesOK'
           /\ Readable <=> Readable'
           /\ Impostor <=> Impostor'
           /\ \A s : (LeafEdge(s) <=> LeafEdge(s)') /\ (IsLive(s) <=> IsLive(s)')
           /\ \A r : (IsStored(r) <=> IsStored(r)') /\ Truth(r)' = Truth(r)
<1>1. disk' = disk /\ supers' = supers /\ mem' = mem /\ committed' = committed
  BY DEF storeVars
<1>2. TreesOK <=> TreesOK'
  BY <1>1 DEF TreesOK, Sound, OnDisk, Apart
<1>3. Readable <=> Readable'
  BY <1>1 DEF Readable, GoodSupers
<1>4. Impostor <=> Impostor'
  BY <1>1 DEF Impostor
<1>5. \A s : LeafEdge(s) <=> LeafEdge(s)'
  BY <1>1 DEF LeafEdge
<1>6. \A t : Items(t)' = Items(t)
  BY <1>1 DEF Items
<1>7. \A s : IsLive(s) <=> IsLive(s)'
  BY <1>6 DEF IsLive
<1>8. \A r : IsStored(r) <=> IsStored(r)'
  BY <1>6 DEF IsStored
<1>9. \A r : Truth(r)' = Truth(r)
  BY <1>6 DEF Truth
<1> QED
  BY <1>2, <1>3, <1>4, <1>5, <1>7, <1>8, <1>9

(* In a freeze window, the walk of a readable root tree finds both roots.  *)
LEMMA WalkFinds ==
    ASSUME CInv, WalkLiveRoots, sb.gen = Gen(committed), Readable
    PROVE  RootsFound(roots)'
<1> DEFINE got == read_node(Chunks, Last(queue).at, Last(queue).exp)
           its == ItemsOf(got, ROOT_ITEM)
           bytenr(t, old) == IF \E it \in its : it.key[1] = t
                             THEN (CHOOSE it \in its : it.key[1] = t).val
                             ELSE old
           b   == RootAt(committed)
<1>1. /\ pc = "walk" /\ queue # <<>>
      /\ roots'.ext = bytenr(EXTENT_TREE, roots.ext)
      /\ roots'.csum = bytenr(CSUM_TREE, roots.csum)
  BY DEF WalkLiveRoots
<1>2. got = read_node(Chunks, b, DontCheck)
  <2>1. queue = <<Ref(b, DontCheck)>>
    BY <1>1 DEF CInv, WalkOK, SuperReadOK
  <2> QED
    BY <2>1 DEF Last, Ref
<1>3. b \in Blocks /\ WellRooted(committed) /\ RootOnDisk(committed) /\ b \in Used(committed)
  BY DEF CInv, StoreOK, WellRooted, Used, NodesOf, RootAt
<1>4. RootNode(committed) \in {disk[p] : p \in Phys(b)}
  <2>1. PICK p \in Phys(b) : disk[p] = NodeAt(committed, b)
    BY <1>3 DEF Readable
  <2>2. disk[p].kind = "node" /\ disk[p].fsid = "own"
    <3>1. \A t, tree : NodeOf(t, tree, b).kind = "node" /\ NodeOf(t, tree, b).fsid = "own"
      BY OwnNode
    <3> QED
      BY <2>1, <3>1 DEF NodeAt
  <2>3. disk[p] \in BadKinds \cup {RootNode(committed)}
    BY <1>3 DEF RootOnDisk
  <2> QED
    BY <2>2, <2>3, BadIsBad
<1>5. Fine(got) /\ got.node = RootNode(committed)
  <2> DEFINE own == RootNode(committed)
  <2>1. own.kind = "node" /\ own.fsid = "own" /\ own.bytenr = b
    BY DEF RootNode, Node
  <2>2. \A p \in Phys(b) : disk[p] \in BadKinds \cup {own}
    BY <1>3 DEF RootOnDisk
  <2> HIDE DEF own
  <2> QED
    BY <1>2, <1>3, <1>4, <2>1, <2>2, ReadsNode DEF own
<1>6. PICK items : /\ committed[ROOT_TREE].leaf = <<Leaf(b, Gen(committed), items)>>
                   /\ Leads(items, committed)
  BY <1>3 DEF WellRooted
<1>7. AtLeaf(got) /\ got.node.items = items
  BY <1>5, <1>6 DEF RootNode, Node, AtLeaf, Leaf
<1>8. \A it : it \in its <=> it \in Range(items) /\ it.key[2] = ROOT_ITEM
  BY <1>7 DEF ItemsOf
<1> HIDE DEF its
<1>9. ASSUME NEW t \in Looked, NEW old PROVE bytenr(t, old) # -1
  <2>1. /\ \E it \in its : it.key[1] = t
        /\ \A it \in its : it.key[1] = t => it.val = committed[t].top.at
    BY <1>6, <1>8 DEF Leads, IsRootItem
  <2>2. committed[t].top.at \in Nat
    BY <1>3, StoreAssumption DEF WellRooted
  <2> QED
    BY <2>1, <2>2
<1>10. bytenr(EXTENT_TREE, roots.ext) # -1 /\ bytenr(CSUM_TREE, roots.csum) # -1
  BY <1>9 DEF Looked
<1> HIDE DEF bytenr
<1> QED
  BY <1>1, <1>10 DEF RootsFound

(* The descent of the extent tree ends with the right answer.              *)
LEMMA CoverStep ==
    ASSUME CInv, VInv, Calm, ExtentCovers
    PROVE  \/ /\ pc' = "judged" /\ verdict' = "unverifiable" /\ ~Readable
           \/ /\ pc' = "judged" /\ verdict' = "stale" /\ ~IsLive(req.token)
           \/ /\ pc' = "csum" /\ IsLive(req.token)
              /\ at' = committed[CSUM_TREE].top.at /\ depth' = 0
           \/ /\ pc' = "cover" /\ depth' = 1
              /\ \E n \in 1..Width(EXTENT_TREE) :
                   /\ at' = committed[EXTENT_TREE].leaf[n].at
                   /\ Chosen(EXTENT_TREE, CoverTarget(req.token), n)
<1> DEFINE got    == read_node(Chunks, at, DontCheck)
           target == CoverTarget(req.token)
           t      == EXTENT_TREE
<1>1. /\ steady /\ ~LeafEdge(req.token) /\ ~Impostor
      /\ req.token \in Nat /\ target \in Keys /\ t \in Looked
      /\ Sound(committed) /\ \A u \in Looked : TreeOK(u, committed[u])
  BY ReconfirmAssumption, CoverTargetIsKey DEF Calm, VInv, WindowOK, TreesOK, Sound, Looked
<1>2. pc = "cover" /\ Reached(t, target) /\ roots.csum = committed[CSUM_TREE].top.at
  BY <1>1 DEF ExtentCovers, VInv, DescentOK, RootsOK, Calm
<1>3. IF depth = MaxDepth \/ got.read_error \/ got.all_mirrors_failed
      THEN pc' = "judged" /\ verdict' = "unverifiable"
      ELSE IF got.node.level = 0
      THEN IF Cover(got.node, req.token) = "live"
           THEN pc' = "csum" /\ at' = roots.csum /\ depth' = 0
           ELSE pc' = "judged" /\ verdict' = "stale"
      ELSE IF UpTo(got.node, target) = 0 THEN pc' = "judged" /\ verdict' = "stale"
      ELSE /\ at' = got.node.items[UpTo(got.node, target)].val.at
           /\ depth' = depth + 1 /\ pc' = pc
  BY DEF ExtentCovers, Descend, Judge
<1> HIDE DEF got, target, t
<1>4. \/ (got.read_error \/ got.all_mirrors_failed) /\ ~Readable
      \/ /\ ~got.read_error /\ ~got.all_mirrors_failed /\ depth # MaxDepth
         /\ \/ /\ got.node.level = 0
               /\ \E n \in 1..Width(t) : /\ got.node.items = committed[t].leaf[n].items
                                          /\ Chosen(t, target, n)
            \/ /\ got.node.level # 0 /\ UpTo(got.node, target) = 0
               /\ \A i \in 1..Width(t) : ~KeyLeq(FirstKey(t, i), target)
            \/ /\ got.node.level # 0 /\ UpTo(got.node, target) # 0 /\ depth = 0
               /\ \E n \in 1..Width(t) :
                    /\ got.node.items[UpTo(got.node, target)].val.at = committed[t].leaf[n].at
                    /\ Chosen(t, target, n)
  BY <1>1, <1>2, DescentRight DEF got
<1>5. CASE (got.read_error \/ got.all_mirrors_failed) /\ ~Readable
  BY <1>3, <1>5
<1>6. CASE /\ ~got.read_error /\ ~got.all_mirrors_failed /\ depth # MaxDepth
           /\ got.node.level = 0
           /\ \E n \in 1..Width(t) : /\ got.node.items = committed[t].leaf[n].items
                                      /\ Chosen(t, target, n)
  <2>1. Cover(got.node, req.token) = "live" <=> IsLive(req.token)
    BY <1>1, <1>6, ExtentLeafDecides DEF t, target
  <2> QED
    BY <1>2, <1>3, <1>6, <2>1
<1>7. CASE /\ ~got.read_error /\ ~got.all_mirrors_failed /\ depth # MaxDepth
           /\ got.node.level # 0 /\ UpTo(got.node, target) = 0
           /\ \A i \in 1..Width(t) : ~KeyLeq(FirstKey(t, i), target)
  <2>1. ~IsLive(req.token)
    BY <1>1, <1>7, NoLeafNoItem DEF t, target
  <2> QED
    BY <1>3, <1>7, <2>1
<1>8. CASE /\ ~got.read_error /\ ~got.all_mirrors_failed /\ depth # MaxDepth
           /\ got.node.level # 0 /\ UpTo(got.node, target) # 0 /\ depth = 0
           /\ \E n \in 1..Width(t) :
                /\ got.node.items[UpTo(got.node, target)].val.at = committed[t].leaf[n].at
                /\ Chosen(t, target, n)
  <2>1. /\ at' = got.node.items[UpTo(got.node, target)].val.at
        /\ depth' = 1 /\ pc' = "cover"
    BY <1>2, <1>3, <1>8
  <2> QED
    BY <1>8, <2>1 DEF t, target
<1> QED
  BY <1>4, <1>5, <1>6, <1>7, <1>8

(* And so does the descent of the checksum tree.                           *)
LEMMA CsumStep ==
    ASSUME CInv, VInv, Calm, CsumAt
    PROVE  \/ /\ pc' = "judged" /\ verdict' = "unverifiable" /\ ~Readable
           \/ /\ pc' = "judged"
              /\ verdict' = IF IsStored(req) THEN "corruption" ELSE "stale"
           \/ /\ pc' = "csum" /\ depth' = 1
              /\ \E n \in 1..Width(CSUM_TREE) :
                   /\ at' = committed[CSUM_TREE].leaf[n].at
                   /\ Chosen(CSUM_TREE, CsumTarget(req.token), n)
<1> DEFINE got    == read_node(Chunks, at, DontCheck)
           target == CsumTarget(req.token)
           t      == CSUM_TREE
<1>1. /\ ~Impostor
      /\ req.token \in Nat /\ target \in Keys /\ t \in Looked
      /\ Sound(committed) /\ \A u \in Looked : TreeOK(u, committed[u])
  BY ReconfirmAssumption, CsumTargetIsKey DEF Calm, VInv, WindowOK, TreesOK, Sound, Looked
<1>2. pc = "csum" /\ Reached(t, target)
  BY <1>1 DEF CsumAt, VInv, DescentOK, Calm
<1>3. IF depth = MaxDepth \/ got.read_error \/ got.all_mirrors_failed
      THEN pc' = "judged" /\ verdict' = "unverifiable"
      ELSE IF got.node.level = 0
      THEN /\ pc' = "judged"
           /\ verdict' = IF LiveCsum(got.node, req.token) = {req.stored}
                         THEN "corruption" ELSE "stale"
      ELSE IF UpTo(got.node, target) = 0 THEN pc' = "judged" /\ verdict' = "stale"
      ELSE /\ at' = got.node.items[UpTo(got.node, target)].val.at
           /\ depth' = depth + 1 /\ pc' = pc
  BY DEF CsumAt, Descend, Judge
<1> HIDE DEF got, target, t
<1>4. \/ (got.read_error \/ got.all_mirrors_failed) /\ ~Readable
      \/ /\ ~got.read_error /\ ~got.all_mirrors_failed /\ depth # MaxDepth
         /\ \/ /\ got.node.level = 0
               /\ \E n \in 1..Width(t) : /\ got.node.items = committed[t].leaf[n].items
                                          /\ Chosen(t, target, n)
            \/ /\ got.node.level # 0 /\ UpTo(got.node, target) = 0
               /\ \A i \in 1..Width(t) : ~KeyLeq(FirstKey(t, i), target)
            \/ /\ got.node.level # 0 /\ UpTo(got.node, target) # 0 /\ depth = 0
               /\ \E n \in 1..Width(t) :
                    /\ got.node.items[UpTo(got.node, target)].val.at = committed[t].leaf[n].at
                    /\ Chosen(t, target, n)
  BY <1>1, <1>2, DescentRight DEF got
<1>5. CASE (got.read_error \/ got.all_mirrors_failed) /\ ~Readable
  BY <1>3, <1>5
<1>6. CASE /\ ~got.read_error /\ ~got.all_mirrors_failed /\ depth # MaxDepth
           /\ got.node.level = 0
           /\ \E n \in 1..Width(t) : /\ got.node.items = committed[t].leaf[n].items
                                      /\ Chosen(t, target, n)
  <2>1. LiveCsum(got.node, req.token) = {req.stored} <=> IsStored(req)
    BY <1>1, <1>6, CsumLeafDecides DEF t, target
  <2> QED
    BY <1>3, <1>6, <2>1
<1>7. CASE /\ ~got.read_error /\ ~got.all_mirrors_failed /\ depth # MaxDepth
           /\ got.node.level # 0 /\ UpTo(got.node, target) = 0
           /\ \A i \in 1..Width(t) : ~KeyLeq(FirstKey(t, i), target)
  <2>1. ~IsStored(req)
    BY <1>1, <1>7, NoLeafNoItem DEF t, target
  <2> QED
    BY <1>3, <1>7, <2>1
<1>8. CASE /\ ~got.read_error /\ ~got.all_mirrors_failed /\ depth # MaxDepth
           /\ got.node.level # 0 /\ UpTo(got.node, target) # 0 /\ depth = 0
           /\ \E n \in 1..Width(t) :
                /\ got.node.items[UpTo(got.node, target)].val.at = committed[t].leaf[n].at
                /\ Chosen(t, target, n)
  <2>1. /\ at' = got.node.items[UpTo(got.node, target)].val.at
        /\ depth' = 1 /\ pc' = "csum"
    BY <1>2, <1>3, <1>8
  <2> QED
    BY <1>8, <2>1 DEF t, target
<1> QED
  BY <1>4, <1>5, <1>6, <1>7, <1>8

(* A read of a request in hand: what the window promises of it is judged   *)
(* by the same trees after the step as before.                             *)
LEMMA SameWindow ==
    ASSUME VInv, UNCHANGED <<storeVars, frozen, req, steady>>
    PROVE  /\ TreesOK' /\ WindowOK'
           /\ Calm' <=> Calm
           /\ Readable' <=> Readable
           /\ IsLive(req.token)' <=> IsLive(req.token)
           /\ Truth(req)' = Truth(req)
           /\ committed' = committed
<1>1. committed' = committed /\ mem' = mem /\ frozen' = frozen /\ req' = req /\ steady' = steady
  BY DEF storeVars
<1>2. UNCHANGED storeVars
  OBVIOUS
<1>3. TreesOK'
  BY <1>2, SameStore DEF VInv
<1>4. WindowOK'
  BY <1>1 DEF VInv, WindowOK
<1>5. LeafEdge(req.token)' <=> LeafEdge(req.token)
  BY <1>1 DEF LeafEdge
<1>6. Impostor' <=> Impostor
  BY <1>2, SameStore
<1>7. Calm' <=> Calm
  BY <1>1, <1>5, <1>6 DEF Calm
<1>8. Readable' <=> Readable
  BY <1>2, SameStore
<1>9. IsLive(req.token)' <=> IsLive(req.token)
  BY <1>1 DEF IsLive, Items
<1>10. Truth(req)' = Truth(req)
  BY <1>1 DEF Truth, Items
<1> QED
  BY <1>1, <1>3, <1>4, <1>7, <1>8, <1>9, <1>10

(* A step that ends with no verdict, and only where a copy was missing.    *)
LEMMA NoVerdict ==
    ASSUME VInv, UNCHANGED <<storeVars, frozen, req, steady>>,
           pc' = "judged", verdict' = "unverifiable", Calm => ~Readable
    PROVE  VInv'
<1>1. TreesOK' /\ WindowOK' /\ (Calm' <=> Calm) /\ (Readable' <=> Readable)
  BY SameWindow
<1>2. RootsOK' /\ DescentOK'
  BY DEF RootsOK, DescentOK
<1>3. VerdictLive'
  BY <1>1 DEF VerdictLive, Calm
<1> QED
  BY <1>1, <1>2, <1>3 DEF VInv

(* A step that leaves a request at the top of the extent tree, with the    *)
(* roots of the superblock that was read.                                  *)
LEMMA AtTheTop ==
    ASSUME VInv, UNCHANGED <<storeVars, frozen, req, steady>>,
           pc' = "cover", depth' = 0, at' = roots'.ext,
           steady => /\ sb'.gen = Gen(committed)
                     /\ roots'.ext = committed[EXTENT_TREE].top.at
                     /\ roots'.csum = committed[CSUM_TREE].top.at
    PROVE  VInv'
<1>1. TreesOK' /\ WindowOK' /\ (Calm' <=> Calm) /\ committed' = committed /\ steady' = steady
  BY SameWindow
<1>2. RootsOK'
  BY <1>1 DEF RootsOK
<1>3. DescentOK'
  BY <1>1 DEF DescentOK, Reached, Calm
<1>4. VerdictLive'
  BY DEF VerdictLive
<1> QED
  BY <1>1, <1>2, <1>3, <1>4 DEF VInv

(* The invariant holds at first.                                           *)
LEMMA VInit == Init => VInv
<1> SUFFICES ASSUME Init PROVE VInv
  OBVIOUS
<1>1. TreesOK
  BY SoundInit
<1>2. ~steady /\ ~frozen
  BY DEF Init
<1> QED
  BY <1>1, <1>2 DEF VInv, WindowOK, RootsOK, DescentOK, Calm, VerdictLive

(* A request is asked, a freeze window begins or ends.                     *)
LEMMA WindowStep ==
    ASSUME VInv, (\E r \in Requests : Ask(r)) \/ Freeze \/ Thaw
    PROVE  VInv'
<1>1. UNCHANGED storeVars
  BY DEF Ask, Freeze, Thaw
<1>2. TreesOK' /\ committed' = committed /\ mem' = mem
  BY <1>1, SameStore DEF VInv, storeVars
<1>3. ASSUME NEW r \in Requests, Ask(r) PROVE VInv'
  <2>1. req' = r /\ pc' = "super" /\ steady' = frozen /\ frozen' = frozen
    BY <1>3 DEF Ask
  <2>2. WindowOK'
    BY <1>2, <2>1 DEF VInv, WindowOK
  <2>3. RootsOK' /\ DescentOK' /\ VerdictLive'
    BY <2>1 DEF RootsOK, DescentOK, VerdictLive
  <2> QED
    BY <1>2, <2>2, <2>3 DEF VInv
<1>4. CASE Freeze \/ Thaw
  <2>1. ~steady' /\ (frozen' => mem = committed)
    BY <1>4 DEF Freeze, Thaw, VInv, WindowOK
  <2>2. WindowOK'
    BY <1>2, <2>1 DEF WindowOK
  <2>3. RootsOK' /\ DescentOK' /\ VerdictLive'
    BY <2>1 DEF RootsOK, DescentOK, VerdictLive, Calm
  <2> QED
    BY <1>2, <2>2, <2>3 DEF VInv
<1> QED
  BY <1>3, <1>4

(* The roots are read: the superblock is the committed one, and so are the *)
(* roots that are cached for it or found by the walk.                      *)
LEMMA RootsStep ==
    ASSUME CInv, VInv, ReadLiveSuper \/ WalkLiveRoots \/ RootsResolved
    PROVE  VInv'
<1>1. UNCHANGED <<storeVars, frozen, req, steady>>
  BY DEF ReadLiveSuper, WalkLiveRoots, RootsResolved
<1>2. /\ TreesOK' /\ WindowOK' /\ (Calm' <=> Calm) /\ (Readable' <=> Readable)
      /\ committed' = committed
  BY <1>1, SameWindow
<1>3. CASE ReadLiveSuper
  <2>1. CASE GoodSupers = {}
    <3>1. pc' = "judged" /\ verdict' = "unverifiable"
      BY <1>3, <2>1 DEF ReadLiveSuper, Judge
    <3>2. ~Readable
      BY <2>1 DEF Readable
    <3> QED
      BY <1>1, <3>1, <3>2, NoVerdict
  <2>2. CASE GoodSupers # {}
    <3>1. depth' = 0 /\ sb' = read_superblock
      BY <1>3, <2>2 DEF ReadLiveSuper
    <3>2. sb'.gen = Gen(committed)
      BY <2>2, <3>1, ReadsLastSuper DEF CInv, SuperOf, Gen
    <3>3. CASE CachedRootsAt(sb'.gen)
      <4>1. roots' = cached /\ at' = cached.ext /\ pc' = "cover" /\ cached.gen = Gen(committed)
        BY <1>3, <2>2, <3>2, <3>3 DEF ReadLiveSuper, CachedRootsAt
      <4>2. /\ roots'.ext = committed[EXTENT_TREE].top.at
            /\ roots'.csum = committed[CSUM_TREE].top.at
        BY <4>1 DEF CInv, CachedOK
      <4> QED
        BY <1>1, <3>1, <3>2, <4>1, <4>2, AtTheTop
    <3>4. CASE ~CachedRootsAt(sb'.gen)
      <4>1. queue' = <<Ref(sb'.root, DontCheck)>> /\ pc' = "walk"
        BY <1>3, <2>2, <3>4 DEF ReadLiveSuper
      <4>2. RootsOK'
        BY <1>2, <3>1, <3>2, <4>1 DEF RootsOK
      <4>3. DescentOK' /\ VerdictLive'
        BY <4>1 DEF DescentOK, VerdictLive
      <4> QED
        BY <1>2, <4>2, <4>3 DEF VInv
    <3> QED
      BY <3>3, <3>4
  <2> QED
    BY <2>1, <2>2
<1>4. CASE WalkLiveRoots
  <2>1. pc = "walk" /\ pc' = "walk" /\ sb' = sb /\ depth' = depth /\ steady' = steady
    BY <1>4 DEF WalkLiveRoots
  <2>2. steady => sb.gen = Gen(committed) /\ depth = 0
    BY <2>1 DEF VInv, RootsOK
  <2>3. steady /\ Readable => RootsFound(roots)'
    BY <1>4, <2>2, WalkFinds
  <2>4. RootsOK'
    BY <1>2, <2>1, <2>2, <2>3 DEF RootsOK
  <2>5. DescentOK' /\ VerdictLive'
    BY <2>1 DEF DescentOK, VerdictLive
  <2> QED
    BY <1>2, <2>4, <2>5 DEF VInv
<1>5. CASE RootsResolved
  <2>1. /\ pc = "walk" /\ queue = <<>> /\ sb' = sb /\ roots' = roots /\ depth' = depth
    BY <1>5 DEF RootsResolved
  <2>2. steady => /\ sb.gen = Gen(committed) /\ depth = 0
                  /\ Readable => RootsFound(roots)
    BY <2>1 DEF VInv, RootsOK
  <2>3. CASE RootsFound(roots)
    <3>1. at' = roots.ext /\ pc' = "cover"
      BY <1>5, <2>3 DEF RootsResolved
    <3>2. steady => /\ roots.ext = committed[EXTENT_TREE].top.at
                    /\ roots.csum = committed[CSUM_TREE].top.at
      BY <2>1, <2>2, <2>3 DEF RootsFound, CInv, WalkOK
    <3>3. CASE steady
      BY <1>1, <2>1, <2>2, <3>1, <3>2, <3>3, AtTheTop
    <3>4. CASE ~steady
      BY <1>1, <1>2, <3>4 DEF VInv, RootsOK, DescentOK, VerdictLive, Calm
    <3> QED
      BY <3>3, <3>4
  <2>4. CASE ~RootsFound(roots)
    <3>1. pc' = "judged" /\ verdict' = "unverifiable"
      BY <1>5, <2>4 DEF RootsResolved, Judge
    <3>2. Calm => ~Readable
      BY <2>2, <2>4 DEF Calm
    <3> QED
      BY <1>1, <3>1, <3>2, NoVerdict
  <2> QED
    BY <2>3, <2>4
<1> QED
  BY <1>3, <1>4, <1>5

(* The descents: each ends with the truth about the request, or goes on.   *)
LEMMA DescentStep ==
    ASSUME CInv, VInv, ExtentCovers \/ CsumAt
    PROVE  VInv'
<1>1. UNCHANGED <<storeVars, frozen, req, steady>> /\ UNCHANGED <<sb, roots>>
  BY DEF ExtentCovers, CsumAt
<1>2. /\ TreesOK' /\ WindowOK' /\ (Calm' <=> Calm) /\ (Readable' <=> Readable)
      /\ (IsLive(req.token)' <=> IsLive(req.token)) /\ Truth(req)' = Truth(req)
      /\ committed' = committed /\ req' = req /\ steady' = steady
  BY <1>1, SameWindow
<1>3. pc \in {"cover", "csum"} /\ pc' \in {"cover", "csum", "judged"}
  BY DEF ExtentCovers, CsumAt, Descend, Judge
<1>4. RootsOK'
  BY <1>1, <1>2, <1>3 DEF VInv, RootsOK
<1>5. CASE ~Calm
  <2>1. DescentOK'
    BY <1>2, <1>5 DEF DescentOK
  <2>2. VerdictLive'
    BY <1>2, <1>5 DEF VerdictLive, Calm
  <2> QED
    BY <1>2, <1>4, <2>1, <2>2 DEF VInv
<1>6. CASE Calm /\ ExtentCovers
  <2>1. CASE pc' = "judged" /\ verdict' = "unverifiable" /\ ~Readable
    BY <1>1, <2>1, NoVerdict
  <2>2. CASE pc' = "judged" /\ verdict' = "stale" /\ ~IsLive(req.token)
    <3>1. Truth(req) = "stale"
      BY <2>2, TruthIs
    <3>2. DescentOK' /\ VerdictLive'
      BY <1>2, <2>2, <3>1 DEF DescentOK, VerdictLive
    <3> QED
      BY <1>2, <1>4, <3>2 DEF VInv
  <2>3. CASE /\ pc' = "csum" /\ IsLive(req.token)
             /\ at' = committed[CSUM_TREE].top.at /\ depth' = 0
    <3>1. Reached(CSUM_TREE, CsumTarget(req.token))'
      BY <1>2, <2>3 DEF Reached
    <3>2. DescentOK' /\ VerdictLive'
      BY <1>2, <2>3, <3>1 DEF DescentOK, VerdictLive
    <3> QED
      BY <1>2, <1>4, <3>2 DEF VInv
  <2>4. CASE /\ pc' = "cover" /\ depth' = 1
             /\ \E n \in 1..Width(EXTENT_TREE) :
                  /\ at' = committed[EXTENT_TREE].leaf[n].at
                  /\ Chosen(EXTENT_TREE, CoverTarget(req.token), n)
    <3>1. Reached(EXTENT_TREE, CoverTarget(req.token))'
      BY <1>2, <2>4 DEF Reached, Chosen, FirstKey
    <3>2. DescentOK' /\ VerdictLive'
      BY <1>2, <2>4, <3>1 DEF DescentOK, VerdictLive
    <3> QED
      BY <1>2, <1>4, <3>2 DEF VInv
  <2> QED
    BY <1>6, <2>1, <2>2, <2>3, <2>4, CoverStep
<1>7. CASE Calm /\ CsumAt
  <2>1. IsLive(req.token)
    BY <1>7 DEF VInv, DescentOK, CsumAt
  <2>2. CASE pc' = "judged" /\ verdict' = "unverifiable" /\ ~Readable
    BY <1>1, <2>2, NoVerdict
  <2>3. CASE pc' = "judged" /\ verdict' = IF IsStored(req) THEN "corruption" ELSE "stale"
    <3>1. verdict' = Truth(req)
      BY <2>1, <2>3, TruthIs
    <3>2. DescentOK' /\ VerdictLive'
      BY <1>2, <2>3, <3>1 DEF DescentOK, VerdictLive
    <3> QED
      BY <1>2, <1>4, <3>2 DEF VInv
  <2>4. CASE /\ pc' = "csum" /\ depth' = 1
             /\ \E n \in 1..Width(CSUM_TREE) :
                  /\ at' = committed[CSUM_TREE].leaf[n].at
                  /\ Chosen(CSUM_TREE, CsumTarget(req.token), n)
    <3>1. Reached(CSUM_TREE, CsumTarget(req.token))'
      BY <1>2, <2>4 DEF Reached, Chosen, FirstKey
    <3>2. DescentOK' /\ VerdictLive'
      BY <1>2, <2>1, <2>4, <3>1 DEF DescentOK, VerdictLive
    <3> QED
      BY <1>2, <1>4, <3>2 DEF VInv
  <2> QED
    BY <1>7, <2>2, <2>3, <2>4, CsumStep
<1> QED
  BY <1>5, <1>6, <1>7

(* The filesystem writes only outside a freeze window, and keeps its trees *)
(* sound.                                                                  *)
LEMMA FsStep ==
    ASSUME CInv, VInv,
           \/ \E i \in DOMAIN Contents[EXTENT_TREE] :
                \E v \in DOMAIN Contents[EXTENT_TREE][i] : FsWriteNodes(i, v)
           \/ FsWriteSuper
    PROVE  VInv'
<1>1. ~frozen /\ UNCHANGED lookVars
  BY DEF FsWriteNodes, FsWriteSuper
<1>2. ~frozen' /\ ~steady'
  BY <1>1 DEF lookVars, VInv, WindowOK
<1>3. (WindowOK /\ RootsOK /\ DescentOK /\ VerdictLive)'
  BY <1>2 DEF WindowOK, RootsOK, DescentOK, VerdictLive, Calm
<1>4. ASSUME NEW i \in DOMAIN Contents[EXTENT_TREE],
             NEW v \in DOMAIN Contents[EXTENT_TREE][i], FsWriteNodes(i, v)
      PROVE  TreesOK'
  <2> DEFINE change == [t \in {EXTENT_TREE, CSUM_TREE} |->
                           [leaf |-> i, items |-> Contents[t][i][v]]]
  <2>1. WriteNodes(change, FALSE)
    BY <1>4 DEF FsWriteNodes
  <2>2. /\ DOMAIN change = Looked
        /\ \A t \in Looked : change[t].leaf = i /\ change[t].items = Contents[t][i][v]
    BY DEF Looked
  <2> HIDE DEF change
  <2> QED
    BY <2>1, <2>2, TransactionSound DEF VInv
<1>5. CASE FsWriteSuper
  <2>1. committed' = mem /\ mem' = mem /\ disk' = disk
    BY <1>5 DEF FsWriteSuper, WriteSuper
  <2> QED
    BY <1>3, <2>1 DEF VInv, TreesOK, Sound, OnDisk, Apart
<1> QED
  BY <1>3, <1>4, <1>5 DEF VInv

(* Every step keeps the invariant.                                         *)
LEMMA VStep == CInv /\ VInv /\ [Next]_vars => VInv'
<1> SUFFICES ASSUME CInv, VInv, [Next]_vars PROVE VInv'
  OBVIOUS
<1>1. CASE Reconfirm
  BY <1>1, RootsStep, DescentStep DEF Reconfirm
<1>2. CASE (\E r \in Requests : Ask(r)) \/ Freeze \/ Thaw
  BY <1>2, WindowStep
<1>3. CASE \/ \E i \in DOMAIN Contents[EXTENT_TREE] :
                \E v \in DOMAIN Contents[EXTENT_TREE][i] : FsWriteNodes(i, v)
           \/ FsWriteSuper
  BY <1>3, FsStep
<1>4. CASE UNCHANGED vars
  <2>1. /\ UNCHANGED <<storeVars, frozen, req, steady>>
        /\ UNCHANGED <<pc, sb, roots, queue, at, depth, verdict>>
    BY <1>4 DEF vars, lookVars
  <2>2. /\ TreesOK' /\ WindowOK' /\ (Calm' <=> Calm) /\ (Readable' <=> Readable)
        /\ (IsLive(req.token)' <=> IsLive(req.token)) /\ Truth(req)' = Truth(req)
        /\ committed' = committed
    BY <2>1, SameWindow
  <2>3. RootsOK'
    BY <2>1, <2>2 DEF VInv, RootsOK, RootsFound
  <2>4. DescentOK'
    BY <2>1, <2>2 DEF VInv, DescentOK, Reached, Chosen, FirstKey
  <2>5. VerdictLive'
    BY <2>1, <2>2 DEF VInv, VerdictLive, Calm
  <2> QED
    BY <2>2, <2>3, <2>4, <2>5 DEF VInv
<1> QED
  BY <1>1, <1>2, <1>3, <1>4 DEF Next

-----------------------------------------------------------------------------
(* The theorems.                                                           *)

(* The inductive invariant: a request that is judged in a freeze window    *)
(* goes from the committed superblock over the committed roots to the leaf *)
(* that decides it.                                                        *)
THEOREM VerdictInvariance == Spec => []VInv
<1>1. Init => VInv
  BY VInit
<1>2. CInv /\ VInv /\ [Next]_vars => VInv'
  BY VStep
<1> QED
  BY <1>1, <1>2, Invariance, PTL DEF Spec

(* Before a repair, reconfirm judges a sector by what the filesystem says  *)
(* of it now: for trees of any size, however many commits since the roots  *)
(* were cached and whichever copies are bad, a verdict that a freeze       *)
(* window covers is the truth about the committed trees, and there is one  *)
(* whenever every node has a good copy.                                    *)
THEOREM VerdictIsLive == Spec => []VerdictLive
<1>1. VInv => VerdictLive
  BY DEF VInv
<1> QED
  BY <1>1, VerdictInvariance, PTL

=============================================================================
