--------------------------- MODULE MetadataScanProofs ---------------------------
(***************************************************************************)
(* Proofs about MetadataScan, for trees of any number of leaves, any       *)
(* chunks and extents, any trouble on the device and any number of         *)
(* transactions: no sector and no extent is handed to the scrub twice, no  *)
(* block is read twice in a walk, a scan that reports no loss has lost     *)
(* nothing, and on an idle filesystem one good copy of each node is enough *)
(* to lose nothing. The first part holds the facts about MetadataStore     *)
(* this rests on: what picking from a sequence yields, what read_node      *)
(* returns, and what every node on the device looks like however many      *)
(* transactions, lost writes and bad copies there have been.               *)
(***************************************************************************)
EXTENDS MetadataScan, WellFoundedInduction, FiniteSetTheorems, TLAPS

-----------------------------------------------------------------------------
(* Numbers and sequences.                                                  *)

(* A set of naturals that is not empty has a smallest element.             *)
LEMMA MinIn ==
    ASSUME NEW T \in SUBSET Nat, T # {}
    PROVE  Min(T) \in T /\ \A y \in T : Min(T) <= y
<1>1. PICK x \in T : \A y \in T : ~(<<y, x>> \in OpToRel(<, Nat))
  BY NatLessThanWellFounded, WFMin
<1>2. \A y \in T : ~(y < x)
  BY <1>1 DEF OpToRel
<1>3. \A y \in T : x <= y
  BY <1>2
<1> QED
  BY <1>3 DEF Min

(* Induction: a set of naturals with 0 in it, and with each number the     *)
(* next one, has them all.                                                 *)
LEMMA Counting ==
    ASSUME NEW T \in SUBSET Nat, 0 \in T, \A n \in T : n + 1 \in T
    PROVE  T = Nat
<1> SUFFICES ASSUME Nat \ T # {} PROVE FALSE
  OBVIOUS
<1> DEFINE m == Min(Nat \ T)
<1>1. m \in Nat \ T /\ \A y \in Nat \ T : m <= y
  BY MinIn
<1> HIDE DEF m
<1>2. m # 0 /\ m - 1 \in Nat
  BY <1>1
<1>3. m - 1 \in T
  BY <1>1, <1>2
<1> QED
  BY <1>1, <1>2, <1>3

(* A finite set of numbers in ascending order.                             *)
LEMMA AscendingOrder ==
    ASSUME NEW S \in SUBSET Int, IsFiniteSet(S)
    PROVE  /\ Cardinality(S) \in Nat
           /\ Ascending(S) \in [1..Cardinality(S) -> S]
           /\ \A k, l \in 1..Cardinality(S) : k < l => Ascending(S)[k] < Ascending(S)[l]
           /\ \A x \in S : \E k \in 1..Cardinality(S) : Ascending(S)[k] = x
<1> DEFINE n       == Cardinality(S)
           upto(x) == {y \in S : y <= x}
           rank    == [x \in S |-> Cardinality(upto(x))]
<1>1. IsFiniteSet(S) /\ n \in Nat
  BY FS_CardinalityType
<1>2. ASSUME NEW x \in S
      PROVE  /\ IsFiniteSet(upto(x)) /\ Cardinality(upto(x)) \in 1..n
  <2>1. upto(x) \in SUBSET S /\ x \in upto(x)
    OBVIOUS
  <2>2. IsFiniteSet(upto(x)) /\ Cardinality(upto(x)) <= n
    BY <1>1, <2>1, FS_Subset
  <2>3. Cardinality(upto(x)) \in Nat /\ Cardinality(upto(x)) # 0
    BY <2>1, <2>2, FS_CardinalityType, FS_EmptySet
  <2> QED
    BY <1>1, <2>2, <2>3
<1>3. ASSUME NEW x \in S, NEW y \in S, x < y
      PROVE  Cardinality(upto(x)) < Cardinality(upto(y))
  <2>1. upto(x) \in SUBSET upto(y) /\ y \in upto(y) /\ y \notin upto(x)
    <3>1. S \subseteq Int
      OBVIOUS
    <3>2. \A z \in S : z <= x => z <= y
      BY <1>3, <3>1
    <3>3. y <= y /\ ~(y <= x)
      BY <1>3, <3>1
    <3> QED
      BY <3>2, <3>3, Zenon
  <2>2. /\ Cardinality(upto(x)) <= Cardinality(upto(y))
        /\ Cardinality(upto(y)) = Cardinality(upto(x)) => upto(y) = upto(x)
    BY <1>2, <2>1, FS_Subset
  <2>3. Cardinality(upto(x)) # Cardinality(upto(y))
    BY <2>1, <2>2
  <2> QED
    BY <1>2, <2>2, <2>3
<1>4. rank \in Injection(S, 1..n)
  <2>1. rank \in [S -> 1..n]
    BY <1>2
  <2>2. ASSUME NEW x \in S, NEW y \in S, rank[x] = rank[y] PROVE x = y
    <3>1. x < y \/ y < x \/ x = y
      OBVIOUS
    <3> QED
      BY <1>2, <1>3, <2>2, <3>1
  <2> QED
    BY <2>1, <2>2 DEF Injection, IsInjective
<1>5. rank \in Surjection(S, 1..n)
  <2>1. IsFiniteSet(1..n) /\ Cardinality(1..n) = n
    BY <1>1, FS_Interval
  <2> QED
    BY <1>4, <2>1, FS_Injection
<1>6. \A k \in 1..n : \E x \in S : rank[x] = k
  BY <1>5 DEF Surjection
<1>7. \A k \in 1..n : Ascending(S)[k] \in S /\ rank[Ascending(S)[k]] = k
  BY <1>6 DEF Ascending
<1>8. Ascending(S) \in [1..n -> S]
  BY <1>7 DEF Ascending
<1>9. ASSUME NEW k \in 1..n, NEW l \in 1..n, k < l
      PROVE  Ascending(S)[k] < Ascending(S)[l]
  <2>1. PICK x \in S : x = Ascending(S)[k] /\ rank[x] = k
    BY <1>7
  <2>2. PICK y \in S : y = Ascending(S)[l] /\ rank[y] = l
    BY <1>7
  <2>3. ~(y < x) /\ x # y
    BY <1>3, <1>9, <2>1, <2>2
  <2> QED
    BY <2>1, <2>2, <2>3
<1>10. ASSUME NEW x \in S PROVE \E k \in 1..n : Ascending(S)[k] = x
  <2>1. rank[x] \in 1..n
    BY <1>2
  <2>2. rank[Ascending(S)[rank[x]]] = rank[x] /\ Ascending(S)[rank[x]] \in S
    BY <1>7, <2>1
  <2>3. Ascending(S)[rank[x]] = x
    BY <1>4, <2>2 DEF Injection, IsInjective
  <2> QED
    BY <2>1, <2>3
<1> QED
  BY <1>1, <1>8, <1>9, <1>10

(* What Pick takes from a sequence s, by the places f it had there.        *)
Taken(new, s, at, n, f) ==
    /\ n \in Nat
    /\ f \in [1..n -> at]
    /\ new = [k \in 1..n |-> s[f[k]]]
    /\ \A k, l \in 1..n : k < l => f[k] < f[l]
    /\ \A x \in at : \E k \in 1..n : f[k] = x

LEMMA PickIs ==
    ASSUME NEW s, IsSequence(s), NEW at \in SUBSET DOMAIN s
    PROVE  \E n, f : Taken(Pick(s, at), s, at, n, f)
<1> DEFINE n == Cardinality(at)
           f == Ascending(at)
<1>1. at \in SUBSET Int /\ IsFiniteSet(at)
  <2>1. IsFiniteSet(1..Len(s)) /\ at \subseteq 1..Len(s)
    BY FS_Interval DEF IsSequence
  <2> QED
    BY <2>1, FS_Subset
<1>2. /\ n \in Nat /\ f \in [1..n -> at]
      /\ \A k, l \in 1..n : k < l => f[k] < f[l]
      /\ \A x \in at : \E k \in 1..n : f[k] = x
  BY <1>1, AscendingOrder
<1>3. Pick(s, at) = [k \in 1..n |-> s[f[k]]]
  BY <1>2 DEF Pick
<1> HIDE DEF n, f
<1>4. Taken(Pick(s, at), s, at, n, f)
  BY <1>2, <1>3 DEF Taken
<1> QED
  BY <1>4

(* Sequences of numbers that rise.                                         *)
Rising(s) == s \in Seq(Nat) /\ \A j, k \in DOMAIN s : j < k => s[j] < s[k]

LEMMA RisingConcat ==
    ASSUME NEW a, Rising(a), NEW b, Rising(b), \A x \in Range(a), y \in Range(b) : x < y
    PROVE  Rising(a \o b) /\ Range(a \o b) = Range(a) \cup Range(b)
<1> DEFINE c == a \o b
<1>1. /\ a \in Seq(Nat) /\ b \in Seq(Nat) /\ c \in Seq(Nat)
      /\ Len(a) \in Nat /\ Len(b) \in Nat /\ Len(c) = Len(a) + Len(b)
      /\ DOMAIN a = 1..Len(a) /\ DOMAIN b = 1..Len(b) /\ DOMAIN c = 1..Len(c)
  BY DEF Rising
<1>2. \A j \in 1..Len(a) : c[j] = a[j]
  BY <1>1
<1>3. \A j \in 1..Len(b) : c[Len(a) + j] = b[j]
  BY <1>1
<1>4. \A j \in 1..Len(c) : \/ j \in 1..Len(a) /\ c[j] = a[j]
                           \/ j - Len(a) \in 1..Len(b) /\ c[j] = b[j - Len(a)]
  <2> SUFFICES ASSUME NEW j \in 1..Len(c), j \notin 1..Len(a)
               PROVE  j - Len(a) \in 1..Len(b) /\ c[j] = b[j - Len(a)]
    BY <1>2
  <2>1. j - Len(a) \in 1..Len(b) /\ Len(a) + (j - Len(a)) = j
    BY <1>1
  <2> QED
    BY <1>3, <2>1
<1> HIDE DEF c
<1>5. ASSUME NEW j \in 1..Len(c), NEW k \in 1..Len(c), j < k PROVE c[j] < c[k]
  <2>1. CASE k \in 1..Len(a)
    <3>1. j \in 1..Len(a)
      BY <1>1, <1>5, <2>1
    <3> QED
      BY <1>1, <1>2, <1>5, <2>1, <3>1 DEF Rising
  <2>2. CASE j \in 1..Len(a) /\ k - Len(a) \in 1..Len(b) /\ c[k] = b[k - Len(a)]
    <3>1. c[j] \in Range(a) /\ c[k] \in Range(b)
      BY <1>1, <1>2, <2>2 DEF Range
    <3> QED
      BY <3>1
  <2>3. CASE j \notin 1..Len(a) /\ k - Len(a) \in 1..Len(b) /\ c[k] = b[k - Len(a)]
    <3>1. j - Len(a) \in 1..Len(b) /\ c[j] = b[j - Len(a)] /\ j - Len(a) < k - Len(a)
      BY <1>1, <1>4, <1>5, <2>3
    <3> QED
      BY <1>1, <2>3, <3>1 DEF Rising
  <2> QED
    BY <1>4, <2>1, <2>2, <2>3
<1>6. Rising(c)
  BY <1>1, <1>5 DEF Rising
<1>7. Range(c) \subseteq Range(a) \cup Range(b)
  BY <1>1, <1>4 DEF Range
<1>8. Range(a) \subseteq Range(c)
  BY <1>1, <1>2 DEF Range
<1>9. Range(b) \subseteq Range(c)
  <2> SUFFICES ASSUME NEW j \in 1..Len(b) PROVE b[j] \in Range(c)
    BY <1>1 DEF Range
  <2>1. Len(a) + j \in 1..Len(c)
    BY <1>1
  <2> QED
    BY <1>1, <1>3, <2>1 DEF Range
<1> QED
  BY <1>6, <1>7, <1>8, <1>9 DEF c

(* The recursion FlattenSeq is defined by has a solution.                  *)
LEMMA FlattenIs ==
    ASSUME NEW n \in Nat \ {0}, NEW s, DOMAIN s = 1..n, Len(s) = n
    PROVE  \E f : /\ f = [i \in 1..n |-> IF i = 1 THEN s[i] ELSE f[i - 1] \o s[i]]
                  /\ FlattenSeq(s) = f[n]
<1> DEFINE Solves(f, k) == f = [i \in 1..k |-> IF i = 1 THEN s[i] ELSE f[i - 1] \o s[i]]
           T == {k \in Nat : \E f : Solves(f, k)}
<1>1. 0 \in T
  <2>1. Solves([i \in 1..0 |-> s[i]], 0)
    OBVIOUS
  <2> QED
    BY <2>1
<1>2. ASSUME NEW k \in T PROVE k + 1 \in T
  <2>1. PICK f : Solves(f, k)
    OBVIOUS
  <2> DEFINE h == [i \in 1..(k + 1) |-> IF i <= k THEN f[i] ELSE IF i = 1 THEN s[i] ELSE f[k] \o s[i]]
  <2>2. ASSUME NEW i \in 1..(k + 1) PROVE h[i] = IF i = 1 THEN s[i] ELSE h[i - 1] \o s[i]
    <3>1. CASE i <= k
      <4>1. i \in 1..k /\ h[i] = f[i] /\ (i # 1 => i - 1 \in 1..k /\ i - 1 \in 1..(k + 1) /\ h[i - 1] = f[i - 1])
        BY <3>1
      <4>2. f[i] = IF i = 1 THEN s[i] ELSE f[i - 1] \o s[i]
        BY <2>1, <4>1
      <4> QED
        BY <4>1, <4>2
    <3>2. CASE i = k + 1
      <4>1. h[i] = IF i = 1 THEN s[i] ELSE f[k] \o s[i]
        BY <3>2
      <4>2. i # 1 => i - 1 \in 1..(k + 1) /\ i - 1 <= k /\ i - 1 = k
        BY <3>2
      <4>3. i # 1 => h[i - 1] = f[k]
        BY <4>2
      <4> QED
        BY <4>1, <4>3
    <3> QED
      BY <3>1, <3>2
  <2> HIDE DEF h
  <2>3. DOMAIN h = 1..(k + 1) /\ h = [i \in 1..(k + 1) |-> h[i]]
    BY DEF h
  <2>4. Solves(h, k + 1)
    BY <2>2, <2>3
  <2>5. k + 1 \in Nat
    OBVIOUS
  <2> HIDE DEF Solves
  <2>6. \E x : Solves(x, k + 1)
    BY <2>4
  <2> QED
    BY <2>5, <2>6
<1>3. T = Nat
  <2> HIDE DEF T
  <2>1. T \in SUBSET Nat
    BY DEF T
  <2> QED
    BY <1>1, <1>2, <2>1, Counting
<1>4. \E f : Solves(f, n)
  BY <1>3
<1> DEFINE g == CHOOSE f : Solves(f, n)
<1>5. Solves(g, n)
  BY <1>4
<1>6. FlattenSeq(s) = g[n]
  BY DEF FlattenSeq
<1> QED
  BY <1>5, <1>6

(* The children a walk pushes: pointers of the node, the last one first,   *)
(* and among them all that can hold keys of the range.                     *)
InRange(ptrs, i, lo, hi) ==
    /\ i < Len(ptrs) => KeyLess(lo, ptrs[i + 1].key)
    /\ KeyLess(ptrs[i].key, hi)

KeptAs(all, node, m, lo, hi, f) ==
    /\ f \in [DOMAIN all -> 1..m]
    /\ \A k, l \in DOMAIN all : k < l => f[l] < f[k]
    /\ \A x \in 1..m : InRange(node.items, x, lo, hi) => \E k \in DOMAIN all : f[k] = x
    /\ \A k \in DOMAIN all : all[k] = Pointers(node)[f[k]]

LEMMA ChildrenOrder ==
    ASSUME NEW m \in Nat, NEW node, DOMAIN node.items = 1..m, NEW lo, NEW hi
    PROVE  /\ Children(node, lo, hi) \in Seq(Range(Pointers(node)))
           /\ \E f : KeptAs(Children(node, lo, hi), node, m, lo, hi, f)
<1> DEFINE ptrs == node.items
           at   == {i \in DOMAIN ptrs : InRange(ptrs, i, lo, hi)}
           n    == Cardinality(at)
           f    == Ascending(at)
           ps   == Pointers(node)
           kept == Pick(ps, at)
           all  == Children(node, lo, hi)
           g    == [k \in 1..n |-> f[n - k + 1]]
<1>1. at \in SUBSET (1..m) /\ \A x \in 1..m : InRange(ptrs, x, lo, hi) => x \in at
  OBVIOUS
<1>2. all = Reverse(kept)
  BY DEF Children, InRange
<1> HIDE DEF at, kept, ps, n, f, all
<1>3. /\ n \in Nat /\ f \in [1..n -> at]
      /\ \A k, l \in 1..n : k < l => f[k] < f[l]
      /\ \A x \in at : \E k \in 1..n : f[k] = x
  <2>1. IsFiniteSet(1..m)
    BY FS_Interval
  <2>2. IsFiniteSet(at)
    BY <1>1, <2>1, FS_Subset
  <2>3. at \in SUBSET Int
    BY <1>1
  <2> QED
    BY <2>2, <2>3, AscendingOrder DEF n, f
<1>4. kept = [k \in 1..n |-> ps[f[k]]]
  BY <1>3 DEF Pick, kept, f
<1>5. \A k \in 1..n : n - k + 1 \in 1..n /\ g[k] = f[n - k + 1] /\ g[k] \in 1..m
  <2>1. \A k \in 1..n : n - k + 1 \in 1..n
    BY <1>3
  <2>2. \A k \in 1..n : f[k] \in 1..m
    BY <1>1, <1>3
  <2> QED
    BY <2>1, <2>2
<1>6. all = [k \in 1..n |-> ps[g[k]]]
  <2>1. Len(kept) = n
    BY <1>3, <1>4
  <2>2. all = [k \in 1..n |-> kept[(n - k) + 1]]
    BY <1>2, <2>1 DEF Reverse
  <2>3. \A k \in 1..n : kept[(n - k) + 1] = ps[g[k]]
    BY <1>4, <1>5
  <2> QED
    BY <2>2, <2>3
<1>7. g \in [1..n -> 1..m]
  BY <1>5
<1> HIDE DEF g
<1>8. \A k, l \in 1..n : k < l => g[l] < g[k]
  <2> SUFFICES ASSUME NEW k \in 1..n, NEW l \in 1..n, k < l PROVE g[l] < g[k]
    OBVIOUS
  <2>1. n - l + 1 \in 1..n /\ n - k + 1 \in 1..n /\ n - l + 1 < n - k + 1
    BY <1>3
  <2> QED
    BY <1>3, <1>5, <2>1
<1>9. \A x \in at : \E k \in 1..n : g[k] = x
  <2> SUFFICES ASSUME NEW x \in at PROVE \E k \in 1..n : g[k] = x
    OBVIOUS
  <2>1. PICK k \in 1..n : f[k] = x
    BY <1>3
  <2>2. n - k + 1 \in 1..n /\ n - (n - k + 1) + 1 = k
    BY <1>3
  <2>3. g[n - k + 1] = x
    BY <1>5, <2>1, <2>2
  <2> QED
    BY <2>2, <2>3
<1>10. DOMAIN all = 1..n /\ \A k \in 1..n : all[k] = ps[g[k]]
  BY <1>6
<1>11. all \in Seq(Range(ps))
  <2>1. DOMAIN ps = 1..m
    BY DEF ps, Pointers
  <2>2. \A k \in 1..n : ps[g[k]] \in Range(ps)
    BY <1>5, <2>1 DEF Range
  <2> QED
    BY <1>3, <1>6, <2>2
<1>12. \A x \in 1..m : InRange(node.items, x, lo, hi) => \E k \in 1..n : g[k] = x
  BY <1>1, <1>9
<1>13. KeptAs(all, node, m, lo, hi, g)
  <2>1. g \in [DOMAIN all -> 1..m]
    BY <1>7, <1>10
  <2> QED
    BY <1>8, <1>10, <1>12, <2>1 DEF KeptAs, ps
<1> QED
  BY <1>11, <1>13 DEF all, ps

(* Sequences that rise, each above the one before, flattened.              *)
LEMMA FlattenRising ==
    ASSUME NEW n \in Nat, NEW s, s = [i \in 1..n |-> s[i]],
           \A i \in 1..n : Rising(s[i]),
           \A i, j \in 1..n : i < j => \A x \in Range(s[i]), y \in Range(s[j]) : x < y
    PROVE  /\ Rising(FlattenSeq(s))
           /\ \A x : x \in Range(FlattenSeq(s)) <=> \E i \in 1..n : x \in Range(s[i])
<1>1. DOMAIN s = 1..n /\ Len(s) = n
  <2>1. DOMAIN [i \in 1..n |-> s[i]] = 1..n /\ Len([i \in 1..n |-> s[i]]) = n
    OBVIOUS
  <2> QED
    BY <2>1, Zenon
<1>2. CASE n = 0
  <2>1. FlattenSeq(s) = s
    BY <1>1, <1>2 DEF FlattenSeq
  <2>2. s \in Seq(Nat) /\ DOMAIN s = {}
    <3>1. s = [i \in 1..0 |-> s[i]] /\ 1..0 = {}
      BY <1>2
    <3>2. [i \in 1..0 |-> s[i]] \in Seq(Nat)
      OBVIOUS
    <3> QED
      BY <1>1, <1>2, <3>1, <3>2, Zenon
  <2>3. Rising(s) /\ Range(s) = {}
    BY <2>2 DEF Rising, Range
  <2> QED
    BY <1>2, <2>1, <2>3
<1>3. CASE n # 0
  <2>1. PICK f : /\ f = [i \in 1..n |-> IF i = 1 THEN s[i] ELSE f[i - 1] \o s[i]]
                 /\ FlattenSeq(s) = f[n]
    BY <1>1, <1>3, FlattenIs
  <2> DEFINE Ok(k) == /\ Rising(f[k])
                      /\ \A x : x \in Range(f[k]) <=> \E i \in 1..k : x \in Range(s[i])
             T == {k \in Nat : k + 1 <= n => Ok(k + 1)}
  <2>2. f[1] = s[1]
    BY <1>3, <2>1
  <2>3. \A k \in 1..n : k + 1 <= n => f[k + 1] = f[k] \o s[k + 1]
    <3> SUFFICES ASSUME NEW k \in 1..n, k + 1 <= n PROVE f[k + 1] = f[k] \o s[k + 1]
      OBVIOUS
    <3>1. k + 1 \in 1..n /\ k + 1 # 1 /\ (k + 1) - 1 = k
      OBVIOUS
    <3> QED
      BY <2>1, <3>1
  <2>4. Ok(1)
    BY <1>3, <2>2
  <2>5. ASSUME NEW k \in 1..n, k + 1 <= n, Ok(k) PROVE Ok(k + 1)
    <3>1. k + 1 \in 1..n /\ \A i \in 1..k : i \in 1..n /\ i < k + 1
      BY <2>5
    <3>2. \A x \in Range(f[k]), y \in Range(s[k + 1]) : x < y
      BY <2>5, <3>1
    <3>3. Rising(f[k] \o s[k + 1]) /\ Range(f[k] \o s[k + 1]) = Range(f[k]) \cup Range(s[k + 1])
      BY <2>5, <3>1, <3>2, RisingConcat
    <3>4. f[k + 1] = f[k] \o s[k + 1]
      BY <2>3, <2>5
    <3>5. \A i : i \in 1..(k + 1) <=> i \in 1..k \/ i = k + 1
      OBVIOUS
    <3> QED
      BY <2>5, <3>3, <3>4, <3>5, Zenon
  <2> HIDE DEF Ok
  <2>6. 0 \in T
    BY <2>4
  <2>7. \A k \in T : k + 1 \in T
    BY <2>5
  <2>8. T = Nat
    <3>1. T \in SUBSET Nat
      OBVIOUS
    <3> HIDE DEF T
    <3> QED
      BY <2>6, <2>7, <3>1, Counting
  <2>9. Ok(n)
    <3>1. n - 1 \in T /\ (n - 1) + 1 = n
      BY <1>3, <2>8
    <3> QED
      BY <3>1
  <2> QED
    BY <2>1, <2>9 DEF Ok
<1> QED
  BY <1>2, <1>3

-----------------------------------------------------------------------------
(* Reading.                                                                *)

(* A chunk map that lacks chunks maps a block to nothing, or as the full   *)
(* one does.                                                               *)
LEMMA Lookup ==
    ASSUME NEW known \in SUBSET Chunks, NEW b \in Nat
    PROVE  \/ lookup_stripes(known, b) = <<>>
           \/ /\ lookup_stripes(known, b) = lookup_stripes(Chunks, b)
              /\ DOMAIN lookup_stripes(known, b) \subseteq Nat
              /\ \A i \in DOMAIN lookup_stripes(known, b) : lookup_stripes(known, b)[i] \in Phys(b)
<1> DEFINE hit == {c \in known : c.begin <= b /\ b < c.end}
           all == {c \in Chunks : c.begin <= b /\ b < c.end}
           c   == CHOOSE x \in hit : TRUE
<1>1. CASE hit = {}
  BY <1>1 DEF lookup_stripes
<1>2. CASE hit # {}
  <2>1. hit = all
    <3>1. \A x, y \in all : x = y
      BY StoreAssumption
    <3> QED
      BY <1>2, <3>1
  <2>2. c \in Chunks
    BY <1>2
  <2>3. lookup_stripes(known, b) = [i \in DOMAIN c.stripes |-> c.stripes[i] + (b - c.begin)]
    BY <1>2 DEF lookup_stripes
  <2>4. lookup_stripes(known, b) = lookup_stripes(Chunks, b)
    BY <2>1 DEF lookup_stripes
  <2>5. c.stripes \in Seq(Nat)
    BY <2>2, StoreAssumption
  <2> HIDE DEF c
  <2>6. DOMAIN c.stripes \subseteq Nat
    BY <2>5
  <2>7. DOMAIN lookup_stripes(known, b) \subseteq Nat
    BY <2>3, <2>6
  <2> QED
    BY <2>4, <2>7 DEF Phys, Range
<1> QED
  BY <1>1, <1>2

(* What is read without an error is a copy that passed the checks.         *)
LEMMA ReadsCopy ==
    ASSUME NEW known \in SUBSET Chunks, NEW b \in Nat, NEW exp, disk[0].kind # "node",
           Fine(read_node(known, b, exp))
    PROVE  \E p \in Phys(b) : /\ read_node(known, b, exp).node = disk[p]
                              /\ disk[p].kind = "node"
                              /\ validate_header(disk[p], b, exp)
<1> DEFINE copy     == IF lookup_stripes(known, b) = <<>> THEN <<0>> ELSE lookup_stripes(known, b)
           readable == {i \in DOMAIN copy : disk[copy[i]].kind # "eio"}
           verified == {i \in readable : disk[copy[i]].kind = "node"}
           good     == {i \in verified : validate_header(disk[copy[i]], b, exp)}
           got      == read_node(known, b, exp)
<1>1. got = [read_error          |-> readable = {},
             all_mirrors_failed  |-> readable # {} /\ verified = {},
             generation_mismatch |-> verified # {} /\ good = {},
             mirror_mismatch     |-> verified # {} /\ Cardinality(verified) < Len(copy),
             node                |-> IF good # {} THEN disk[copy[Min(good)]]
                                     ELSE IF verified # {} THEN disk[copy[Min(verified)]]
                                     ELSE Garbage]
  BY DEF read_node
<1> HIDE DEF good, verified, readable, copy
<1>2. good # {}
  <2>1. /\ got.read_error = (readable = {})
        /\ got.all_mirrors_failed = (readable # {} /\ verified = {})
        /\ got.generation_mismatch = (verified # {} /\ good = {})
    BY <1>1
  <2>2. ~got.read_error /\ ~got.all_mirrors_failed /\ ~got.generation_mismatch
    BY DEF Fine
  <2> QED
    BY <2>1, <2>2, Zenon
<1>3. lookup_stripes(known, b) # <<>>
  <2> SUFFICES ASSUME lookup_stripes(known, b) = <<>> PROVE FALSE
    OBVIOUS
  <2>1. copy = <<0>>
    BY DEF copy
  <2>2. \A i \in DOMAIN copy : disk[copy[i]].kind # "node"
    BY <2>1
  <2> QED
    BY <1>2, <2>2 DEF good, verified, readable
<1>4. DOMAIN copy \subseteq Nat /\ \A i \in DOMAIN copy : copy[i] \in Phys(b)
  BY <1>3, Lookup DEF copy
<1>5. Min(good) \in good
  <2>1. good \subseteq Nat
    BY <1>4 DEF good, verified, readable
  <2> QED
    BY <1>2, <2>1, MinIn
<1>6. got.node = disk[copy[Min(good)]]
  BY <1>1, <1>2
<1>7. copy[Min(good)] \in Phys(b) /\ validate_header(disk[copy[Min(good)]], b, exp)
      /\ disk[copy[Min(good)]].kind = "node"
  BY <1>4, <1>5 DEF good, verified, readable
<1> QED
  BY <1>6, <1>7

-----------------------------------------------------------------------------
(* The store: what every node on the device is, however many transactions, *)
(* lost writes and bad copies there have been.                             *)

Trees == DOMAIN Contents \cup {ROOT_TREE}
Width(t) == IF t = ROOT_TREE THEN Len(RootLayout) ELSE Len(Contents[t])
Gen == mem[ROOT_TREE].top.gen

(* The items that leaf i of a tree may have.                               *)
MayHold(t, i, its) ==
    IF t = ROOT_TREE
    THEN /\ DOMAIN its = DOMAIN RootLayout[i]
         /\ \A j \in DOMAIN its :
              /\ its[j].key = <<RootLayout[i][j], ROOT_ITEM, 0>>
              /\ its[j].val \in Blocks \cup {0}
              /\ RootLayout[i][j] \in DOMAIN Contents => its[j].val \in Blocks
    ELSE \E v \in DOMAIN Contents[t][i] : its = Contents[t][i][v]

(* A leaf of this tree and generation at block b of device d can only be   *)
(* its leaf i.                                                             *)
Own(n) == n.kind = "node" /\ n.fsid = "own"
Target(d, t, i, b, g) ==
    \A p \in Phys(b) : Own(d[p]) /\ d[p].owner = t /\ d[p].level = 0 /\ d[p].gen = g
                       => MayHold(t, i, d[p].items)

(* A pointer to leaf i, and a node at block b, by generation m.            *)
Pointer(d, m, t, i, ptr) ==
    /\ ptr.val.at \in Blocks
    /\ ptr.val.gen \in 0..m
    /\ Target(d, t, i, ptr.val.at, ptr.val.gen)
    /\ t # ROOT_TREE => \E v \in DOMAIN Contents[t][i] : ptr.key = Contents[t][i][v][1].key
LeafShape(n) == n.level = 0 /\ \E i \in 1..Width(n.owner) : MayHold(n.owner, i, n.items)
TopShape(d, m, b, n) ==
    /\ n.level = 1
    /\ Width(n.owner) # 1
    /\ DOMAIN n.items = 1..Width(n.owner)
    /\ \A i \in DOMAIN n.items :
         /\ Pointer(d, m, n.owner, i, n.items[i])
         /\ n.items[i].val.at # b
         /\ \A j \in DOMAIN n.items : n.items[i].val.at = n.items[j].val.at => i = j
NodeShape(d, m, b, n) ==
    /\ n.kind = "node" /\ n.fsid = "own" /\ n.bytenr = b
    /\ n.gen \in 0..m
    /\ n.owner \in Trees
    /\ LeafShape(n) \/ TopShape(d, m, b, n)
ChunkNode == Node(ChunkRoot, 1, 0, CHUNK_TREE, ChunkItems)
DiskOK ==
    /\ DOMAIN disk = {0} \cup UNION {Phys(b) : b \in Blocks \cup {ChunkRoot}}
    /\ disk[0] = Garbage
    /\ \A b \in Blocks : \A p \in Phys(b) : disk[p] \in BadKinds \/ NodeShape(disk, Gen, b, disk[p])
    /\ \A p \in Phys(ChunkRoot) : disk[p] \in BadKinds \cup {ChunkNode}

(* The trees as written, by generation g.                                  *)
TreeShape(t, tree, g) ==
    /\ tree.leaf = [i \in 1..Width(t) |-> tree.leaf[i]]
    /\ tree.top.at \in Blocks
    /\ tree.top.gen \in 0..g
    /\ \A i \in 1..Width(t) :
         /\ tree.leaf[i].at \in Blocks
         /\ tree.leaf[i].gen \in 0..g
         /\ MayHold(t, i, tree.leaf[i].items)
         /\ \A j \in 1..Width(t) : tree.leaf[i].at = tree.leaf[j].at => i = j
         /\ tree.top.at = tree.leaf[i].at <=> Width(t) = 1
MemOK ==
    /\ Gen \in Nat
    /\ DOMAIN mem = Trees
    /\ \A t \in Trees :
         /\ TreeShape(t, mem[t], Gen)
         /\ \A i \in 1..Width(t) : Target(disk, t, i, mem[t].leaf[i].at, mem[t].leaf[i].gen)
SupersOK ==
    DOMAIN supers = 1..3 /\ \A i \in 1..3 : supers[i].kind = "super" => supers[i].root \in Blocks
StoreOK == DiskOK /\ MemOK /\ SupersOK /\ budget \in 0..Trouble

-----------------------------------------------------------------------------
(* The walks.                                                              *)

(* A walk that has read its root: what is left in its queue q are the      *)
(* leaves idx of a tree, the last one first, in blocks it has not read.    *)
Under(d, m, q, read, u, idx) ==
    /\ idx \in [DOMAIN q -> 1..Width(u)]
    /\ \A k \in DOMAIN q :
         /\ q[k].at \in Blocks \ read
         /\ q[k].exp.gen \in 0..m
         /\ q[k].exp.level = 0 /\ q[k].exp.owner = u
         /\ Target(d, u, idx[k], q[k].at, q[k].exp.gen)
         /\ \A l \in DOMAIN q : k < l => idx[l] < idx[k] /\ q[k].at # q[l].at
Starts(b) == queue = <<Ref(b, DontCheck)>>
Atop == \E b \in Blocks : Starts(b)

(* Nothing has been lost so far.                                           *)
Clean == ~missed /\ cnt["header"] = 0 /\ cnt["read"] = 0 /\ cnt["stale"] = 0

(* Device extents in the order of the device.                              *)
Extent == [phys : Nat, chunk : Nat, len : Nat]
InPlace(exts) ==
    exts \in Seq(Extent) /\ \A j, k \in DOMAIN exts : j < k => exts[j].phys < exts[k].phys

(* What the walk of the device tree has found, and what is still ahead.    *)
Ahead(exts, i) ==
    \A v \in DOMAIN Contents[DEV_TREE][i] : \A e \in ExtentsOf(Contents[DEV_TREE][i][v]) :
        \A j \in DOMAIN exts : exts[j].phys < e.phys
Listed(exts, i) ==
    \E v \in DOMAIN Contents[DEV_TREE][i] : ExtentsOf(Contents[DEV_TREE][i][v]) \subseteq Range(exts)
DevSoFar(exts, clean, u, idx) ==
    /\ u = DEV_TREE => \A k \in DOMAIN idx : Ahead(exts, idx[k])
    /\ clean => /\ u = DEV_TREE
                /\ \A i \in 1..Width(DEV_TREE) : i \in Range(idx) \/ Listed(exts, i)

(* The same for the walk of the checksum tree for an extent.               *)
Beyond(sectors, i) ==
    \A v \in DOMAIN Contents[CSUM_TREE][i] : \A x \in DOMAIN Contents[CSUM_TREE][i][v] :
        \A j \in DOMAIN sectors : sectors[j] < Contents[CSUM_TREE][i][v][x].key[3]
Has(sectors, i, e) ==
    \A s \in e.chunk..(e.chunk + e.len - 1) : AlwaysHas(i, s) => s \in Range(sectors)
CsumSoFar(sectors, e, clean, u, idx) ==
    /\ u = CSUM_TREE => \A k \in DOMAIN idx : Beyond(sectors, idx[k])
    /\ clean => /\ u = CSUM_TREE
                /\ \A i \in 1..Width(CSUM_TREE) : i \in Range(idx) \/ Has(sectors, i, e)

(* The three walks that go below a root.                                   *)
RootWalk(d, m, q, read) ==
    \E u \in Trees : \E idx \in [DOMAIN q -> 1..Width(u)] : Under(d, m, q, read, u, idx)
DevWalk(d, m, q, read, exts, clean) ==
    \E u \in Trees : \E idx \in [DOMAIN q -> 1..Width(u)] :
        Under(d, m, q, read, u, idx) /\ DevSoFar(exts, clean, u, idx)
CsumWalk(d, m, q, read, sectors, e, clean) ==
    \E u \in Trees : \E idx \in [DOMAIN q -> 1..Width(u)] :
        Under(d, m, q, read, u, idx) /\ CsumSoFar(sectors, e, clean, u, idx)

Refs == [at : Blocks \cup {ChunkRoot}, exp : [gen : Int, level : Int, owner : Int]]

Leaves(u, idx) == Under(disk, Gen, queue, seen, u, idx)
QueueOK ==
    /\ queue \in Seq(Refs)
    /\ pc \in {"super", "done", "failed"} => queue = <<>>
    /\ pc = "chunk" => queue = <<>> \/ Starts(ChunkRoot)
    /\ pc = "root" => Atop \/ RootWalk(disk, Gen, queue, seen)
    /\ pc = "dev" => \/ Atop /\ extents = <<>>
                     \/ DevWalk(disk, Gen, queue, seen, extents, Clean)
    /\ pc = "csum" => \/ Atop /\ entries = <<>>
                      \/ CsumWalk(disk, Gen, queue, seen, entries, extents[ext], Clean)
CountsOK ==
    /\ cnt \in [Counters -> Nat]
    /\ missed \in BOOLEAN
    /\ \A c \in Counters : IsFiniteSet(reported[c]) /\ Cardinality(reported[c]) <= cnt[c]
OpenOK ==
    /\ pc \in {"super", "chunk", "root", "dev", "csum", "done", "failed"}
    /\ sb.root \in Blocks
    /\ map \subseteq Chunks
    /\ found \subseteq Chunks
    /\ Clean => /\ pc = "chunk" /\ queue = <<>> => found = Chunks
                /\ pc \in {"root", "dev", "csum", "done"} => map = Chunks
    /\ DOMAIN roots = {FS_TREE, CSUM_TREE, DEV_TREE}
    /\ \A t \in DOMAIN roots : roots[t] = {} \/ \E b \in Blocks \cup {0} : roots[t] = {b}
    /\ \A t \in {CSUM_TREE, DEV_TREE} : roots[t] \subseteq Blocks
    /\ pc \in {"dev", "csum"} => roots[CSUM_TREE] # {}
    /\ pc = "super" => \A c \in Counters : reported[c] = {}
ExtentsOK ==
    /\ InPlace(extents)
    /\ pc \notin {"dev", "csum", "done"} => extents = <<>>
    /\ pc \in {"csum", "done"} /\ Clean => \A i \in 1..Width(DEV_TREE) : Listed(extents, i)
EmittedOK ==
    /\ Rising(entries)
    /\ pc \notin {"csum", "done"} => emitted = <<>>
    /\ pc \in {"csum", "done"} =>
         /\ DOMAIN emitted = DOMAIN extents
         /\ \A i \in DOMAIN emitted : Rising(emitted[i])
         /\ Clean => \A i \in DOMAIN extents : i < ext /\ IsData(extents[i]) =>
                       \A j \in 1..Width(CSUM_TREE) : Has(emitted[i], j, extents[i])
    /\ pc = "csum" => ext \in DOMAIN extents
    /\ pc = "done" => ext = Len(extents) + 1

SInv == StoreOK /\ QueueOK /\ CountsOK /\ OpenOK /\ ExtentsOK /\ EmittedOK

-----------------------------------------------------------------------------
(* The trees.                                                              *)

(* What the assumptions say of the width of a tree.                        *)
LEMMA TreesAre ==
    /\ ROOT_TREE \notin DOMAIN Contents /\ ROOT_TREE = 1
    /\ Trees \subseteq Nat
    /\ \A t \in Trees : Width(t) \in Nat /\ 1 \in 1..Width(t)
    /\ \A t \in DOMAIN Contents : t \in Trees /\ t # ROOT_TREE /\ DOMAIN Contents[t] = 1..Width(t)
    /\ ROOT_TREE \in Trees /\ DOMAIN RootLayout = 1..Width(ROOT_TREE)
    /\ {CSUM_TREE, DEV_TREE} \subseteq DOMAIN Contents
<1>1. ROOT_TREE \notin DOMAIN Contents /\ ROOT_TREE = 1 /\ ROOT_TREE \in Trees
  BY LayoutAssumption DEF ROOT_TREE, Trees
<1>2. \A t \in DOMAIN Contents : /\ t \in Nat /\ t \in Trees /\ t # ROOT_TREE
                                 /\ DOMAIN Contents[t] = 1..Width(t)
                                 /\ Width(t) \in Nat /\ 1 \in 1..Width(t)
  BY <1>1, OrderAssumption DEF Width, IsSequence, Trees
<1>3. Width(ROOT_TREE) = Len(RootLayout) /\ RootLayout \in Seq(Seq(Nat)) /\ RootLayout # <<>>
  BY StoreAssumption, ScanAssumption DEF Width
<1>4. DOMAIN RootLayout = 1..Width(ROOT_TREE) /\ Width(ROOT_TREE) \in Nat /\ 1 \in 1..Width(ROOT_TREE)
  BY <1>3
<1> QED
  BY <1>1, <1>2, <1>4, ScanAssumption DEF Trees

(* A tree rewritten by the next generation at leaf i.                      *)
LEMMA TreeMoved ==
    ASSUME NEW u \in Trees, NEW tree, NEW g \in Nat, TreeShape(u, tree, g),
           NEW i \in 1..Width(u), NEW its, MayHold(u, i, its),
           NEW l \in Blocks, l \notin NodesOf(tree),
           NEW top \in Blocks,
           Width(u) = 1 => top = l,
           Width(u) # 1 => top # l /\ top \notin NodesOf(tree),
           NEW new,
           new.leaf = [tree.leaf EXCEPT ![i] = Leaf(l, g + 1, its)],
           new.top = [at |-> top, gen |-> g + 1]
    PROVE  /\ TreeShape(u, new, g + 1)
           /\ new.leaf[i] = Leaf(l, g + 1, its)
           /\ \A j \in 1..Width(u) : j # i => new.leaf[j] = tree.leaf[j]
<1>1. DOMAIN tree.leaf = 1..Width(u) /\ Width(u) \in Nat
  BY TreesAre DEF TreeShape
<1>2. new.leaf = [j \in 1..Width(u) |-> new.leaf[j]]
  BY <1>1
<1>3. new.leaf[i] = Leaf(l, g + 1, its)
  BY <1>1
<1>4. \A j \in 1..Width(u) : j # i => new.leaf[j] = tree.leaf[j]
  BY <1>1
<1>5. /\ new.leaf[i].at = l /\ new.leaf[i].gen = g + 1 /\ new.leaf[i].items = its
      /\ new.top.at = top /\ new.top.gen = g + 1
  BY <1>3 DEF Leaf
<1>6. \A j \in 1..Width(u) : tree.leaf[j].at # l /\ (Width(u) # 1 => tree.leaf[j].at # top)
  BY <1>1 DEF NodesOf
<1>7. ASSUME NEW j \in 1..Width(u)
      PROVE  /\ new.leaf[j].at \in Blocks
             /\ new.leaf[j].gen \in 0..(g + 1)
             /\ MayHold(u, j, new.leaf[j].items)
             /\ \A k \in 1..Width(u) : new.leaf[j].at = new.leaf[k].at => j = k
             /\ new.top.at = new.leaf[j].at <=> Width(u) = 1
  <2>1. CASE j = i
    BY <1>4, <1>5, <1>6, <2>1
  <2>2. CASE j # i
    <3>1. new.leaf[j] = tree.leaf[j] /\ Width(u) # 1
      BY <1>1, <1>4, <2>2
    <3>2. /\ tree.leaf[j].at \in Blocks /\ tree.leaf[j].gen \in 0..g
          /\ MayHold(u, j, tree.leaf[j].items)
          /\ \A k \in 1..Width(u) : tree.leaf[j].at = tree.leaf[k].at => j = k
      BY DEF TreeShape
    <3>3. \A k \in 1..Width(u) : new.leaf[j].at = new.leaf[k].at => j = k
      BY <1>4, <1>5, <1>6, <3>1, <3>2
    <3> QED
      BY <1>5, <1>6, <3>1, <3>2, <3>3
  <2> QED
    BY <2>1, <2>2
<1>8. TreeShape(u, new, g + 1)
  BY <1>2, <1>5, <1>7 DEF TreeShape
<1> QED
  BY <1>3, <1>4, <1>8

(* The node a tree has at a block: one of its leaves, or its top, which    *)
(* points to the leaves.                                                   *)
IsLeafNode(n, tree, b, i) ==
    /\ tree.leaf[i].at = b
    /\ n.level = 0 /\ n.gen = tree.leaf[i].gen /\ n.items = tree.leaf[i].items
IsTopNode(n, u, tree, b) ==
    /\ tree.top.at = b /\ Width(u) # 1
    /\ n.level = 1 /\ n.gen = tree.top.gen /\ DOMAIN n.items = 1..Width(u)
    /\ \A i \in 1..Width(u) : /\ tree.leaf[i].at # b
                              /\ n.items[i].key = tree.leaf[i].items[1].key
                              /\ n.items[i].val.at = tree.leaf[i].at
                              /\ n.items[i].val.gen = tree.leaf[i].gen

(* A root with pointers to the leaves of its tree has the shape of one.    *)
LEMMA TopNodeShape ==
    ASSUME NEW d, NEW m, NEW b, NEW n, NEW tree, NEW g, TreeShape(n.owner, tree, g),
           IsTopNode(n, n.owner, tree, b),
           \A k \in 1..Width(n.owner) : Pointer(d, m, n.owner, k, n.items[k])
    PROVE  TopShape(d, m, b, n)
<1>1. n.level = 1 /\ Width(n.owner) # 1 /\ DOMAIN n.items = 1..Width(n.owner)
  BY DEF IsTopNode
<1>2. ASSUME NEW i \in DOMAIN n.items
      PROVE  /\ Pointer(d, m, n.owner, i, n.items[i])
             /\ n.items[i].val.at # b
             /\ \A j \in DOMAIN n.items : n.items[i].val.at = n.items[j].val.at => i = j
  <2>1. n.items[i].val.at = tree.leaf[i].at /\ tree.leaf[i].at # b
    BY <1>1 DEF IsTopNode
  <2>2. ASSUME NEW j \in DOMAIN n.items, n.items[i].val.at = n.items[j].val.at PROVE i = j
    <3>1. n.items[j].val.at = tree.leaf[j].at
      BY <1>1 DEF IsTopNode
    <3>2. tree.leaf[i].at = tree.leaf[j].at => i = j
      BY <1>1 DEF TreeShape
    <3> QED
      BY <2>1, <2>2, <3>1, <3>2
  <2> QED
    BY <1>1, <2>1, <2>2
<1> QED
  BY <1>1, <1>2 DEF TopShape

LEMMA NodeIs ==
    ASSUME NEW u \in Trees, NEW tree, NEW g, TreeShape(u, tree, g), NEW b \in NodesOf(tree)
    PROVE  /\ NodeOf(u, tree, b).kind = "node" /\ NodeOf(u, tree, b).fsid = "own"
           /\ NodeOf(u, tree, b).bytenr = b /\ NodeOf(u, tree, b).owner = u
           /\ \/ \E i \in 1..Width(u) : IsLeafNode(NodeOf(u, tree, b), tree, b, i)
              \/ IsTopNode(NodeOf(u, tree, b), u, tree, b)
<1> DEFINE at == {i \in DOMAIN tree.leaf : tree.leaf[i].at = b}
           n  == NodeOf(u, tree, b)
<1>1. DOMAIN tree.leaf = 1..Width(u) /\ Width(u) \in Nat /\ 1 \in 1..Width(u)
  BY TreesAre DEF TreeShape
<1>2. n.kind = "node" /\ n.fsid = "own" /\ n.bytenr = b /\ n.owner = u
  BY DEF NodeOf, Node
<1>3. CASE at # {}
  <2> DEFINE i == CHOOSE i \in at : TRUE
  <2>1. i \in 1..Width(u) /\ tree.leaf[i].at = b
    BY <1>1, <1>3
  <2>2. n = Node(b, tree.leaf[i].gen, 0, u, tree.leaf[i].items)
    BY <1>3 DEF NodeOf
  <2> HIDE DEF i
  <2>3. IsLeafNode(n, tree, b, i)
    BY <2>1, <2>2 DEF Node, IsLeafNode
  <2> QED
    BY <1>2, <2>1, <2>3
<1>4. CASE at = {}
  <2> DEFINE its == [i \in DOMAIN tree.leaf |->
                       [key |-> tree.leaf[i].items[1].key,
                        val |-> [at |-> tree.leaf[i].at, gen |-> tree.leaf[i].gen]]]
  <2>1. n = Node(b, tree.top.gen, 1, u, its)
    BY <1>4 DEF NodeOf
  <2>2. tree.top.at = b /\ \A i \in 1..Width(u) : tree.leaf[i].at # b
    BY <1>1, <1>4 DEF NodesOf
  <2>3. Width(u) # 1
    BY <1>1, <2>2 DEF TreeShape
  <2>4. n.level = 1 /\ n.gen = tree.top.gen /\ n.items = its
    BY <2>1 DEF Node
  <2> HIDE DEF n
  <2>5. IsTopNode(n, u, tree, b)
    BY <1>1, <2>2, <2>3, <2>4 DEF IsTopNode
  <2> QED
    BY <1>2, <2>5 DEF n
<1> QED
  BY <1>3, <1>4

-----------------------------------------------------------------------------
(* A transaction.                                                          *)

Change(t, i, v) == [x \in {t} |-> [leaf |-> i, items |-> Contents[t][i][v]]]

(* The trees it leaves: in shape, of the next generation where they were   *)
(* rewritten and only there, and the blocks it was given are all in use.   *)
LEMMA NewTrees ==
    ASSUME MemOK, NEW t \in DOMAIN Contents, NEW i \in DOMAIN Contents[t],
           NEW v \in DOMAIN Contents[t][i],
           NEW to \in Placements(Slots({t} \cup {ROOT_TREE}), Free), NEW new,
           new = Rewritten(Change(t, i, v), Gen + 1, to)
    PROVE  /\ DOMAIN new = Trees
           /\ new[ROOT_TREE].top.gen = Gen + 1
           /\ \A u \in Trees : TreeShape(u, new[u], Gen + 1)
           /\ \A u \in Trees : \A j \in 1..Width(u) :
                 new[u].leaf[j] = mem[u].leaf[j] \/ new[u].leaf[j].gen = Gen + 1
           /\ Range(to) \subseteq Blocks \ Used(mem)
           /\ \A b \in Range(to) : \E u \in Trees : b \in NodesOf(new[u])
           /\ \A b \in Range(to) : \A u \in Trees : b \in NodesOf(new[u]) =>
                 /\ new[u].top.gen = Gen + 1
                 /\ \A j \in 1..Width(u) : new[u].leaf[j].at = b => new[u].leaf[j].gen = Gen + 1
<1> DEFINE g     == Gen + 1
           its   == Contents[t][i][v]
           slots == Slots({t} \cup {ROOT_TREE})
           cow(x, k, items) ==
               [leaf |-> [mem[x].leaf EXCEPT ![k] = Leaf(to[LeafSlot(x)], g, items)],
                top  |-> [at  |-> to[IF IsLeaf(mem[x]) THEN LeafSlot(x) ELSE TopSlot(x)],
                          gen |-> g]]
           data  == [x \in DOMAIN mem |-> IF x \in {t} THEN cow(t, i, its) ELSE mem[x]]
           r     == CHOOSE k \in DOMAIN RootLayout : \E x \in {t} : x \in Range(RootLayout[k])
           ritems == RootItems(data, r)
<1>1. /\ t \in Trees /\ t # ROOT_TREE /\ ROOT_TREE \in Trees /\ i \in 1..Width(t)
      /\ t \in Nat /\ ROOT_TREE = 1 /\ DOMAIN mem = Trees /\ Gen \in Nat
      /\ DOMAIN RootLayout = 1..Width(ROOT_TREE)
  BY TreesAre DEF MemOK
<1>2. \A u \in Trees : /\ TreeShape(u, mem[u], Gen) /\ DOMAIN mem[u].leaf = 1..Width(u)
                       /\ IsLeaf(mem[u]) <=> Width(u) = 1
  <2> SUFFICES ASSUME NEW u \in Trees
               PROVE  /\ TreeShape(u, mem[u], Gen) /\ DOMAIN mem[u].leaf = 1..Width(u)
                      /\ IsLeaf(mem[u]) <=> Width(u) = 1
    OBVIOUS
  <2>1. TreeShape(u, mem[u], Gen) /\ Width(u) \in Nat
    BY TreesAre DEF MemOK
  <2>2. mem[u].leaf = [k \in 1..Width(u) |-> mem[u].leaf[k]]
    BY <2>1 DEF TreeShape
  <2>3. DOMAIN mem[u].leaf = 1..Width(u) /\ Len(mem[u].leaf) = Width(u)
    <3>1. /\ DOMAIN [k \in 1..Width(u) |-> mem[u].leaf[k]] = 1..Width(u)
          /\ Len([k \in 1..Width(u) |-> mem[u].leaf[k]]) = Width(u)
      BY <2>1
    <3> QED
      BY <2>2, <3>1, Zenon
  <2> QED
    BY <2>1, <2>3 DEF IsLeaf
<1>3. r \in 1..Width(ROOT_TREE)
  <2>1. \E k \in DOMAIN RootLayout : t \in Range(RootLayout[k])
    BY ScanAssumption
  <2> QED
    BY <1>1, <2>1
<1>4. new = [data EXCEPT ![ROOT_TREE] = cow(ROOT_TREE, r, ritems)]
  <2>1. DOMAIN Change(t, i, v) = {t} /\ Change(t, i, v)[t].leaf = i /\ Change(t, i, v)[t].items = its
    BY DEF Change
  <2>2. data = [x \in DOMAIN mem |-> IF x \in DOMAIN Change(t, i, v)
                                     THEN cow(x, Change(t, i, v)[x].leaf, Change(t, i, v)[x].items)
                                     ELSE mem[x]]
    BY <2>1
  <2>3. r = CHOOSE k \in DOMAIN RootLayout :
              \E x \in DOMAIN Change(t, i, v) : x \in Range(RootLayout[k])
    BY <2>1
  <2> HIDE DEF data, r
  <2> QED
    BY <2>2, <2>3 DEF Rewritten
<1>5. /\ to \in [slots -> Free] /\ (\A x, y \in slots : to[x] = to[y] => x = y)
  <2>1. to \in [slots -> Free] /\ IsInjective(to)
    BY DEF Placements
  <2> QED
    BY <2>1 DEF IsInjective
<1>6. /\ LeafSlot(t) \in slots /\ LeafSlot(ROOT_TREE) \in slots
      /\ Width(t) # 1 => TopSlot(t) \in slots
      /\ Width(ROOT_TREE) # 1 => TopSlot(ROOT_TREE) \in slots
      /\ \A s \in slots : \/ s \in {LeafSlot(t), LeafSlot(ROOT_TREE)}
                          \/ s = TopSlot(t) /\ Width(t) # 1
                          \/ s = TopSlot(ROOT_TREE) /\ Width(ROOT_TREE) # 1
      /\ LeafSlot(t) # TopSlot(t) /\ LeafSlot(ROOT_TREE) # TopSlot(ROOT_TREE)
  BY <1>1, <1>2 DEF Slots, LeafSlot, TopSlot
<1>7. Free \subseteq Blocks \ Used(mem) /\ \A u \in Trees : NodesOf(mem[u]) \cap Free = {}
  BY <1>1 DEF Free, Used
<1> HIDE DEF slots
<1> DEFINE lt == to[LeafSlot(t)]
           lr == to[LeafSlot(ROOT_TREE)]
           tt == to[IF IsLeaf(mem[t]) THEN LeafSlot(t) ELSE TopSlot(t)]
           tr == to[IF IsLeaf(mem[ROOT_TREE]) THEN LeafSlot(ROOT_TREE) ELSE TopSlot(ROOT_TREE)]
<1>8. /\ lt \in Free /\ tt \in Free /\ (Width(t) = 1 => tt = lt) /\ (Width(t) # 1 => tt # lt)
      /\ lr \in Free /\ tr \in Free /\ (Width(ROOT_TREE) = 1 => tr = lr)
      /\ (Width(ROOT_TREE) # 1 => tr # lr)
  BY <1>1, <1>2, <1>5, <1>6
<1>9. \A b \in Range(to) : b \in {lt, tt, lr, tr}
  <2> SUFFICES ASSUME NEW s \in slots PROVE to[s] \in {lt, tt, lr, tr}
    BY <1>5 DEF Range
  <2> QED
    BY <1>1, <1>2, <1>6
<1>10. /\ new[t] = cow(t, i, its) /\ new[ROOT_TREE] = cow(ROOT_TREE, r, ritems) /\ DOMAIN new = Trees
       /\ \A u \in Trees \ {t, ROOT_TREE} : new[u] = mem[u]
  <2>1. DOMAIN data = Trees /\ data[t] = cow(t, i, its) /\ \A u \in Trees \ {t} : data[u] = mem[u]
    BY <1>1
  <2> HIDE DEF data
  <2> QED
    BY <1>1, <1>4, <2>1
<1>11. /\ new[t].leaf = [mem[t].leaf EXCEPT ![i] = Leaf(lt, g, its)]
       /\ new[t].top = [at |-> tt, gen |-> g]
       /\ new[ROOT_TREE].leaf = [mem[ROOT_TREE].leaf EXCEPT ![r] = Leaf(lr, g, ritems)]
       /\ new[ROOT_TREE].top = [at |-> tr, gen |-> g]
  <2>1. /\ cow(t, i, its).leaf = [mem[t].leaf EXCEPT ![i] = Leaf(lt, g, its)]
        /\ cow(t, i, its).top = [at |-> tt, gen |-> g]
    OBVIOUS
  <2>2. /\ cow(ROOT_TREE, r, ritems).leaf = [mem[ROOT_TREE].leaf EXCEPT ![r] = Leaf(lr, g, ritems)]
        /\ cow(ROOT_TREE, r, ritems).top = [at |-> tr, gen |-> g]
    <3> HIDE DEF r, ritems
    <3> QED
      OBVIOUS
  <2> HIDE DEF r, ritems, cow, lt, lr, tt, tr
  <2> QED
    BY <1>10, <2>1, <2>2
<1>12. MayHold(t, i, its)
  BY <1>1 DEF MayHold
<1>13. MayHold(ROOT_TREE, r, ritems)
  <2>1. DOMAIN data = Trees /\ data[t].top.at = tt /\ \A u \in Trees \ {t} : data[u] = mem[u]
    BY <1>1
  <2>2. \A u \in Trees : data[u].top.at \in Blocks
    BY <1>2, <1>7, <1>8, <2>1 DEF TreeShape
  <2> HIDE DEF data, r
  <2>3. DOMAIN ritems = DOMAIN RootLayout[r]
    BY DEF RootItems
  <2>4. ASSUME NEW j \in DOMAIN ritems
        PROVE  /\ ritems[j].key = <<RootLayout[r][j], ROOT_ITEM, 0>>
               /\ ritems[j].val = IF RootLayout[r][j] \in Trees THEN data[RootLayout[r][j]].top.at ELSE 0
    BY <2>1, <2>3 DEF RootItems
  <2> HIDE DEF ritems
  <2>5. \A x \in DOMAIN Contents : x \in Trees
    BY DEF Trees
  <2> QED
    BY <2>2, <2>3, <2>4, <2>5 DEF MayHold
<1> HIDE DEF lt, lr, tt, tr, ritems, r, data
<1>14. /\ TreeShape(t, new[t], g)
       /\ new[t].leaf[i] = Leaf(lt, g, its)
       /\ \A j \in 1..Width(t) : j # i => new[t].leaf[j] = mem[t].leaf[j]
  <2>1. lt \in Blocks /\ tt \in Blocks /\ lt \notin NodesOf(mem[t]) /\ tt \notin NodesOf(mem[t])
    BY <1>1, <1>7, <1>8
  <2> QED
    BY <1>1, <1>2, <1>8, <1>11, <1>12, <2>1, TreeMoved
<1>15. /\ TreeShape(ROOT_TREE, new[ROOT_TREE], g)
       /\ new[ROOT_TREE].leaf[r] = Leaf(lr, g, ritems)
       /\ \A j \in 1..Width(ROOT_TREE) : j # r => new[ROOT_TREE].leaf[j] = mem[ROOT_TREE].leaf[j]
  <2>1. /\ lr \in Blocks /\ tr \in Blocks
        /\ lr \notin NodesOf(mem[ROOT_TREE]) /\ tr \notin NodesOf(mem[ROOT_TREE])
    BY <1>1, <1>7, <1>8
  <2> QED
    BY <1>1, <1>2, <1>3, <1>8, <1>11, <1>13, <2>1, TreeMoved
<1>16. \A u \in Trees : TreeShape(u, new[u], g)
  <2>1. \A u \in Trees : TreeShape(u, mem[u], g)
    <3>1. \A x : x \in 0..Gen => x \in 0..g
      BY <1>1
    <3> QED
      BY <1>2, <3>1 DEF TreeShape
  <2> QED
    BY <1>10, <1>14, <1>15, <2>1
<1>17. \A u \in Trees : \A j \in 1..Width(u) :
          new[u].leaf[j] = mem[u].leaf[j] \/ new[u].leaf[j].gen = g
  <2>1. new[t].leaf[i].gen = g /\ new[ROOT_TREE].leaf[r].gen = g
    BY <1>14, <1>15 DEF Leaf
  <2> QED
    BY <1>10, <1>14, <1>15, <2>1
<1>18. new[ROOT_TREE].top.gen = g /\ new[t].top.gen = g
  BY <1>11
<1>19. Range(to) \subseteq Free
  BY <1>5 DEF Range
<1>20. \A b \in Range(to) : \E u \in Trees : b \in NodesOf(new[u])
  <2>1. new[t].leaf[i].at = lt /\ new[ROOT_TREE].leaf[r].at = lr
    BY <1>14, <1>15 DEF Leaf
  <2>2. new[t].top.at = tt /\ new[ROOT_TREE].top.at = tr
    BY <1>11
  <2>3. i \in DOMAIN new[t].leaf /\ r \in DOMAIN new[ROOT_TREE].leaf
    BY <1>1, <1>2, <1>3, <1>11
  <2>4. {lt, tt} \subseteq NodesOf(new[t]) /\ {lr, tr} \subseteq NodesOf(new[ROOT_TREE])
    BY <2>1, <2>2, <2>3 DEF NodesOf
  <2> QED
    BY <1>1, <1>9, <2>4
<1>21. ASSUME NEW b \in Range(to), NEW u \in Trees, b \in NodesOf(new[u])
       PROVE  /\ new[u].top.gen = g
              /\ \A j \in 1..Width(u) : new[u].leaf[j].at = b => new[u].leaf[j].gen = g
  <2>1. b \notin NodesOf(mem[u])
    BY <1>7, <1>19
  <2>2. u \in {t, ROOT_TREE}
    BY <1>10, <1>21, <2>1
  <2>3. \A j \in 1..Width(u) : mem[u].leaf[j].at # b
    BY <1>2, <2>1 DEF NodesOf
  <2> QED
    BY <1>17, <1>18, <2>2, <2>3
<1> QED
  BY <1>7, <1>10, <1>16, <1>17, <1>18, <1>19, <1>20, <1>21

(* What it does to the device: pointers of older generations lead where    *)
(* they led, since every node written is of the new one.                   *)
LEMMA Transaction ==
    ASSUME StoreOK, NEW t \in DOMAIN Contents, NEW i \in DOMAIN Contents[t], FsWriteNodes(t, i)
    PROVE  /\ StoreOK'
           /\ Gen' = Gen + 1 /\ Gen \in Nat
           /\ \A u \in Trees : \A j : \A b \in Blocks, g \in 0..Gen :
                Target(disk, u, j, b, g) => Target(disk', u, j, b, g)
<1>0. PICK v \in DOMAIN Contents[t][i] : WriteNodes(Change(t, i, v), TRUE)
  BY DEF FsWriteNodes, Change
<1>1a. PICK to \in Placements(Slots({t} \cup {ROOT_TREE}), Free) :
         \E lost \in {{}} \cup {{p} : p \in Copies(to)} :
           /\ budget > Cardinality(lost)
           /\ budget' = budget - 1 - Cardinality(lost)
           /\ mem' = Rewritten(Change(t, i, v), Gen + 1, to)
           /\ disk' = DiskWith(mem', to, Copies(to) \ lost)
  <2>1. DOMAIN Change(t, i, v) = {t}
    BY DEF Change
  <2>2. \A C : {{}} \cup (IF TRUE THEN {{p} : p \in C} ELSE {}) = {{}} \cup {{p} : p \in C}
    OBVIOUS
  <2> QED
    BY <1>0, <2>1, <2>2 DEF WriteNodes, Gen
<1>1. PICK lost \in {{}} \cup {{p} : p \in Copies(to)} :
        /\ budget > Cardinality(lost)
        /\ budget' = budget - 1 - Cardinality(lost)
        /\ mem' = Rewritten(Change(t, i, v), Gen + 1, to)
        /\ disk' = DiskWith(mem', to, Copies(to) \ lost)
  BY <1>1a
<1>2. MemOK /\ DiskOK /\ SupersOK /\ budget \in 0..Trouble /\ Gen \in Nat
  BY DEF StoreOK, MemOK
<1>3. /\ DOMAIN mem' = Trees
      /\ mem'[ROOT_TREE].top.gen = Gen + 1
      /\ \A u \in Trees : TreeShape(u, mem'[u], Gen + 1)
      /\ \A u \in Trees : \A j \in 1..Width(u) :
            mem'[u].leaf[j] = mem[u].leaf[j] \/ mem'[u].leaf[j].gen = Gen + 1
      /\ Range(to) \subseteq Blocks \ Used(mem)
      /\ \A b \in Range(to) : \E u \in Trees : b \in NodesOf(mem'[u])
      /\ \A b \in Range(to) : \A u \in Trees : b \in NodesOf(mem'[u]) =>
            /\ mem'[u].top.gen = Gen + 1
            /\ \A j \in 1..Width(u) : mem'[u].leaf[j].at = b => mem'[u].leaf[j].gen = Gen + 1
  BY <1>1, <1>2, NewTrees
<1>4. Gen' = Gen + 1
  BY <1>3 DEF Gen
<1> DEFINE Written(b, n) == \E u \in Trees : /\ b \in Range(to) /\ b \in NodesOf(mem'[u])
                                             /\ n = NodeOf(u, mem'[u], b)
<1>5. ASSUME NEW b \in Blocks, NEW p \in Phys(b) PROVE disk'[p] = disk[p] \/ Written(b, disk'[p])
  <2>1. p \in DOMAIN disk
    BY <1>2 DEF DiskOK
  <2>2. CASE p \notin Copies(to) \ lost
    BY <1>1, <2>1, <2>2 DEF DiskWith
  <2>3. CASE p \in Copies(to)  \ lost
    <3> DEFINE c == CHOOSE x \in Range(to) : p \in Phys(x)
               u == CHOOSE u \in DOMAIN mem' : b \in NodesOf(mem'[u])
    <3>1. c \in Range(to) /\ p \in Phys(c)
      BY <2>3 DEF Copies
    <3>2. c = b
      BY <1>3, <3>1, PlacesAssumption
    <3>3. disk'[p] = NodeAt(mem', c)
      BY <1>1, <2>1, <2>3 DEF DiskWith
    <3>4. u \in Trees /\ b \in NodesOf(mem'[u])
      BY <1>3, <3>1, <3>2
    <3>5. NodeAt(mem', b) = NodeOf(u, mem'[u], b)
      BY DEF NodeAt
    <3> HIDE DEF c, u
    <3> QED
      BY <3>1, <3>2, <3>3, <3>4, <3>5
  <2> QED
    BY <2>2, <2>3
<1>6. ASSUME NEW b, NEW n, Written(b, n)
      PROVE  /\ n.kind = "node" /\ n.fsid = "own" /\ n.bytenr = b /\ n.gen = Gen + 1 /\ n.owner \in Trees
             /\ \/ \E j \in 1..Width(n.owner) : IsLeafNode(n, mem'[n.owner], b, j)
                \/ IsTopNode(n, n.owner, mem'[n.owner], b)
  <2>1. PICK u \in Trees : b \in Range(to) /\ b \in NodesOf(mem'[u]) /\ n = NodeOf(u, mem'[u], b)
    BY <1>6
  <2>2. /\ n.kind = "node" /\ n.fsid = "own" /\ n.bytenr = b /\ n.owner = u
        /\ \/ \E j \in 1..Width(u) : IsLeafNode(n, mem'[u], b, j)
           \/ IsTopNode(n, u, mem'[u], b)
    BY <1>3, <2>1, NodeIs
  <2>3. n.gen = Gen + 1
    BY <1>3, <2>1, <2>2 DEF IsLeafNode, IsTopNode
  <2> QED
    BY <2>2, <2>3
<1> HIDE DEF Written
<1>7. ASSUME NEW u \in Trees, NEW j, NEW b \in Blocks, NEW g \in 0..Gen, Target(disk, u, j, b, g)
      PROVE  Target(disk', u, j, b, g)
  <2> SUFFICES ASSUME NEW p \in Phys(b), Own(disk'[p]), disk'[p].owner = u, disk'[p].level = 0,
                      disk'[p].gen = g
               PROVE  MayHold(u, j, disk'[p].items)
    BY DEF Target
  <2>1. disk'[p] = disk[p]
    BY <1>2, <1>5, <1>6
  <2> QED
    BY <1>7, <2>1 DEF Target
<1>8. ASSUME NEW u \in Trees, NEW j \in 1..Width(u)
      PROVE  Target(disk', u, j, mem'[u].leaf[j].at, mem'[u].leaf[j].gen)
  <2>1. TreeShape(u, mem'[u], Gen + 1) /\ TreeShape(u, mem[u], Gen)
    BY <1>2, <1>3 DEF MemOK
  <2> DEFINE b == mem'[u].leaf[j].at
  <2>2. b \in Blocks /\ MayHold(u, j, mem'[u].leaf[j].items)
    BY <2>1 DEF TreeShape
  <2>3. CASE mem'[u].leaf[j] = mem[u].leaf[j]
    <3>1. /\ Target(disk, u, j, mem[u].leaf[j].at, mem[u].leaf[j].gen)
          /\ mem[u].leaf[j].at \in Blocks /\ mem[u].leaf[j].gen \in 0..Gen
      BY <1>2, <2>1 DEF MemOK, TreeShape
    <3> QED
      BY <1>7, <2>3, <3>1
  <2>4. CASE mem'[u].leaf[j].gen = Gen + 1
    <3> HIDE DEF b
    <3> SUFFICES ASSUME NEW p \in Phys(b), Own(disk'[p]), disk'[p].owner = u,
                        disk'[p].level = 0, disk'[p].gen = Gen + 1
                 PROVE  MayHold(u, j, disk'[p].items)
      BY <2>4 DEF Target, b
    <3>1. disk'[p] # disk[p]
      <4> SUFFICES ASSUME disk'[p] = disk[p] PROVE FALSE
        OBVIOUS
      <4>1. disk[p] \in BadKinds \/ NodeShape(disk, Gen, b, disk[p])
        BY <1>2, <2>2 DEF DiskOK
      <4>2. disk[p] \notin BadKinds
        BY DEF Own, BadKinds, Garbage, Eio, Foreign
      <4> QED
        BY <1>2, <4>1, <4>2 DEF NodeShape
    <3>2. Written(b, disk'[p])
      BY <1>5, <2>2, <3>1
    <3>3. PICK k \in 1..Width(u) : IsLeafNode(disk'[p], mem'[u], b, k)
      BY <1>6, <3>2 DEF IsTopNode
    <3>4. k = j
      BY <2>1, <3>3 DEF IsLeafNode, TreeShape, b
    <3> QED
      BY <2>2, <3>3, <3>4 DEF IsLeafNode
  <2> QED
    BY <1>3, <2>3, <2>4
<1>9. \A x : x \in 0..Gen => x \in 0..Gen'
  BY <1>2, <1>4
<1>10. ASSUME NEW b \in Blocks, NEW p \in Phys(b)
       PROVE  disk'[p] \in BadKinds \/ NodeShape(disk', Gen', b, disk'[p])
  <2>1. CASE disk'[p] = disk[p]
    <3>1. CASE disk[p] \in BadKinds
      BY <2>1, <3>1 DEF BadKinds
    <3>2. CASE NodeShape(disk, Gen, b, disk[p])
      <4> DEFINE n == disk[p]
      <4>1. n.kind = "node" /\ n.fsid = "own" /\ n.bytenr = b /\ n.gen \in 0..Gen /\ n.owner \in Trees
        BY <3>2 DEF NodeShape
      <4>2. CASE LeafShape(n)
        <5>1. LeafShape(disk'[p])
          BY <2>1, <4>2 DEF LeafShape
        <5> QED
          BY <1>9, <2>1, <4>1, <5>1 DEF NodeShape
      <4>3. CASE TopShape(disk, Gen, b, n)
        <5>1. ASSUME NEW k \in DOMAIN n.items PROVE Pointer(disk', Gen', n.owner, k, n.items[k])
          <6>1. Pointer(disk, Gen, n.owner, k, n.items[k])
            BY <4>3 DEF TopShape
          <6>2. Target(disk', n.owner, k, n.items[k].val.at, n.items[k].val.gen)
            BY <1>7, <4>1, <6>1 DEF Pointer
          <6> QED
            BY <1>9, <2>1, <6>1, <6>2 DEF Pointer
        <5>2. TopShape(disk', Gen', b, disk'[p])
          BY <2>1, <4>3, <5>1 DEF TopShape
        <5> QED
          BY <1>9, <2>1, <4>1, <5>2 DEF NodeShape
      <4> QED
        BY <3>2, <4>2, <4>3 DEF NodeShape
    <3> QED
      BY <1>2, <3>1, <3>2 DEF DiskOK
  <2>2. CASE Written(b, disk'[p])
    <3> DEFINE n == disk'[p]
               u == n.owner
    <3>1. /\ n.kind = "node" /\ n.fsid = "own" /\ n.bytenr = b /\ n.gen = Gen + 1 /\ u \in Trees
          /\ \/ \E j \in 1..Width(u) : IsLeafNode(n, mem'[u], b, j)
             \/ IsTopNode(n, u, mem'[u], b)
      BY <1>6, <2>2
    <3>2. n.gen \in 0..Gen' /\ TreeShape(u, mem'[u], Gen + 1)
      BY <1>2, <1>3, <1>4, <3>1
    <3>3. CASE \E j \in 1..Width(u) : IsLeafNode(n, mem'[u], b, j)
      <4>1. LeafShape(disk'[p])
        BY <3>2, <3>3 DEF LeafShape, IsLeafNode, TreeShape
      <4> QED
        BY <3>1, <3>2, <4>1 DEF NodeShape
    <3>4. CASE IsTopNode(n, u, mem'[u], b)
      <4> HIDE DEF n
      <4>1. ASSUME NEW k \in 1..Width(u) PROVE Pointer(disk', Gen', u, k, n.items[k])
        <5>1. /\ n.items[k].val.at = mem'[u].leaf[k].at /\ n.items[k].val.gen = mem'[u].leaf[k].gen
              /\ n.items[k].key = mem'[u].leaf[k].items[1].key
          BY <3>4 DEF IsTopNode
        <5>2. /\ mem'[u].leaf[k].at \in Blocks /\ mem'[u].leaf[k].gen \in 0..Gen'
              /\ MayHold(u, k, mem'[u].leaf[k].items)
          BY <1>4, <3>2 DEF TreeShape
        <5>3. u # ROOT_TREE => \E w \in DOMAIN Contents[u][k] : n.items[k].key = Contents[u][k][w][1].key
          BY <5>1, <5>2 DEF MayHold
        <5>4. Target(disk', u, k, n.items[k].val.at, n.items[k].val.gen)
          BY <1>8, <3>1, <5>1 DEF n
        <5> QED
          BY <5>1, <5>2, <5>3, <5>4 DEF Pointer, n
      <4>2. TopShape(disk', Gen', b, n)
        BY <3>2, <3>4, <4>1, TopNodeShape
      <4> QED
        BY <3>1, <3>2, <4>2 DEF NodeShape, n
    <3> QED
      BY <3>1, <3>3, <3>4
  <2> QED
    BY <1>5, <2>1, <2>2
<1>11. DiskOK'
  <2>1. DOMAIN disk' = DOMAIN disk
    BY <1>1 DEF DiskWith
  <2>2. \A p \in DOMAIN disk : p \notin Copies(to) => disk'[p] = disk[p]
    BY <1>1 DEF DiskWith
  <2>3. 0 \notin Copies(to) /\ \A p \in Phys(ChunkRoot) : p \notin Copies(to)
    BY <1>3, PlacesAssumption, ScanAssumption DEF Copies
  <2>4. 0 \in DOMAIN disk /\ \A p \in Phys(ChunkRoot) : p \in DOMAIN disk
    BY <1>2 DEF DiskOK
  <2>5. disk'[0] = Garbage /\ \A p \in Phys(ChunkRoot) : disk'[p] \in BadKinds \cup {ChunkNode}
    BY <1>2, <2>2, <2>3, <2>4 DEF DiskOK
  <2> QED
    BY <1>2, <1>10, <2>1, <2>5 DEF DiskOK
<1>12. MemOK'
  BY <1>2, <1>3, <1>4, <1>8 DEF MemOK
<1>13. budget' \in 0..Trouble
  <2>1. Cardinality(lost) \in {0, 1}
    BY <1>1, FS_EmptySet, FS_Singleton
  <2> QED
    BY <1>1, <1>2, <2>1, StoreAssumption
<1>14. SupersOK'
  <2>1. UNCHANGED supers
    BY <1>0 DEF WriteNodes
  <2> QED
    BY <1>2, <2>1 DEF SupersOK
<1>15. StoreOK'
  BY <1>11, <1>12, <1>13, <1>14 DEF StoreOK
<1> QED
  BY <1>2, <1>4, <1>7, <1>15

-----------------------------------------------------------------------------
(* The start.                                                              *)

(* A tree laid out from a block on.                                        *)
LEMMA FirstTree ==
    ASSUME NEW u \in Trees, NEW b \in Nat, NEW leaves, leaves = [i \in 1..Width(u) |-> leaves[i]],
           \A i \in 1..Width(u) : MayHold(u, i, leaves[i]),
           NodesOf(TreeAt(b, leaves)) \subseteq Blocks
    PROVE  /\ TreeShape(u, TreeAt(b, leaves), 1)
           /\ TreeAt(b, leaves).top.gen = 1
           /\ \A i \in 1..Width(u) : TreeAt(b, leaves).leaf[i].gen = 1
<1> DEFINE tree == TreeAt(b, leaves)
<1>1. Width(u) \in Nat /\ 1 \in 1..Width(u)
  BY TreesAre
<1>2. DOMAIN leaves = 1..Width(u) /\ Len(leaves) = Width(u)
  <2>1. /\ DOMAIN [i \in 1..Width(u) |-> leaves[i]] = 1..Width(u)
        /\ Len([i \in 1..Width(u) |-> leaves[i]]) = Width(u)
    BY <1>1
  <2> QED
    BY <2>1, Zenon
<1>3. tree.leaf = [i \in 1..Width(u) |-> Leaf(b + i - 1, 1, leaves[i])]
  BY <1>2 DEF TreeAt
<1>4. tree.top.at = (IF Width(u) = 1 THEN b ELSE b + Width(u)) /\ tree.top.gen = 1
  BY <1>2 DEF TreeAt
<1> HIDE DEF tree
<1>5. \A i \in 1..Width(u) : /\ tree.leaf[i].at = b + i - 1 /\ tree.leaf[i].gen = 1
                             /\ tree.leaf[i].items = leaves[i]
  BY <1>3 DEF Leaf
<1>6. tree.leaf = [i \in 1..Width(u) |-> tree.leaf[i]] /\ DOMAIN tree.leaf = 1..Width(u)
  BY <1>3
<1>7. tree.top.at \in Blocks /\ \A i \in 1..Width(u) : tree.leaf[i].at \in Blocks
  BY <1>6 DEF NodesOf, tree
<1>8. ASSUME NEW i \in 1..Width(u)
      PROVE  /\ \A j \in 1..Width(u) : tree.leaf[i].at = tree.leaf[j].at => i = j
             /\ tree.top.at = tree.leaf[i].at <=> Width(u) = 1
  <2>1. \A j \in 1..Width(u) : b + i - 1 = b + j - 1 => i = j
    BY <1>1
  <2>2. CASE Width(u) = 1
    BY <1>4, <1>5, <2>1, <2>2
  <2>3. CASE Width(u) # 1
    <3>1. b + Width(u) # b + i - 1
      BY <1>1
    <3> QED
      BY <1>4, <1>5, <2>1, <2>3, <3>1
  <2> QED
    BY <2>2, <2>3
<1>9. TreeShape(u, tree, 1)
  BY <1>4, <1>5, <1>6, <1>7, <1>8 DEF TreeShape
<1> QED
  BY <1>4, <1>5, <1>9 DEF tree

LEMMA FirstTrees ==
    /\ DOMAIN InitTrees = Trees
    /\ \A u \in Trees : /\ TreeShape(u, InitTrees[u], 1)
                        /\ InitTrees[u].top.gen = 1
                        /\ \A i \in 1..Width(u) : InitTrees[u].leaf[i].gen = 1
<1> DEFINE data == [t \in DOMAIN Contents |->
                      TreeAt(Layout[t], [i \in DOMAIN Contents[t] |-> Contents[t][i][1]])]
           ritems == [i \in DOMAIN RootLayout |-> RootItems(data, i)]
<1>1. InitTrees = [t \in Trees |-> IF t = ROOT_TREE THEN TreeAt(Layout[t], ritems) ELSE data[t]]
  BY DEF InitTrees, Trees
<1>2. \A u \in Trees : Layout[u] \in Nat /\ NodesOf(InitTrees[u]) \subseteq Blocks
  <2>1. DOMAIN InitTrees = Trees
    BY DEF InitTrees, Trees
  <2> QED
    BY <2>1, LayoutAssumption
<1>3. ASSUME NEW u \in DOMAIN Contents
      PROVE  /\ TreeShape(u, InitTrees[u], 1)
             /\ InitTrees[u].top.gen = 1
             /\ \A i \in 1..Width(u) : InitTrees[u].leaf[i].gen = 1
  <2> DEFINE leaves == [i \in 1..Width(u) |-> Contents[u][i][1]]
  <2>1. u \in Trees /\ u # ROOT_TREE /\ DOMAIN Contents[u] = 1..Width(u)
    BY TreesAre
  <2>2. InitTrees[u] = TreeAt(Layout[u], leaves)
    BY <1>1, <2>1
  <2>3. \A i \in 1..Width(u) : MayHold(u, i, leaves[i])
    BY <2>1, OrderAssumption DEF MayHold
  <2>4. leaves = [i \in 1..Width(u) |-> leaves[i]]
    OBVIOUS
  <2> HIDE DEF leaves
  <2>5. Layout[u] \in Nat /\ NodesOf(TreeAt(Layout[u], leaves)) \subseteq Blocks
    BY <1>2, <2>1, <2>2
  <2>6. /\ TreeShape(u, TreeAt(Layout[u], leaves), 1)
        /\ TreeAt(Layout[u], leaves).top.gen = 1
        /\ \A i \in 1..Width(u) : TreeAt(Layout[u], leaves).leaf[i].gen = 1
    BY <2>1, <2>3, <2>4, <2>5, FirstTree
  <2> QED
    BY <2>2, <2>6
<1>4. /\ TreeShape(ROOT_TREE, InitTrees[ROOT_TREE], 1)
      /\ InitTrees[ROOT_TREE].top.gen = 1
      /\ \A i \in 1..Width(ROOT_TREE) : InitTrees[ROOT_TREE].leaf[i].gen = 1
  <2>1. ROOT_TREE \in Trees /\ DOMAIN RootLayout = 1..Width(ROOT_TREE)
    BY TreesAre
  <2>2. InitTrees[ROOT_TREE] = TreeAt(Layout[ROOT_TREE], ritems)
    BY <1>1, <2>1
  <2>3. DOMAIN data = DOMAIN Contents /\ \A x \in DOMAIN Contents : data[x].top.at \in Blocks
    <3>1. \A x \in DOMAIN Contents : InitTrees[x] = data[x]
      BY <1>1, TreesAre
    <3> QED
      BY <1>3, <3>1 DEF TreeShape
  <2> HIDE DEF data
  <2>4. ASSUME NEW i \in 1..Width(ROOT_TREE) PROVE MayHold(ROOT_TREE, i, ritems[i])
    <3>1. ritems[i] = RootItems(data, i)
      BY <2>1
    <3>2. DOMAIN RootItems(data, i) = DOMAIN RootLayout[i]
      BY DEF RootItems
    <3>3. \A j \in DOMAIN RootLayout[i] :
            /\ RootItems(data, i)[j].key = <<RootLayout[i][j], ROOT_ITEM, 0>>
            /\ RootItems(data, i)[j].val = IF RootLayout[i][j] \in DOMAIN Contents
                                           THEN data[RootLayout[i][j]].top.at ELSE 0
      BY <2>3 DEF RootItems
    <3> QED
      BY <2>3, <3>1, <3>2, <3>3 DEF MayHold
  <2>5. ritems = [i \in 1..Width(ROOT_TREE) |-> ritems[i]]
    BY <2>1
  <2> HIDE DEF ritems
  <2>6. Layout[ROOT_TREE] \in Nat /\ NodesOf(TreeAt(Layout[ROOT_TREE], ritems)) \subseteq Blocks
    BY <1>2, <2>1, <2>2
  <2>7. /\ TreeShape(ROOT_TREE, TreeAt(Layout[ROOT_TREE], ritems), 1)
        /\ TreeAt(Layout[ROOT_TREE], ritems).top.gen = 1
        /\ \A i \in 1..Width(ROOT_TREE) : TreeAt(Layout[ROOT_TREE], ritems).leaf[i].gen = 1
    BY <2>1, <2>4, <2>5, <2>6, FirstTree
  <2> QED
    BY <2>2, <2>7
<1>5. DOMAIN InitTrees = Trees
  BY <1>1
<1> QED
  BY <1>3, <1>4, <1>5 DEF Trees

(* The copies of a node are finitely many, and so are the bad ones.        *)
LEMMA CopiesFinite == ASSUME NEW b \in Nat PROVE IsFiniteSet(Phys(b))
<1> DEFINE hit == {c \in Chunks : c.begin <= b /\ b < c.end}
           c   == CHOOSE x \in hit : TRUE
           s   == lookup_stripes(Chunks, b)
<1>1. CASE hit = {}
  <2>1. s = <<>>
    BY <1>1 DEF lookup_stripes
  <2>2. DOMAIN s = {}
    BY <2>1
  <2>3. Phys(b) = {}
    BY <2>2 DEF Phys, Range
  <2> QED
    BY <2>3, FS_EmptySet
<1>2. CASE hit # {}
  <2>1. c \in Chunks
    BY <1>2
  <2>2. s = [i \in DOMAIN c.stripes |-> c.stripes[i] + (b - c.begin)]
    BY <1>2 DEF lookup_stripes
  <2>3. c.stripes \in Seq(Nat)
    BY <2>1, StoreAssumption
  <2> HIDE DEF c
  <2>4. DOMAIN c.stripes = 1..Len(c.stripes) /\ Len(c.stripes) \in Nat
    BY <2>3
  <2>5. IsFiniteSet(DOMAIN s)
    <3>1. DOMAIN s = 1..Len(c.stripes)
      BY <2>2, <2>4
    <3> HIDE DEF s
    <3> QED
      BY <2>4, <3>1, FS_Interval
  <2>6. s = [i \in DOMAIN s |-> s[i]]
    BY <2>2
  <2> HIDE DEF s
  <2>7. s \in Surjection(DOMAIN s, Phys(b))
    BY <2>6 DEF Surjection, Phys, Range, s
  <2> QED
    BY <2>5, <2>7, FS_Surjection
<1> QED
  BY <1>1, <1>2

LEMMA BadFinite ==
    ASSUME NEW bad \in BadCopies
    PROVE  /\ Cardinality(DOMAIN bad) \in Nat
           /\ \A p \in DOMAIN bad : bad[p] \in BadKinds
<1> DEFINE used == UNION {Phys(b) : b \in NodesInUse}
<1>1. NodesInUse \subseteq Nat
  <2>1. \A u \in DOMAIN InitTrees : NodesOf(InitTrees[u]) \subseteq Blocks
    BY LayoutAssumption
  <2>2. Used(InitTrees) \subseteq Blocks
    BY <2>1 DEF Used
  <2> QED
    BY <2>2, StoreAssumption, ScanAssumption DEF NodesInUse
<1>2. CASE bad \in BadCopiesOfOne(NodesInUse)
  <2>1. PICK b \in NodesInUse : \E S \in SUBSET Phys(b) : bad \in [S -> BadKinds]
    BY <1>2 DEF BadCopiesOfOne
  <2>2. IsFiniteSet(DOMAIN bad)
    <3>1. DOMAIN bad \in SUBSET Phys(b)
      BY <2>1
    <3>2. IsFiniteSet(Phys(b))
      BY <1>1, CopiesFinite
    <3> QED
      BY <3>1, <3>2, FS_Subset
  <2> QED
    BY <2>1, <2>2, FS_CardinalityType
<1>3. CASE bad \in {[x \in {p, q} |-> k] : p \in used, q \in used, k \in BadKinds}
  <2> HIDE DEF used
  <2>1. \E p \in used : \E q \in used : \E k \in BadKinds :
          DOMAIN bad = {p, q} /\ \A x \in {p, q} : bad[x] = k
    BY <1>3, SMT
  <2>2. PICK p \in used, q \in used, k \in BadKinds :
          DOMAIN bad = {p, q} /\ \A x \in {p, q} : bad[x] = k
    BY <2>1
  <2>3. {p, q} = {p} \cup {q} /\ IsFiniteSet({p} \cup {q})
    BY FS_Singleton, FS_Union
  <2>4. IsFiniteSet(DOMAIN bad)
    BY <2>2, <2>3
  <2> QED
    BY <2>2, <2>4, FS_CardinalityType
<1> QED
  BY <1>2, <1>3 DEF BadCopies

(* The store is in shape at first.                                         *)
(* At first every copy of a node is bad or the node.                       *)
LEMMA FirstCopies ==
    ASSUME Init, NEW b \in Blocks \cup {ChunkRoot}, NEW p \in Phys(b)
    PROVE  disk[p] \in BadKinds \/ disk[p] = ScanNode(b)
<1> DEFINE all == Blocks \cup {ChunkRoot}
<1>1. PICK bad \in BadCopies, badSupers \in SUBSET Superblocks :
        InitStore(all, ScanNode, bad, badSupers)
  BY DEF Init
<1>2. disk = [x \in {0} \cup UNION {Phys(a) : a \in all} |->
                IF x = 0 THEN Garbage
                ELSE IF x \in DOMAIN bad THEN bad[x]
                ELSE ScanNode(CHOOSE a \in all : x \in Phys(a))]
  BY <1>1 DEF InitStore
<1>3. p # 0 /\ p \in UNION {Phys(x) : x \in all}
  BY PlacesAssumption, ScanAssumption
<1>4. CASE p \in DOMAIN bad
  BY <1>2, <1>3, <1>4, BadFinite
<1>5. CASE p \notin DOMAIN bad
  <2> DEFINE c == CHOOSE x \in all : p \in Phys(x)
  <2>1. disk[p] = ScanNode(c)
    BY <1>2, <1>3, <1>5
  <2>2. c \in all /\ p \in Phys(c)
    OBVIOUS
  <2> HIDE DEF c
  <2>3. c = b
    BY <2>2, PlacesAssumption, ScanAssumption
  <2> QED
    BY <2>1, <2>3
<1> QED
  BY <1>4, <1>5

LEMMA StoreInit == Init => StoreOK
<1> SUFFICES ASSUME Init PROVE StoreOK
  OBVIOUS
<1>1. PICK bad \in BadCopies, badSupers \in SUBSET Superblocks :
        InitStore(Blocks \cup {ChunkRoot}, ScanNode, bad, badSupers)
  BY DEF Init
<1> DEFINE all == Blocks \cup {ChunkRoot}
<1>2. mem = InitTrees
  BY <1>1 DEF InitStore
<1>3. /\ DOMAIN mem = Trees /\ Gen = 1
      /\ \A u \in Trees : /\ TreeShape(u, mem[u], 1)
                          /\ mem[u].top.gen = 1
                          /\ \A i \in 1..Width(u) : mem[u].leaf[i].gen = 1
  BY <1>2, FirstTrees, TreesAre DEF Gen
<1>4. budget \in 0..Trouble
  <2>1. Cardinality(DOMAIN bad) \in Nat
    BY BadFinite
  <2>2. Cardinality(badSupers) \in Nat
    <3>1. IsFiniteSet(1..2)
      <4>1. 1 \in Int /\ 2 \in Int
        OBVIOUS
      <4> QED
        BY <4>1, FS_Interval, Zenon
    <3>2. IsFiniteSet(badSupers)
      BY <3>1, FS_Subset DEF Superblocks
    <3> QED
      BY <3>2, FS_CardinalityType
  <2>3. /\ Cardinality(DOMAIN bad) + Cardinality(badSupers) <= Trouble
        /\ budget = Trouble - Cardinality(DOMAIN bad) - Cardinality(badSupers)
    BY <1>1 DEF InitStore
  <2> QED
    BY <2>1, <2>2, <2>3, StoreAssumption
<1>5. SupersOK
  <2>1. supers = [i \in 1..3 |-> IF i \notin Superblocks THEN [kind |-> "eof"]
                                 ELSE IF i \in badSupers THEN Garbage ELSE SuperOf(mem)]
    BY <1>1 DEF InitStore
  <2>2. SuperOf(mem).root \in Blocks
    BY <1>3, TreesAre DEF SuperOf, TreeShape
  <2>3. ASSUME NEW i \in 1..3, supers[i].kind = "super" PROVE supers[i].root \in Blocks
    <3>1. supers[i] \in {[kind |-> "eof"], Garbage, SuperOf(mem)}
      BY <2>1
    <3>2. [kind |-> "eof"].kind # "super" /\ Garbage.kind # "super"
      BY DEF Garbage
    <3> QED
      BY <2>2, <2>3, <3>1, <3>2
  <2> QED
    BY <2>1, <2>3 DEF SupersOK
<1>6. disk = [p \in {0} \cup UNION {Phys(b) : b \in all} |->
                IF p = 0 THEN Garbage
                ELSE IF p \in DOMAIN bad THEN bad[p]
                ELSE ScanNode(CHOOSE b \in all : p \in Phys(b))]
  BY <1>1 DEF InitStore
<1>7. ASSUME NEW b \in all, NEW p \in Phys(b)
      PROVE  disk[p] \in BadKinds \/ disk[p] = ScanNode(b)
  BY FirstCopies
<1>8. \A p \in Phys(ChunkRoot) : disk[p] \in BadKinds \cup {ChunkNode}
  BY <1>7 DEF ScanNode, ChunkNode
<1>9. ASSUME NEW b \in Blocks, NEW p \in Phys(b) PROVE disk[p] \in BadKinds \/ disk[p] = InitNode(b)
  BY <1>7, ScanAssumption DEF ScanNode
<1>10. ASSUME NEW b \in Blocks, b \in Used(mem)
       PROVE  \E u \in Trees : b \in NodesOf(mem[u]) /\ InitNode(b) = NodeOf(u, mem[u], b)
  <2> DEFINE u == CHOOSE x \in DOMAIN mem : b \in NodesOf(mem[x])
  <2>1. u \in Trees /\ b \in NodesOf(mem[u])
    BY <1>3, <1>10 DEF Used
  <2>2. InitNode(b) = NodeOf(u, mem[u], b)
    BY <1>10 DEF InitNode, NodeAt
  <2> HIDE DEF u
  <2> QED
    BY <2>1, <2>2
<1>11. ASSUME NEW b \in Blocks, b \notin Used(mem)
       PROVE  /\ InitNode(b) = Node(b, 0, 0, CSUM_TREE, Contents[CSUM_TREE][1][1])
              /\ MayHold(CSUM_TREE, 1, Contents[CSUM_TREE][1][1])
  <2>1. CSUM_TREE \in DOMAIN Contents /\ CSUM_TREE # ROOT_TREE /\ 1 \in DOMAIN Contents[CSUM_TREE]
    BY TreesAre
  <2> QED
    BY <1>11, <2>1, OrderAssumption DEF InitNode, MayHold
<1>12. ASSUME NEW u \in Trees, NEW i \in 1..Width(u)
       PROVE  Target(disk, u, i, mem[u].leaf[i].at, mem[u].leaf[i].gen)
  <2> DEFINE b == mem[u].leaf[i].at
  <2>1. b \in Blocks /\ b \in NodesOf(mem[u]) /\ MayHold(u, i, mem[u].leaf[i].items)
    <3>1. TreeShape(u, mem[u], 1)
      BY <1>3
    <3>2. i \in DOMAIN mem[u].leaf
      BY <3>1 DEF TreeShape
    <3> QED
      BY <3>1, <3>2 DEF TreeShape, NodesOf
  <2>2. b \in Used(mem)
    BY <1>3, <2>1 DEF Used
  <2> HIDE DEF b
  <2> SUFFICES ASSUME NEW p \in Phys(b), Own(disk[p]), disk[p].owner = u, disk[p].level = 0
               PROVE  MayHold(u, i, disk[p].items)
    BY DEF Target, b
  <2>3. disk[p] = InitNode(b)
    <3>1. disk[p] \notin BadKinds
      BY DEF Own, BadKinds, Garbage, Eio, Foreign
    <3> QED
      BY <1>9, <2>1, <3>1
  <2>4. PICK x \in Trees : b \in NodesOf(mem[x]) /\ disk[p] = NodeOf(x, mem[x], b)
    BY <1>10, <2>1, <2>2, <2>3
  <2>5. x = u /\ \E k \in 1..Width(u) : IsLeafNode(disk[p], mem[u], b, k)
    BY <1>3, <2>4, NodeIs DEF IsTopNode
  <2>6. PICK k \in 1..Width(u) : IsLeafNode(disk[p], mem[u], b, k)
    BY <2>5
  <2>7. k = i
    <3>1. mem[u].leaf[k].at = mem[u].leaf[i].at
      BY <2>6 DEF IsLeafNode, b
    <3>2. \A x1, x2 \in 1..Width(u) : mem[u].leaf[x1].at = mem[u].leaf[x2].at => x1 = x2
      BY <1>3 DEF TreeShape
    <3> QED
      BY <3>1, <3>2
  <2> QED
    BY <2>1, <2>6, <2>7 DEF IsLeafNode
<1>13. ASSUME NEW b \in Blocks PROVE NodeShape(disk, Gen, b, InitNode(b))
  <2> DEFINE n == InitNode(b)
  <2>1. CASE b \notin Used(mem)
    <3>1. n = Node(b, 0, 0, CSUM_TREE, Contents[CSUM_TREE][1][1])
      BY <1>11, <2>1
    <3>2. /\ n.kind = "node" /\ n.fsid = "own" /\ n.bytenr = b /\ n.gen = 0 /\ n.level = 0
          /\ n.owner = CSUM_TREE /\ n.items = Contents[CSUM_TREE][1][1]
      BY <3>1 DEF Node
    <3> HIDE DEF n
    <3>3. CSUM_TREE \in Trees /\ 1 \in 1..Width(CSUM_TREE)
      BY TreesAre
    <3>4. LeafShape(n)
      BY <1>11, <2>1, <3>2, <3>3 DEF LeafShape
    <3> QED
      BY <1>3, <3>2, <3>3, <3>4 DEF NodeShape, n
  <2>2. CASE b \in Used(mem)
    <3>1. PICK u \in Trees : b \in NodesOf(mem[u]) /\ n = NodeOf(u, mem[u], b)
      BY <1>10, <2>2
    <3>2. TreeShape(u, mem[u], 1) /\ mem[u].top.gen = 1 /\ \A i \in 1..Width(u) : mem[u].leaf[i].gen = 1
      BY <1>3
    <3>3. /\ n.kind = "node" /\ n.fsid = "own" /\ n.bytenr = b /\ n.owner = u
          /\ \/ \E j \in 1..Width(u) : IsLeafNode(n, mem[u], b, j)
             \/ IsTopNode(n, u, mem[u], b)
      BY <3>1, <3>2, NodeIs
    <3> HIDE DEF n
    <3>4. n.gen \in 0..Gen
      BY <1>3, <3>2, <3>3 DEF IsLeafNode, IsTopNode
    <3>5. CASE \E j \in 1..Width(u) : IsLeafNode(n, mem[u], b, j)
      <4>1. LeafShape(n)
        BY <3>2, <3>3, <3>5 DEF LeafShape, IsLeafNode, TreeShape
      <4> QED
        BY <3>3, <3>4, <4>1 DEF NodeShape, n
    <3>6. CASE IsTopNode(n, u, mem[u], b)
      <4>1. ASSUME NEW k \in 1..Width(u) PROVE Pointer(disk, Gen, u, k, n.items[k])
        <5>1. /\ n.items[k].val.at = mem[u].leaf[k].at /\ n.items[k].val.gen = mem[u].leaf[k].gen
              /\ n.items[k].key = mem[u].leaf[k].items[1].key
          BY <3>6 DEF IsTopNode
        <5>2. /\ mem[u].leaf[k].at \in Blocks /\ mem[u].leaf[k].gen \in 0..Gen
              /\ MayHold(u, k, mem[u].leaf[k].items)
          BY <1>3, <3>2 DEF TreeShape
        <5>3. u # ROOT_TREE => \E w \in DOMAIN Contents[u][k] : n.items[k].key = Contents[u][k][w][1].key
          BY <5>1, <5>2 DEF MayHold
        <5>4. Target(disk, u, k, n.items[k].val.at, n.items[k].val.gen)
          BY <1>12, <5>1
        <5> QED
          BY <5>1, <5>2, <5>3, <5>4 DEF Pointer
      <4>2. TopShape(disk, Gen, b, n)
        BY <3>2, <3>3, <3>6, <4>1, TopNodeShape
      <4> QED
        BY <3>3, <3>4, <4>2 DEF NodeShape, n
    <3> QED
      BY <3>3, <3>5, <3>6
  <2> QED
    BY <2>1, <2>2
<1>14. DiskOK
  <2>1. DOMAIN disk = {0} \cup UNION {Phys(b) : b \in all} /\ disk[0] = Garbage
    BY <1>6
  <2> QED
    BY <1>8, <1>9, <1>13, <2>1 DEF DiskOK
<1>15. MemOK
  BY <1>3, <1>12 DEF MemOK
<1> QED
  BY <1>4, <1>5, <1>14, <1>15 DEF StoreOK

-----------------------------------------------------------------------------
(* One pop of a walk.                                                      *)

(* What is read of a block of the trees, and of the chunk tree.            *)
LEMMA Reads ==
    ASSUME StoreOK, map \subseteq Chunks, NEW b \in Blocks, NEW exp, Fine(read_node(map, b, exp)),
           NEW n, n = read_node(map, b, exp).node
    PROVE  /\ NodeShape(disk, Gen, b, n)
           /\ validate_header(n, b, exp)
           /\ \E p \in Phys(b) : n = disk[p]
<1>1. DiskOK
  BY DEF StoreOK
<1>2. disk[0].kind # "node" /\ b \in Nat
  BY <1>1, StoreAssumption DEF DiskOK, Garbage
<1>3. PICK p \in Phys(b) : n = disk[p] /\ disk[p].kind = "node" /\ validate_header(disk[p], b, exp)
  BY <1>2, ReadsCopy
<1>4. disk[p] \notin BadKinds
  BY <1>3 DEF validate_header, BadKinds, Garbage, Eio, Foreign
<1> QED
  BY <1>1, <1>3, <1>4 DEF DiskOK

LEMMA ReadsChunk ==
    ASSUME StoreOK, map \subseteq Chunks, NEW exp, Fine(read_node(map, ChunkRoot, exp))
    PROVE  read_node(map, ChunkRoot, exp).node = ChunkNode
<1>1. DiskOK
  BY DEF StoreOK
<1>2. disk[0].kind # "node" /\ ChunkRoot \in Nat
  BY <1>1, ScanAssumption DEF DiskOK, Garbage
<1>3. PICK p \in Phys(ChunkRoot) : /\ read_node(map, ChunkRoot, exp).node = disk[p]
                                   /\ disk[p].kind = "node"
                                   /\ validate_header(disk[p], ChunkRoot, exp)
  BY <1>2, ReadsCopy
<1>4. disk[p] \notin BadKinds
  BY <1>3 DEF validate_header, BadKinds, Garbage, Eio, Foreign
<1> QED
  BY <1>1, <1>3, <1>4 DEF DiskOK

(* The first pop: the root of some tree, read unchecked. If it is an       *)
(* internal node, its leaves follow, those that can hold keys of the range.*)
RootPopped(b, n, q, lo, hi) ==
    /\ Top = Ref(b, DontCheck)
    /\ q \in Seq(Refs)
    /\ ~Fine(Got) \/ AtLeaf(Got) => q = <<>>
    /\ Fine(Got) => NodeShape(disk, Gen, b, n)
    /\ Fine(Got) /\ ~AtLeaf(Got) =>
         /\ TopShape(disk, Gen, b, n)
         /\ \E idx \in [DOMAIN q -> 1..Width(n.owner)] :
              /\ Under(disk, Gen, q, {b}, n.owner, idx)
              /\ \A x \in 1..Width(n.owner) : InRange(n.items, x, lo, hi) => x \in Range(idx)

LEMMA PopRoot ==
    ASSUME StoreOK, map \subseteq Chunks, NEW b \in Blocks, Starts(b), NEW lo, NEW hi, NEW q,
           q = Pop(queue, Got, lo, hi), NEW n, n = Got.node
    PROVE  RootPopped(b, n, q, lo, hi)
<1>1. queue = <<Ref(b, DontCheck)>>
  BY DEF Starts
<1>2. Top = Ref(b, DontCheck) /\ Front(queue) = <<>>
  BY <1>1 DEF Top, Last, Front
<1>3. Got = read_node(map, b, DontCheck)
  BY <1>2 DEF Got, Ref
<1>4. CASE ~Fine(Got) \/ AtLeaf(Got)
  <2>1. q = <<>>
    <3>1. q = <<>> \o <<>>
      BY <1>2, <1>4 DEF Pop
    <3> QED
      BY <3>1
  <2>2. q \in Seq(Refs)
    BY <2>1
  <2>3. Fine(Got) => NodeShape(disk, Gen, b, n)
    BY <1>3, Reads
  <2> QED
    BY <1>2, <1>4, <2>1, <2>2, <2>3 DEF RootPopped
<1>5. CASE Fine(Got) /\ ~AtLeaf(Got)
  <2>1. NodeShape(disk, Gen, b, n)
    BY <1>3, <1>5, Reads
  <2>2. TopShape(disk, Gen, b, n) /\ n.owner \in Trees
    BY <1>5, <2>1 DEF NodeShape, LeafShape, AtLeaf
  <2> DEFINE u == n.owner
             w == Width(u)
             kids == Children(n, lo, hi)
  <2>3. DOMAIN n.items = 1..w /\ w \in Nat /\ n.level = 1 /\ u \in Nat /\ u \in Trees
    BY <2>2, TreesAre DEF TopShape
  <2>4. PICK idx : /\ idx \in [DOMAIN kids -> 1..w]
                   /\ kids \in Seq(Range(Pointers(n)))
                   /\ \A k, l \in DOMAIN kids : k < l => idx[l] < idx[k]
                   /\ \A x \in 1..w : InRange(n.items, x, lo, hi) => \E k \in DOMAIN kids : idx[k] = x
                   /\ \A k \in DOMAIN kids : kids[k] = Pointers(n)[idx[k]]
    <3> HIDE DEF w
    <3>1. kids \in Seq(Range(Pointers(n))) /\ \E f : KeptAs(kids, n, w, lo, hi, f)
      BY <2>3, ChildrenOrder
    <3>2. PICK f : KeptAs(kids, n, w, lo, hi, f)
      BY <3>1
    <3> HIDE DEF kids
    <3> QED
      BY <3>1, <3>2 DEF KeptAs
  <2>5. ASSUME NEW i \in 1..w
        PROVE  /\ Pointers(n)[i] \in Refs
               /\ Pointers(n)[i].at = n.items[i].val.at
               /\ Pointers(n)[i].exp.gen = n.items[i].val.gen
               /\ Pointers(n)[i].exp.level = 0 /\ Pointers(n)[i].exp.owner = u
               /\ n.items[i].val.at \in Blocks /\ n.items[i].val.gen \in 0..Gen
               /\ Target(disk, u, i, n.items[i].val.at, n.items[i].val.gen)
               /\ n.items[i].val.at # b
    <3>1. /\ n.items[i].val.at \in Blocks /\ n.items[i].val.gen \in 0..Gen
          /\ Target(disk, u, i, n.items[i].val.at, n.items[i].val.gen)
          /\ n.items[i].val.at # b
      BY <2>2, <2>3 DEF TopShape, Pointer
    <3>2. Pointers(n)[i] = Ref(n.items[i].val.at,
                               [gen |-> n.items[i].val.gen, level |-> n.level - 1, owner |-> u])
      BY <2>3 DEF Pointers
    <3>3. n.level - 1 = 0 /\ n.items[i].val.gen \in Int
      BY <2>3, <3>1
    <3>4. Ref(n.items[i].val.at, [gen |-> n.items[i].val.gen, level |-> 0, owner |-> u]) \in Refs
      BY <2>3, <3>1, <3>3 DEF Refs, Ref
    <3>5. Pointers(n)[i] = Ref(n.items[i].val.at, [gen |-> n.items[i].val.gen, level |-> 0, owner |-> u])
      BY <3>2, <3>3
    <3>6. /\ Pointers(n)[i].at = n.items[i].val.at
          /\ Pointers(n)[i].exp.gen = n.items[i].val.gen
          /\ Pointers(n)[i].exp.level = 0 /\ Pointers(n)[i].exp.owner = u
      BY <3>5 DEF Ref
    <3> QED
      BY <3>1, <3>4, <3>5, <3>6
  <2>6. Range(Pointers(n)) \subseteq Refs
    <3>1. DOMAIN Pointers(n) = 1..w
      BY <2>3 DEF Pointers
    <3> QED
      BY <2>5, <3>1 DEF Range
  <2> HIDE DEF kids
  <2>7. q = kids /\ q \in Seq(Refs)
    <3>1. q = <<>> \o kids
      BY <1>2, <1>5 DEF Pop, kids
    <3>2. kids \in Seq(Refs)
      <4>1. Len(kids) \in Nat /\ kids \in [1..Len(kids) -> Range(Pointers(n))]
        BY <2>4
      <4>2. kids \in [1..Len(kids) -> Refs]
        BY <2>6, <4>1
      <4> QED
        BY <4>1, <4>2
    <3> QED
      BY <3>1, <3>2
  <2>8. \A k \in DOMAIN q : idx[k] \in 1..w /\ q[k] = Pointers(n)[idx[k]]
    BY <2>4, <2>7
  <2>9. Under(disk, Gen, q, {b}, u, idx)
    <3>1. ASSUME NEW k \in DOMAIN q, NEW l \in DOMAIN q, k < l
          PROVE  idx[l] < idx[k] /\ q[k].at # q[l].at
      <4>1. idx[l] < idx[k] /\ idx[k] \in 1..w /\ idx[l] \in 1..w
        BY <2>4, <2>7, <3>1
      <4>2. n.items[idx[k]].val.at # n.items[idx[l]].val.at
        BY <2>2, <2>3, <4>1 DEF TopShape
      <4>3. q[k].at = n.items[idx[k]].val.at /\ q[l].at = n.items[idx[l]].val.at
        BY <2>5, <2>8, <4>1
      <4> QED
        BY <4>1, <4>2, <4>3
    <3>2. idx \in [DOMAIN q -> 1..w]
      BY <2>4, <2>7
    <3>3. ASSUME NEW k \in DOMAIN q
          PROVE  /\ q[k].at \in Blocks \ {b} /\ q[k].exp.gen \in 0..Gen
                 /\ q[k].exp.level = 0 /\ q[k].exp.owner = u
                 /\ Target(disk, u, idx[k], q[k].at, q[k].exp.gen)
      BY <2>5, <2>8
    <3> QED
      BY <3>1, <3>2, <3>3 DEF Under
  <2>10. \A x \in 1..w : InRange(n.items, x, lo, hi) => x \in Range(idx)
    <3>1. DOMAIN idx = DOMAIN q
      BY <2>4, <2>7
    <3> QED
      BY <2>4, <2>7, <3>1 DEF Range
  <2> QED
    BY <1>2, <1>5, <2>1, <2>2, <2>4, <2>7, <2>9, <2>10 DEF RootPopped
<1> QED
  BY <1>4, <1>5

(* Any later pop: a leaf, and the one its pointer was for.                 *)
Without(idx, n) == [k \in 1..(n - 1) |-> idx[k]]
LeafPopped(u, idx, q, n) ==
    /\ Top.exp # DontCheck /\ Top.at \in Blocks
    /\ q \in Seq(Refs) /\ DOMAIN q = 1..(n - 1)
    /\ n \in Nat \ {0} /\ DOMAIN queue = 1..n /\ idx \in [1..n -> 1..Width(u)]
    /\ Under(disk, Gen, q, seen \cup {Top.at}, u, Without(idx, n))
    /\ Fine(Got) => /\ AtLeaf(Got) /\ Got.node.owner = u
                    /\ MayHold(u, idx[n], Got.node.items)

LEMMA PopLeaf ==
    ASSUME StoreOK, map \subseteq Chunks, queue \in Seq(Refs), queue # <<>>,
           NEW u \in Trees, NEW idx, Leaves(u, idx), NEW lo, NEW hi, NEW q,
           q = Pop(queue, Got, lo, hi), NEW n, n = Len(queue)
    PROVE  LeafPopped(u, idx, q, n)
<1>1. n \in Nat \ {0} /\ DOMAIN queue = 1..n /\ \A k \in 1..n : queue[k] \in Refs
  <2>1. \A s \in Seq(Refs) : s # <<>> => /\ Len(s) \in Nat \ {0} /\ DOMAIN s = 1..Len(s)
                                        /\ \A k \in 1..Len(s) : s[k] \in Refs
    OBVIOUS
  <2> QED
    BY <2>1
<1>2. Top = queue[n] /\ n \in DOMAIN queue
  BY <1>1 DEF Top, Last
<1>3. /\ Top.at \in Blocks /\ Top.exp.gen \in 0..Gen /\ Top.exp.level = 0 /\ Top.exp.owner = u
      /\ Target(disk, u, idx[n], Top.at, Top.exp.gen)
  BY <1>2 DEF Leaves, Under
<1>4. Top.exp # DontCheck
  BY <1>3 DEF DontCheck
<1>5. Fine(Got) => /\ AtLeaf(Got) /\ Got.node.owner = u
                   /\ MayHold(u, idx[n], Got.node.items)
  <2> SUFFICES ASSUME Fine(Got)
               PROVE  AtLeaf(Got) /\ Got.node.owner = u /\ MayHold(u, idx[n], Got.node.items)
    OBVIOUS
  <2>1. Fine(read_node(map, Top.at, Top.exp)) /\ Got.node = read_node(map, Top.at, Top.exp).node
    BY DEF Got
  <2>2. /\ NodeShape(disk, Gen, Top.at, Got.node) /\ validate_header(Got.node, Top.at, Top.exp)
        /\ \E p \in Phys(Top.at) : Got.node = disk[p]
    BY <1>3, <2>1, Reads
  <2>3. Got.node.level = 0 /\ Got.node.owner = u /\ Got.node.gen = Top.exp.gen
    BY <1>3, <1>4, <2>2 DEF validate_header
  <2>4. Own(Got.node)
    BY <2>2 DEF NodeShape, Own
  <2> QED
    BY <1>3, <2>2, <2>3, <2>4 DEF AtLeaf, Target
<1>6. q = [k \in 1..(n - 1) |-> queue[k]] /\ q \in Seq(Refs) /\ DOMAIN q = 1..(n - 1)
  <2>1. Front(queue) = [k \in 1..(n - 1) |-> queue[k]] /\ Front(queue) \in Seq(Refs)
    BY <1>1 DEF Front
  <2>2. q = Front(queue) \o <<>>
    BY <1>5 DEF Pop
  <2>3. q = Front(queue)
    BY <2>1, <2>2
  <2> QED
    BY <1>1, <2>1, <2>3
<1>7. idx \in [1..n -> 1..Width(u)]
  BY <1>1 DEF Leaves, Under
<1>8. Under(disk, Gen, q, seen \cup {Top.at}, u, Without(idx, n))
  <2>1. \A k \in 1..(n - 1) : k \in 1..n /\ k < n /\ q[k] = queue[k] /\ Without(idx, n)[k] = idx[k]
    BY <1>1, <1>6 DEF Without
  <2>2. ASSUME NEW k \in 1..(n - 1) PROVE q[k].at \in Blocks \ (seen \cup {Top.at})
    <3>1. k \in DOMAIN queue /\ n \in DOMAIN queue /\ k < n
      BY <1>1, <2>1
    <3>2. queue[k].at \in Blocks \ seen /\ queue[k].at # queue[n].at
      BY <3>1 DEF Leaves, Under
    <3> QED
      BY <1>2, <2>1, <3>2
  <2>3. ASSUME NEW k \in 1..(n - 1)
        PROVE  /\ q[k].exp.gen \in 0..Gen /\ q[k].exp.level = 0 /\ q[k].exp.owner = u
               /\ Target(disk, u, Without(idx, n)[k], q[k].at, q[k].exp.gen)
               /\ \A l \in 1..(n - 1) : k < l => /\ Without(idx, n)[l] < Without(idx, n)[k]
                                                 /\ q[k].at # q[l].at
    <3>1. Without(idx, n)[k] = idx[k] /\ q[k] = queue[k] /\ k \in DOMAIN queue
      BY <1>1, <2>1
    <3>2. /\ q[k].exp.gen \in 0..Gen /\ q[k].exp.level = 0 /\ q[k].exp.owner = u
          /\ Target(disk, u, Without(idx, n)[k], q[k].at, q[k].exp.gen)
      BY <3>1 DEF Leaves, Under
    <3>3. ASSUME NEW l \in 1..(n - 1), k < l
          PROVE  Without(idx, n)[l] < Without(idx, n)[k] /\ q[k].at # q[l].at
      <4>1. Without(idx, n)[l] = idx[l] /\ q[l] = queue[l] /\ l \in DOMAIN queue
        BY <1>1, <2>1
      <4> QED
        BY <3>1, <3>3, <4>1 DEF Leaves, Under
    <3> QED
      BY <3>2, <3>3
  <2>4. Without(idx, n) \in [1..(n - 1) -> 1..Width(u)]
    BY <1>7, <2>1 DEF Without
  <2> QED
    BY <1>6, <2>2, <2>3, <2>4 DEF Under
<1> QED
  BY <1>1, <1>3, <1>4, <1>5, <1>6, <1>7, <1>8 DEF LeafPopped

-----------------------------------------------------------------------------
(* What else happens to the store, and to the queue meanwhile.             *)

LEMMA StoreKept == ASSUME StoreOK, UNCHANGED storeVars PROVE StoreOK' /\ Gen' = Gen /\ disk' = disk
  BY DEF StoreOK, DiskOK, MemOK, SupersOK, Gen, storeVars

LEMMA SuperWritten ==
    ASSUME StoreOK, FsWriteSuper
    PROVE  StoreOK' /\ Gen' = Gen /\ disk' = disk /\ UNCHANGED scanVars
<1>1. /\ supers' = [i \in DOMAIN supers |-> IF supers[i].kind = "eof" THEN supers[i] ELSE SuperOf(mem)]
      /\ disk' = disk /\ mem' = mem /\ budget' = budget /\ UNCHANGED scanVars
  BY DEF FsWriteSuper, WriteSuper
<1>2. MemOK /\ SupersOK /\ DiskOK /\ budget \in 0..Trouble
  BY DEF StoreOK
<1>3. SuperOf(mem).root \in Blocks
  BY <1>2, TreesAre DEF MemOK, TreeShape, SuperOf
<1>4. SupersOK'
  <2>1. DOMAIN supers = 1..3 /\ \A i \in 1..3 : supers[i].kind = "super" => supers[i].root \in Blocks
    BY <1>2 DEF SupersOK
  <2>2. \A i \in 1..3 : supers'[i] = supers[i] \/ supers'[i] = SuperOf(mem)
    BY <1>1, <2>1
  <2>3. DOMAIN supers' = 1..3
    BY <1>1, <2>1
  <2> QED
    BY <1>3, <2>1, <2>2, <2>3 DEF SupersOK
<1>5. Gen' = Gen /\ MemOK' /\ DiskOK'
  BY <1>1, <1>2 DEF MemOK, DiskOK, Gen
<1> QED
  BY <1>1, <1>2, <1>4, <1>5 DEF StoreOK

(* A walk's pointers lead where they led, whatever is written meanwhile.   *)
LEMMA UnderKept ==
    ASSUME StoreOK, NEW t \in DOMAIN Contents, NEW i \in DOMAIN Contents[t], FsWriteNodes(t, i),
           NEW u \in Trees, NEW idx, Leaves(u, idx)
    PROVE  Leaves(u, idx)'
<1>1. /\ Gen' = Gen + 1 /\ Gen \in Nat
      /\ \A w \in Trees : \A j : \A b \in Blocks, g \in 0..Gen :
                Target(disk, w, j, b, g) => Target(disk', w, j, b, g)
  BY Transaction
<1>2. queue' = queue /\ seen' = seen
  BY DEF FsWriteNodes, scanVars, walkVars
<1>3. Under(disk, Gen, queue, seen, u, idx)
  BY DEF Leaves
<1>4. 0..Gen \subseteq 0..Gen'
  BY <1>1
<1>5. \A k \in DOMAIN queue : /\ queue[k].at \in Blocks \ seen
                              /\ queue[k].exp.gen \in 0..Gen'
                              /\ Target(disk', u, idx[k], queue[k].at, queue[k].exp.gen)
  BY <1>1, <1>3, <1>4 DEF Under
<1>6. Under(disk', Gen', queue, seen, u, idx)
  BY <1>3, <1>5 DEF Under
<1> QED
  BY <1>2, <1>6 DEF Leaves

-----------------------------------------------------------------------------
(* Counting what is lost.                                                  *)

LEMMA GotIs == /\ Got.read_error \in BOOLEAN /\ Got.all_mirrors_failed \in BOOLEAN
               /\ Got.generation_mismatch \in BOOLEAN
  BY DEF Got, read_node

LEMMA CountedAtOpen ==
    ASSUME CountsOK, NEW t, CountAtOpen(Got), Note(Got, t, TRUE), UNCHANGED reported
    PROVE  CountsOK' /\ (Clean' => Clean /\ Fine(Got) /\ ~NotTheRoot(Got, t))
<1>1. Bumps(Got)["header"] = Got.all_mirrors_failed /\ Bumps(Got)["read"] = Got.read_error
  BY DEF Bumps, Counters
<1>2. /\ cnt \in [Counters -> Nat] /\ missed \in BOOLEAN
      /\ \A c \in Counters : IsFiniteSet(reported[c]) /\ Cardinality(reported[c]) <= cnt[c]
  BY DEF CountsOK
<1>3. \A c \in Counters : cnt'[c] = cnt[c] + (IF c # "stale" /\ Bumps(Got)[c] THEN 1 ELSE 0)
  BY DEF CountAtOpen
<1>4. cnt' \in [Counters -> Nat] /\ \A c \in Counters : cnt[c] <= cnt'[c]
  <2>1. \A c \in Counters : cnt[c] \in Nat /\ cnt'[c] \in Nat /\ cnt[c] <= cnt'[c]
    BY <1>2, <1>3
  <2> QED
    BY <2>1 DEF CountAtOpen
<1>5. missed' = (missed \/ NotTheRoot(Got, t) \/ (TRUE /\ Got.generation_mismatch))
  BY DEF Note
<1>6. missed' \in BOOLEAN /\ (~missed' => ~missed /\ ~NotTheRoot(Got, t) /\ ~Got.generation_mismatch)
  BY <1>2, <1>5, GotIs DEF NotTheRoot
<1>7. CountsOK'
  <2>1. \A c \in Counters : IsFiniteSet(reported[c]) /\ Cardinality(reported[c]) <= cnt'[c]
    <3> SUFFICES ASSUME NEW c \in Counters PROVE Cardinality(reported[c]) <= cnt'[c]
      BY <1>2
    <3>1. Cardinality(reported[c]) \in Nat /\ Cardinality(reported[c]) <= cnt[c] /\ cnt[c] <= cnt'[c]
      BY <1>2, <1>4, FS_CardinalityType
    <3> QED
      BY <1>2, <1>4, <3>1
  <2> QED
    BY <1>4, <1>6, <2>1 DEF CountsOK
<1>8. ASSUME Clean' PROVE Clean /\ Fine(Got) /\ ~NotTheRoot(Got, t)
  <2>1. ~missed' /\ cnt'["header"] = 0 /\ cnt'["read"] = 0 /\ cnt'["stale"] = 0
    BY <1>8 DEF Clean
  <2>2. "header" \in Counters /\ "read" \in Counters /\ "stale" \in Counters
    BY DEF Counters
  <2>3. cnt["header"] = 0 /\ cnt["read"] = 0 /\ cnt["stale"] = 0
    BY <1>2, <1>4, <2>1, <2>2
  <2>4. ~Bumps(Got)["header"] /\ ~Bumps(Got)["read"]
    BY <1>3, <2>1, <2>2, <2>3
  <2> QED
    BY <1>1, <1>6, <2>1, <2>3, <2>4 DEF Clean, Fine
<1> QED
  BY <1>7, <1>8

LEMMA CountedOnce ==
    ASSUME CountsOK, NEW t, CountOnce(Got), Note(Got, t, FALSE)
    PROVE  CountsOK' /\ (Clean' => Clean /\ Fine(Got) /\ ~NotTheRoot(Got, t))
<1> DEFINE new == [c \in Counters |-> IF Bumps(Got)[c] THEN {Top.at} \ reported[c] ELSE {}]
<1>1. /\ Bumps(Got)["header"] = Got.all_mirrors_failed /\ Bumps(Got)["read"] = Got.read_error
      /\ Bumps(Got)["stale"] = Got.generation_mismatch
  BY DEF Bumps, Counters
<1>2. /\ cnt \in [Counters -> Nat] /\ missed \in BOOLEAN
      /\ \A c \in Counters : IsFiniteSet(reported[c]) /\ Cardinality(reported[c]) <= cnt[c]
  BY DEF CountsOK
<1>3. /\ cnt' = [c \in Counters |-> cnt[c] + Cardinality(new[c])]
      /\ reported' = [c \in Counters |-> reported[c] \cup new[c]]
  BY DEF CountOnce
<1>4. ASSUME NEW c \in Counters
      PROVE  /\ IsFiniteSet(new[c]) /\ Cardinality(new[c]) \in Nat
             /\ Cardinality(new[c]) = 0 => new[c] = {}
             /\ cnt[c] \in Nat /\ cnt'[c] = cnt[c] + Cardinality(new[c])
             /\ reported'[c] = reported[c] \cup new[c]
             /\ Cardinality(reported[c] \cup new[c]) = Cardinality(reported[c]) + Cardinality(new[c])
             /\ IsFiniteSet(reported[c] \cup new[c])
             /\ Cardinality(reported[c]) \in Nat /\ Cardinality(reported[c]) <= cnt[c]
             /\ Cardinality(reported[c]) = 0 => reported[c] = {}
  <2>1. new[c] \subseteq {Top.at} /\ new[c] \cap reported[c] = {}
    OBVIOUS
  <2>2. IsFiniteSet(new[c])
    BY <2>1, FS_Singleton, FS_Subset
  <2> HIDE DEF new
  <2>3. /\ Cardinality(new[c]) \in Nat
        /\ Cardinality(new[c]) = 0 => new[c] = {}
        /\ Cardinality(reported[c]) \in Nat
        /\ Cardinality(reported[c]) = 0 => reported[c] = {}
    BY <1>2, <2>2, FS_CardinalityType, FS_EmptySet
  <2>4. /\ Cardinality(reported[c] \cup new[c]) = Cardinality(reported[c]) + Cardinality(new[c])
        /\ IsFiniteSet(reported[c] \cup new[c])
    <3>1. reported[c] \cap new[c] = {}
      BY <2>1
    <3>2. Cardinality(reported[c] \cap new[c]) = 0
      BY <3>1, FS_EmptySet
    <3>3. /\ IsFiniteSet(reported[c] \cup new[c])
          /\ Cardinality(reported[c] \cup new[c]) =
               Cardinality(reported[c]) + Cardinality(new[c]) - Cardinality(reported[c] \cap new[c])
      BY <1>2, <2>2, FS_Union
    <3> QED
      BY <2>3, <3>2, <3>3
  <2>5. cnt[c] \in Nat /\ Cardinality(reported[c]) <= cnt[c]
    BY <1>2
  <2>6. cnt'[c] = cnt[c] + Cardinality(new[c]) /\ reported'[c] = reported[c] \cup new[c]
    BY <1>3
  <2> QED
    BY <2>2, <2>3, <2>4, <2>5, <2>6
<1>5. missed' = (missed \/ NotTheRoot(Got, t) \/ (FALSE /\ Got.generation_mismatch))
  BY DEF Note
<1>6. missed' \in BOOLEAN /\ (~missed' => ~missed /\ ~NotTheRoot(Got, t))
  BY <1>2, <1>5 DEF NotTheRoot
<1> HIDE DEF new
<1>7. CountsOK'
  <2>1. \A c \in Counters : /\ cnt'[c] \in Nat /\ IsFiniteSet(reported'[c])
                            /\ Cardinality(reported'[c]) <= cnt'[c]
    <3> SUFFICES ASSUME NEW c \in Counters
                 PROVE  /\ cnt'[c] \in Nat /\ IsFiniteSet(reported'[c])
                        /\ Cardinality(reported'[c]) <= cnt'[c]
      OBVIOUS
    <3>1. /\ Cardinality(reported'[c]) = Cardinality(reported[c]) + Cardinality(new[c])
          /\ IsFiniteSet(reported'[c])
      BY <1>4
    <3>2. cnt[c] \in Nat /\ cnt'[c] = cnt[c] + Cardinality(new[c]) /\ Cardinality(new[c]) \in Nat
      BY <1>4
    <3>3. Cardinality(reported[c]) \in Nat /\ Cardinality(reported[c]) <= cnt[c]
      BY <1>4
    <3> QED
      BY <3>1, <3>2, <3>3
  <2> QED
    BY <1>3, <1>6, <2>1 DEF CountsOK
<1>8. ASSUME Clean' PROVE Clean /\ Fine(Got) /\ ~NotTheRoot(Got, t)
  <2>1. ~missed' /\ cnt'["header"] = 0 /\ cnt'["read"] = 0 /\ cnt'["stale"] = 0
    BY <1>8 DEF Clean
  <2>2. ASSUME NEW c \in Counters, cnt'[c] = 0 PROVE cnt[c] = 0 /\ ~Bumps(Got)[c]
    <3>1. cnt[c] = 0 /\ Cardinality(new[c]) = 0 /\ Cardinality(reported[c]) = 0
      <4>1. cnt[c] \in Nat /\ cnt'[c] = cnt[c] + Cardinality(new[c]) /\ Cardinality(new[c]) \in Nat
        BY <1>4
      <4>2. Cardinality(reported[c]) \in Nat /\ Cardinality(reported[c]) <= cnt[c]
        BY <1>4
      <4> QED
        BY <2>2, <4>1, <4>2
    <3>2. new[c] = {} /\ reported[c] = {}
      BY <1>4, <3>1
    <3> QED
      BY <3>1, <3>2 DEF new
  <2>3. "header" \in Counters /\ "read" \in Counters /\ "stale" \in Counters
    BY DEF Counters
  <2> QED
    BY <1>1, <1>6, <2>1, <2>2, <2>3 DEF Clean, Fine
<1> QED
  BY <1>7, <1>8

-----------------------------------------------------------------------------
(* What a leaf holds, and what the walks take from it.                     *)

LEMMA PickNone == ASSUME NEW s PROVE Pick(s, {}) = <<>>
<1>1. Cardinality({}) = 0
  BY FS_EmptySet
<1>2. DOMAIN Ascending({}) = 1..0
  BY <1>1 DEF Ascending
<1> QED
  BY <1>2 DEF Pick

(* The items of a leaf, of the root tree and of the others.                *)
LEMMA RootLeafItems ==
    ASSUME NEW i, NEW its, MayHold(ROOT_TREE, i, its), NEW x \in DOMAIN its
    PROVE  /\ its[x].key[2] = ROOT_ITEM
           /\ its[x].val \in Blocks \cup {0}
           /\ its[x].key[1] \in DOMAIN Contents => its[x].val \in Blocks
  BY DEF MayHold

LEMMA LeafItems ==
    ASSUME NEW u \in DOMAIN Contents, NEW i \in 1..Width(u), NEW its, MayHold(u, i, its)
    PROVE  /\ IsSequence(its)
           /\ \A x \in DOMAIN its : IsItem(u, its[x])
           /\ \A x, y \in DOMAIN its : x < y => Follows(u, its[y], its[x])
<1>1. u # ROOT_TREE /\ i \in DOMAIN Contents[u]
  BY TreesAre
<1>2. PICK v \in DOMAIN Contents[u][i] : its = Contents[u][i][v]
  BY <1>1 DEF MayHold
<1> QED
  BY <1>1, <1>2, OrderAssumption

LEMMA NoItems ==
    ASSUME NEW got, NEW type,
           AtLeaf(got) => \A x \in DOMAIN got.node.items : got.node.items[x].key[2] # type
    PROVE  ItemSeq(got, type) = <<>>
<1>1. CASE ~AtLeaf(got)
  BY <1>1 DEF ItemSeq
<1>2. CASE AtLeaf(got)
  <2>1. {x \in DOMAIN got.node.items : got.node.items[x].key[2] = type} = {}
    BY <1>2
  <2>2. ItemSeq(got, type) = Pick(got.node.items, {})
    BY <1>2, <2>1 DEF ItemSeq
  <2> QED
    BY <2>2, PickNone
<1> QED
  BY <1>1, <1>2

LEMMA ItemSeqIs ==
    ASSUME NEW got, NEW type, AtLeaf(got), IsSequence(got.node.items)
    PROVE  \E n, f : Taken(ItemSeq(got, type), got.node.items,
                          {i \in DOMAIN got.node.items : got.node.items[i].key[2] = type}, n, f)
<1> DEFINE its == got.node.items
           of  == {i \in DOMAIN its : its[i].key[2] = type}
<1>1. ItemSeq(got, type) = Pick(its, of)
  BY DEF ItemSeq
<1>2. of \in SUBSET DOMAIN its /\ IsSequence(its)
  OBVIOUS
<1> HIDE DEF of, its
<1>3. \E n, f : Taken(Pick(its, of), its, of, n, f)
  BY <1>2, PickIs
<1> QED
  BY <1>1, <1>3 DEF of, its

(* What a checksum item is made of.                                        *)
LEMMA CsumItem ==
    ASSUME NEW it, IsItem(CSUM_TREE, it)
    PROVE  /\ it.key[1] = EXTENT_CSUM_OBJECTID /\ it.key[2] = EXTENT_CSUM
           /\ it.key[3] \in Nat /\ it.val \in Nat
<1>1. it.key \in (0..EXTENT_CSUM_OBJECTID) \X Nat \X Nat
  BY DEF IsItem
<1>2. it.key[3] \in Nat
  BY <1>1
<1>3. it.key[1] = EXTENT_CSUM_OBJECTID /\ it.key[2] = EXTENT_CSUM /\ it.val \in 0..MaxItemSpan
  BY DEF IsItem
<1>4. it.val \in Nat
  BY <1>3, ScanAssumption
<1> QED
  BY <1>2, <1>3, <1>4

LEMMA KeysOfOneKind ==
    ASSUME NEW a, NEW b, a[1] \in Int, a[2] \in Int, a[1] = b[1], a[2] = b[2], KeyLess(a, b)
    PROVE  a[3] < b[3]
  BY DEF KeyLess

-----------------------------------------------------------------------------
(* The device tree's leaves.                                               *)

LEMMA InPlaceConcat ==
    ASSUME NEW a, InPlace(a), NEW b, InPlace(b), \A x \in Range(a), y \in Range(b) : x.phys < y.phys
    PROVE  InPlace(a \o b) /\ Range(a \o b) = Range(a) \cup Range(b)
<1> DEFINE c == a \o b
<1>1. /\ a \in Seq(Extent) /\ b \in Seq(Extent) /\ c \in Seq(Extent)
      /\ Len(a) \in Nat /\ Len(b) \in Nat /\ Len(c) = Len(a) + Len(b)
      /\ DOMAIN a = 1..Len(a) /\ DOMAIN b = 1..Len(b) /\ DOMAIN c = 1..Len(c)
  BY DEF InPlace
<1>2. \A j \in 1..Len(a) : c[j] = a[j]
  BY <1>1
<1>3. \A j \in 1..Len(b) : c[Len(a) + j] = b[j]
  BY <1>1
<1>4. \A j \in 1..Len(c) : \/ j \in 1..Len(a) /\ c[j] = a[j]
                           \/ j - Len(a) \in 1..Len(b) /\ c[j] = b[j - Len(a)]
  <2> SUFFICES ASSUME NEW j \in 1..Len(c), j \notin 1..Len(a)
               PROVE  j - Len(a) \in 1..Len(b) /\ c[j] = b[j - Len(a)]
    BY <1>2
  <2>1. j - Len(a) \in 1..Len(b) /\ Len(a) + (j - Len(a)) = j
    BY <1>1
  <2> QED
    BY <1>3, <2>1
<1> HIDE DEF c
<1>5. ASSUME NEW j \in 1..Len(c), NEW k \in 1..Len(c), j < k PROVE c[j].phys < c[k].phys
  <2>1. CASE k \in 1..Len(a)
    <3>1. j \in 1..Len(a)
      BY <1>1, <1>5, <2>1
    <3> QED
      BY <1>1, <1>2, <1>5, <2>1, <3>1 DEF InPlace
  <2>2. CASE j \in 1..Len(a) /\ k - Len(a) \in 1..Len(b) /\ c[k] = b[k - Len(a)]
    <3>1. c[j] \in Range(a) /\ c[k] \in Range(b)
      BY <1>1, <1>2, <2>2 DEF Range
    <3> QED
      BY <3>1
  <2>3. CASE j \notin 1..Len(a) /\ k - Len(a) \in 1..Len(b) /\ c[k] = b[k - Len(a)]
    <3>1. j - Len(a) \in 1..Len(b) /\ c[j] = b[j - Len(a)] /\ j - Len(a) < k - Len(a)
      <4>1. j \in 1..Len(c) /\ j \notin 1..Len(a) /\ k \in Int
        BY <1>5, <2>3
      <4>2. j - Len(a) \in 1..Len(b) /\ c[j] = b[j - Len(a)]
        BY <1>4, <4>1
      <4> QED
        BY <1>1, <1>5, <4>1, <4>2
    <3> QED
      BY <1>1, <2>3, <3>1 DEF InPlace
  <2> QED
    BY <1>4, <2>1, <2>2, <2>3
<1>6. InPlace(c)
  BY <1>1, <1>5 DEF InPlace
<1>7. Range(c) \subseteq Range(a) \cup Range(b)
  BY <1>1, <1>4 DEF Range
<1>8. Range(a) \subseteq Range(c)
  BY <1>1, <1>2 DEF Range
<1>9. Range(b) \subseteq Range(c)
  <2> SUFFICES ASSUME NEW j \in 1..Len(b) PROVE b[j] \in Range(c)
    BY <1>1 DEF Range
  <2>1. Len(a) + j \in 1..Len(c)
    BY <1>1
  <2> QED
    BY <1>1, <1>3, <2>1 DEF Range
<1> QED
  BY <1>6, <1>7, <1>8, <1>9 DEF c

LEMMA DevExtentsNone ==
    ASSUME NEW got, ItemSeq(got, DEV_EXTENT_KEY) = <<>> PROVE DevExtents(got) = <<>>
<1>1. Pick(<<>>, {i \in DOMAIN <<>> : <<>>[i].key[1] = Devid}) = <<>>
  <2>1. {i \in DOMAIN <<>> : <<>>[i].key[1] = Devid} = {}
    OBVIOUS
  <2> QED
    BY <2>1, PickNone
<1> QED
  BY <1>1 DEF DevExtents

(* A leaf of the device tree gives its extents, any other leaf none.       *)
LEMMA DevLeaf ==
    ASSUME NEW got, AtLeaf(got), NEW u \in Trees, NEW i \in 1..Width(u), NEW its,
           its = got.node.items, MayHold(u, i, its)
    PROVE  /\ InPlace(DevExtents(got))
           /\ u # DEV_TREE => DevExtents(got) = <<>>
           /\ u = DEV_TREE => Range(DevExtents(got)) = ExtentsOf(its)
<1> DEFINE all == ItemSeq(got, DEV_EXTENT_KEY)
           at1 == {x \in DOMAIN its : its[x].key[2] = DEV_EXTENT_KEY}
           at2 == {x \in DOMAIN all : all[x].key[1] = Devid}
           mine == Pick(all, at2)
           new == DevExtents(got)
<1>1. CASE u # DEV_TREE
  <2>1. \A x \in DOMAIN its : its[x].key[2] # DEV_EXTENT_KEY
    <3>1. CASE u = ROOT_TREE
      BY <3>1, RootLeafItems DEF ROOT_ITEM, DEV_EXTENT_KEY
    <3>2. CASE u \in DOMAIN Contents
      BY <1>1, <3>2, LeafItems DEF IsItem
    <3> QED
      BY <3>1, <3>2 DEF Trees
  <2>2. new = <<>>
    BY <2>1, NoItems, DevExtentsNone
  <2> QED
    BY <1>1, <2>2 DEF InPlace
<1>2. CASE u = DEV_TREE
  <2>1. u \in DOMAIN Contents
    BY <1>2, TreesAre
  <2>2. /\ IsSequence(its)
        /\ \A x \in DOMAIN its : IsItem(u, its[x])
        /\ \A x, y \in DOMAIN its : x < y => Follows(u, its[y], its[x])
    BY <2>1, LeafItems
  <2>3. PICK n, f : Taken(all, its, at1, n, f)
    BY <2>2, ItemSeqIs
  <2>4. new = [k \in DOMAIN mine |-> [phys |-> mine[k].key[3], chunk |-> mine[k].val.chunk,
                                      len |-> mine[k].val.len]]
    BY DEF DevExtents
  <2>5. at2 \in SUBSET DOMAIN all /\ \A x \in DOMAIN all : all[x].key[1] = Devid <=> x \in at2
    OBVIOUS
  <2>6. at1 \subseteq DOMAIN its /\ \A x \in DOMAIN its : its[x].key[2] = DEV_EXTENT_KEY <=> x \in at1
    OBVIOUS
  <2> HIDE DEF all, at1, at2, new
  <2>7. /\ n \in Nat /\ f \in [1..n -> at1] /\ all = [k \in 1..n |-> its[f[k]]]
        /\ \A k, l \in 1..n : k < l => f[k] < f[l]
        /\ \A x \in at1 : \E k \in 1..n : f[k] = x
    BY <2>3 DEF Taken
  <2>8. IsSequence(all) /\ DOMAIN all = 1..n
    BY <2>7 DEF IsSequence
  <2>9. PICK m, g : Taken(mine, all, at2, m, g)
    BY <2>5, <2>8, PickIs
  <2> HIDE DEF mine
  <2>10. /\ m \in Nat /\ g \in [1..m -> at2] /\ mine = [k \in 1..m |-> all[g[k]]]
         /\ \A k, l \in 1..m : k < l => g[k] < g[l]
         /\ \A x \in at2 : \E k \in 1..m : g[k] = x
    BY <2>9 DEF Taken
  <2> DEFINE h(k) == f[g[k]]
  <2>11. \A k \in 1..m : g[k] \in 1..n /\ h(k) \in at1 /\ mine[k] = its[h(k)]
    BY <2>5, <2>7, <2>8, <2>10
  <2>12. ASSUME NEW k \in 1..m
         PROVE  /\ h(k) \in DOMAIN its /\ IsItem(DEV_TREE, its[h(k)])
                /\ its[h(k)].key[2] = DEV_EXTENT_KEY /\ its[h(k)].key[1] = Devid
    <3>1. h(k) \in DOMAIN its /\ its[h(k)].key[2] = DEV_EXTENT_KEY
      BY <2>6, <2>11
    <3>2. g[k] \in at2 /\ g[k] \in DOMAIN all /\ all[g[k]] = its[h(k)]
      BY <2>7, <2>8, <2>10, <2>11
    <3> QED
      BY <1>2, <2>2, <2>5, <3>1, <3>2
  <2> DEFINE e(it) == [phys |-> it.key[3], chunk |-> it.val.chunk, len |-> it.val.len]
  <2>13. new = [k \in 1..m |-> e(its[h(k)])]
    BY <2>4, <2>10, <2>11
  <2>14. \A k \in 1..m : e(its[h(k)]) \in Extent
    BY <2>12 DEF IsItem, Extent
  <2>15. new \in Seq(Extent) /\ DOMAIN new = 1..m
    <3> HIDE DEF e, h
    <3>1. new \in [1..m -> Extent]
      BY <2>13, <2>14
    <3>2. m \in Nat
      BY <2>10
    <3> QED
      BY <3>1, <3>2
  <2>16. ASSUME NEW k \in 1..m, NEW l \in 1..m, k < l PROVE new[k].phys < new[l].phys
    <3>1. h(k) < h(l)
      BY <2>7, <2>10, <2>11, <2>16
    <3>2. Follows(DEV_TREE, its[h(l)], its[h(k)])
      BY <1>2, <2>2, <2>12, <3>1
    <3>3. its[h(k)].key[3] < its[h(l)].key[3]
      <4>1. KeyLess(its[h(k)].key, its[h(l)].key)
        BY <3>2 DEF Follows
      <4>2. its[h(k)].key[1] = Devid /\ its[h(k)].key[2] = DEV_EXTENT_KEY
        BY <2>12
      <4>3. its[h(l)].key[1] = Devid /\ its[h(l)].key[2] = DEV_EXTENT_KEY
        BY <2>12
      <4> HIDE DEF h
      <4> QED
        BY <4>1, <4>2, <4>3, KeysOfOneKind DEF DEV_EXTENT_KEY, Devid
    <3>4. new[k].phys = its[h(k)].key[3] /\ new[l].phys = its[h(l)].key[3]
      BY <2>13
    <3> QED
      BY <3>3, <3>4
  <2>17. Range(new) \subseteq ExtentsOf(its)
    <3> SUFFICES ASSUME NEW k \in 1..m PROVE new[k] \in ExtentsOf(its)
      BY <2>15 DEF Range
    <3>1. its[h(k)] \in {x \in Range(its) : x.key[1] = Devid /\ x.key[2] = DEV_EXTENT_KEY}
      BY <2>12 DEF Range
    <3>2. new[k] = e(its[h(k)])
      BY <2>13
    <3> QED
      BY <3>1, <3>2 DEF ExtentsOf
  <2>18. ExtentsOf(its) \subseteq Range(new)
    <3> SUFFICES ASSUME NEW x \in DOMAIN its, its[x].key[1] = Devid, its[x].key[2] = DEV_EXTENT_KEY
                 PROVE  e(its[x]) \in Range(new)
      BY DEF ExtentsOf, Range
    <3>1. x \in at1
      BY <2>6
    <3>2. PICK k \in 1..n : f[k] = x
      BY <2>7, <3>1
    <3>3. k \in at2
      BY <2>5, <2>7, <2>8, <3>2
    <3>4. PICK l \in 1..m : g[l] = k
      BY <2>10, <3>3
    <3>5. new[l] = e(its[x])
      BY <2>13, <3>2, <3>4
    <3> QED
      BY <2>15, <3>5 DEF Range
  <2> QED
    BY <1>2, <2>15, <2>16, <2>17, <2>18 DEF InPlace, new
<1> QED
  BY <1>1, <1>2

-----------------------------------------------------------------------------
(* The checksum tree's leaves.                                             *)

Covers(it, s) == it.key[3] <= s /\ s < it.key[3] + it.val
Span(it) == [k \in 1..it.val |-> it.key[3] + k - 1]

LEMMA SpanIs ==
    ASSUME NEW it, it.key[3] \in Nat, it.val \in Nat
    PROVE  Rising(Span(it)) /\ \A s : s \in Range(Span(it)) <=> s \in Nat /\ Covers(it, s)
<1>1. Span(it) \in Seq(Nat) /\ DOMAIN Span(it) = 1..it.val
  <2>1. Span(it) \in [1..it.val -> Nat]
    BY DEF Span
  <2> QED
    BY <2>1
<1>2. \A k \in 1..it.val : Span(it)[k] = it.key[3] + k - 1
  BY DEF Span
<1>3. Rising(Span(it))
  BY <1>1, <1>2 DEF Rising
<1>4. ASSUME NEW s \in Range(Span(it)) PROVE s \in Nat /\ Covers(it, s)
  <2>1. PICK k \in 1..it.val : s = it.key[3] + k - 1
    BY <1>1, <1>2 DEF Range
  <2> QED
    BY <2>1 DEF Covers
<1>5. ASSUME NEW s \in Nat, Covers(it, s) PROVE s \in Range(Span(it))
  <2>1. s - it.key[3] + 1 \in 1..it.val /\ it.key[3] + (s - it.key[3] + 1) - 1 = s
    BY <1>5 DEF Covers
  <2>2. Span(it)[s - it.key[3] + 1] = s
    BY <1>2, <2>1
  <2> QED
    BY <1>1, <2>1, <2>2 DEF Range
<1> QED
  BY <1>3, <1>4, <1>5

(* Picking from a sequence that rises.                                     *)
LEMMA PickRising ==
    ASSUME NEW s, Rising(s), NEW at \in SUBSET DOMAIN s
    PROVE  Rising(Pick(s, at)) /\ \A x : x \in Range(Pick(s, at)) <=> \E k \in at : s[k] = x
<1>1. IsSequence(s) /\ s \in Seq(Nat) /\ DOMAIN s \subseteq Int /\ \A k \in DOMAIN s : s[k] \in Nat
  BY DEF Rising, IsSequence
<1>2. PICK n, f : Taken(Pick(s, at), s, at, n, f)
  BY <1>1, PickIs
<1> DEFINE new == Pick(s, at)
<1> HIDE DEF new
<1>3. /\ n \in Nat /\ f \in [1..n -> at] /\ new = [k \in 1..n |-> s[f[k]]]
      /\ \A k, l \in 1..n : k < l => f[k] < f[l]
      /\ \A x \in at : \E k \in 1..n : f[k] = x
  BY <1>2 DEF Taken, new
<1>4. \A k \in 1..n : f[k] \in DOMAIN s /\ new[k] = s[f[k]] /\ new[k] \in Nat
  BY <1>1, <1>3
<1>5. new \in Seq(Nat) /\ DOMAIN new = 1..n
  <2>1. new \in [1..n -> Nat]
    BY <1>3, <1>4
  <2> QED
    BY <1>3, <2>1
<1>6. \A k, l \in 1..n : k < l => new[k] < new[l]
  BY <1>3, <1>4 DEF Rising
<1>7. \A x : x \in Range(new) <=> \E k \in at : s[k] = x
  <2>1. ASSUME NEW x \in Range(new) PROVE \E k \in at : s[k] = x
    <3>1. PICK k \in 1..n : new[k] = x
      BY <1>5 DEF Range
    <3> QED
      BY <1>3, <1>4, <3>1
  <2>2. ASSUME NEW x, NEW k \in at, s[k] = x PROVE x \in Range(new)
    <3>1. PICK l \in 1..n : f[l] = k
      BY <1>3
    <3>2. new[l] = x
      BY <1>4, <2>2, <3>1
    <3> QED
      BY <1>5, <3>2 DEF Range
  <2> QED
    BY <2>1, <2>2
<1> QED
  BY <1>5, <1>6, <1>7 DEF Rising, new

(* What lies in the extent of what the items cover.                        *)
AreCsums(all, n) ==
    /\ n \in Nat
    /\ all = [k \in 1..n |-> all[k]]
    /\ \A k \in 1..n : all[k].key[3] \in Nat /\ all[k].val \in Nat
    /\ \A k, l \in 1..n : k < l => all[k].key[3] + all[k].val <= all[l].key[3]

LEMMA SectorsOf ==
    ASSUME NEW got, NEW e, e.chunk \in Nat, e.len \in Nat, NEW n, NEW all,
           all = ItemSeq(got, EXTENT_CSUM), AreCsums(all, n)
    PROVE  /\ Rising(SectorsIn(got, e))
           /\ \A s : s \in Range(SectorsIn(got, e)) <=>
                       /\ s \in Nat /\ e.chunk <= s /\ s < e.chunk + e.len
                       /\ \E k \in 1..n : Covers(all[k], s)
<1> DEFINE spans == [k \in DOMAIN all |-> Span(all[k])]
           flat  == FlattenSeq(spans)
           at    == {k \in DOMAIN flat : e.chunk <= flat[k] /\ flat[k] < e.chunk + e.len}
<1>1. SectorsIn(got, e) = Pick(flat, at)
  BY DEF SectorsIn, Span
<1>2. DOMAIN all = 1..n /\ n \in Nat
  BY DEF AreCsums
<1>3. spans = [k \in 1..n |-> spans[k]] /\ \A k \in 1..n : spans[k] = Span(all[k])
  BY <1>2
<1>4. at \in SUBSET DOMAIN flat
  OBVIOUS
<1>5. \A k \in DOMAIN flat : k \in at <=> e.chunk <= flat[k] /\ flat[k] < e.chunk + e.len
  OBVIOUS
<1> HIDE DEF spans, flat, at
<1>6. \A k \in 1..n : /\ Rising(spans[k])
                      /\ \A s : s \in Range(spans[k]) <=> s \in Nat /\ Covers(all[k], s)
  BY <1>3, SpanIs DEF AreCsums
<1>7. ASSUME NEW k \in 1..n, NEW l \in 1..n, k < l, NEW x \in Range(spans[k]), NEW y \in Range(spans[l])
      PROVE  x < y
  <2>1. x \in Nat /\ y \in Nat /\ Covers(all[k], x) /\ Covers(all[l], y)
    BY <1>6
  <2>2. x < all[k].key[3] + all[k].val /\ all[l].key[3] <= y
    BY <2>1 DEF Covers
  <2>3. all[k].key[3] + all[k].val <= all[l].key[3]
    BY <1>7 DEF AreCsums
  <2>4. all[k].key[3] \in Nat /\ all[k].val \in Nat /\ all[l].key[3] \in Nat
    BY DEF AreCsums
  <2> QED
    BY <2>1, <2>2, <2>3, <2>4
<1>8. /\ Rising(flat)
      /\ \A x : x \in Range(flat) <=> \E k \in 1..n : x \in Range(spans[k])
  BY <1>2, <1>3, <1>6, <1>7, FlattenRising DEF flat
<1>9. /\ Rising(Pick(flat, at))
      /\ \A x : x \in Range(Pick(flat, at)) <=> \E k \in at : flat[k] = x
  BY <1>4, <1>8, PickRising
<1>10. \A x : x \in Range(Pick(flat, at)) <=> /\ x \in Range(flat)
                                              /\ e.chunk <= x /\ x < e.chunk + e.len
  BY <1>4, <1>5, <1>9 DEF Range
<1> QED
  BY <1>1, <1>6, <1>8, <1>9, <1>10

LEMMA SectorsNone ==
    ASSUME NEW got, NEW e, ItemSeq(got, EXTENT_CSUM) = <<>> PROVE SectorsIn(got, e) = <<>>
<1> DEFINE spans == [k \in DOMAIN <<>> |-> Span(<<>>[k])]
           flat  == FlattenSeq(spans)
<1>1. spans = <<>>
  OBVIOUS
<1>2. SectorsIn(got, e) = Pick(flat, {k \in DOMAIN flat : e.chunk <= flat[k] /\ flat[k] < e.chunk + e.len})
  BY DEF SectorsIn, Span
<1> HIDE DEF spans
<1>3. flat = <<>>
  BY <1>1 DEF FlattenSeq
<1> HIDE DEF flat
<1>4. DOMAIN flat = {}
  BY <1>3
<1>5. {k \in DOMAIN flat : e.chunk <= flat[k] /\ flat[k] < e.chunk + e.len} = {}
  BY <1>4
<1> QED
  BY <1>2, <1>5, PickNone

(* A leaf of the checksum tree gives the sectors of the extent that its    *)
(* items cover, any other leaf none.                                       *)
SectorsFor(more, its, e) ==
    \A s : s \in Range(more) <=> /\ s \in Nat /\ e.chunk <= s /\ s < e.chunk + e.len
                                 /\ \E x \in DOMAIN its : Covers(its[x], s)

LEMMA CsumLeaf ==
    ASSUME NEW got, AtLeaf(got), NEW u \in Trees, NEW i \in 1..Width(u), NEW its,
           its = got.node.items, MayHold(u, i, its), NEW e \in Extent
    PROVE  /\ Rising(SectorsIn(got, e))
           /\ u # CSUM_TREE => SectorsIn(got, e) = <<>>
           /\ u = CSUM_TREE => SectorsFor(SectorsIn(got, e), its, e)
<1>1. CASE u # CSUM_TREE
  <2>1. \A x \in DOMAIN its : its[x].key[2] # EXTENT_CSUM
    <3>1. CASE u = ROOT_TREE
      BY <3>1, RootLeafItems DEF ROOT_ITEM, EXTENT_CSUM
    <3>2. CASE u \in DOMAIN Contents
      BY <1>1, <3>2, LeafItems DEF IsItem
    <3> QED
      BY <3>1, <3>2 DEF Trees
  <2>2. SectorsIn(got, e) = <<>>
    BY <2>1, NoItems, SectorsNone
  <2> QED
    BY <1>1, <2>2 DEF Rising
<1>2. CASE u = CSUM_TREE
  <2> DEFINE all == ItemSeq(got, EXTENT_CSUM)
             of  == {x \in DOMAIN its : its[x].key[2] = EXTENT_CSUM}
  <2>1. u \in DOMAIN Contents
    BY <1>2, TreesAre
  <2>2. /\ IsSequence(its)
        /\ \A x \in DOMAIN its : IsItem(u, its[x])
        /\ \A x, y \in DOMAIN its : x < y => Follows(u, its[y], its[x])
    BY <2>1, LeafItems
  <2>3. PICK n, f : Taken(all, its, of, n, f)
    BY <2>2, ItemSeqIs
  <2>4. of = DOMAIN its
    BY <1>2, <2>2 DEF IsItem
  <2> HIDE DEF all, of
  <2>5. /\ n \in Nat /\ f \in [1..n -> DOMAIN its] /\ all = [k \in 1..n |-> its[f[k]]]
        /\ \A k, l \in 1..n : k < l => f[k] < f[l]
        /\ \A x \in DOMAIN its : \E k \in 1..n : f[k] = x
    BY <2>3, <2>4 DEF Taken
  <2>6. \A k \in 1..n : f[k] \in DOMAIN its /\ all[k] = its[f[k]]
    BY <2>5
  <2>7. \A x \in DOMAIN its : its[x].key[3] \in Nat /\ its[x].val \in Nat
    BY <1>2, <2>2, ScanAssumption DEF IsItem
  <2>8. \A k \in 1..n : all[k].key[3] \in Nat /\ all[k].val \in Nat
    BY <2>6, <2>7
  <2>9. \A k, l \in 1..n : k < l => all[k].key[3] + all[k].val <= all[l].key[3]
    <3> SUFFICES ASSUME NEW k \in 1..n, NEW l \in 1..n, k < l
                 PROVE  all[k].key[3] + all[k].val <= all[l].key[3]
      OBVIOUS
    <3>1. Follows(u, its[f[l]], its[f[k]])
      BY <2>2, <2>5, <2>6
    <3> QED
      BY <1>2, <2>6, <3>1 DEF Follows
  <2>10. \A s : (\E k \in 1..n : Covers(all[k], s)) <=> (\E x \in DOMAIN its : Covers(its[x], s))
    BY <2>5, <2>6
  <2>11. all = [k \in 1..n |-> all[k]] /\ all = ItemSeq(got, EXTENT_CSUM)
    BY <2>5 DEF all
  <2>12. e.chunk \in Nat /\ e.len \in Nat
    BY DEF Extent
  <2>13. /\ Rising(SectorsIn(got, e))
         /\ \A s : s \in Range(SectorsIn(got, e)) <=>
                     /\ s \in Nat /\ e.chunk <= s /\ s < e.chunk + e.len
                     /\ \E k \in 1..n : Covers(all[k], s)
    <3>1. AreCsums(all, n)
      BY <2>5, <2>8, <2>9, <2>11 DEF AreCsums
    <3> QED
      BY <2>11, <2>12, <3>1, SectorsOf
  <2> QED
    BY <1>2, <2>10, <2>13 DEF SectorsFor
<1> QED
  BY <1>1, <1>2

-----------------------------------------------------------------------------
(* Pruning.                                                                *)

LEMMA PointerKey ==
    ASSUME NEW d, NEW m, NEW b, NEW n, TopShape(d, m, b, n), n.owner \in DOMAIN Contents,
           NEW i \in 1..Width(n.owner)
    PROVE  \E v \in DOMAIN Contents[n.owner][i] : n.items[i].key = Contents[n.owner][i][v][1].key
<1>1. n.owner # ROOT_TREE
  BY TreesAre
<1> QED
  BY <1>1 DEF TopShape, Pointer

LEMMA WholeRange ==
    ASSUME NEW k, k[1] \in 0..EXTENT_CSUM_OBJECTID PROVE KeyLess(MinKey, k) /\ KeyLess(k, MaxKey)
<1>1. \A x \in 0..EXTENT_CSUM_OBJECTID : -1 < x /\ x < EXTENT_CSUM_OBJECTID + 1
  BY DEF EXTENT_CSUM_OBJECTID
<1>2. MinKey[1] < k[1]
  BY <1>1 DEF MinKey
<1>3. k[1] < MaxKey[1]
  BY <1>1 DEF MaxKey
<1> QED
  BY <1>2, <1>3 DEF KeyLess

(* Every key is in the range of the walks at open.                         *)
LEMMA Unpruned ==
    ASSUME NEW d, NEW m, NEW b, NEW n, TopShape(d, m, b, n), n.owner \in DOMAIN Contents,
           NEW i \in 1..Width(n.owner)
    PROVE  InRange(n.items, i, MinKey, MaxKey)
<1>1. ASSUME NEW j \in 1..Width(n.owner)
      PROVE  n.items[j].key[1] \in 0..EXTENT_CSUM_OBJECTID
  <2>1. PICK v \in DOMAIN Contents[n.owner][j] : n.items[j].key = Contents[n.owner][j][v][1].key
    BY PointerKey
  <2>2. j \in DOMAIN Contents[n.owner]
    BY TreesAre
  <2>3. 1 \in DOMAIN Contents[n.owner][j][v] /\ IsItem(n.owner, Contents[n.owner][j][v][1])
    BY <2>2, OrderAssumption
  <2> QED
    BY <2>1, <2>3 DEF IsItem
<1>2. ASSUME i < Len(n.items) PROVE i + 1 \in 1..Width(n.owner)
  <2>1. DOMAIN n.items = 1..Width(n.owner) /\ Width(n.owner) \in Nat
    BY TreesAre DEF TopShape, Trees
  <2>2. Len(n.items) = Width(n.owner)
    BY <2>1
  <2> QED
    BY <1>2, <2>1, <2>2
<1>3. KeyLess(n.items[i].key, MaxKey)
  BY <1>1, WholeRange
<1>4. i < Len(n.items) => KeyLess(MinKey, n.items[i + 1].key)
  <2> SUFFICES ASSUME i < Len(n.items) PROVE KeyLess(MinKey, n.items[i + 1].key)
    OBVIOUS
  <2>1. n.items[i + 1].key[1] \in 0..EXTENT_CSUM_OBJECTID
    BY <1>1, <1>2
  <2> QED
    BY <2>1, WholeRange
<1> QED
  BY <1>3, <1>4 DEF InRange

(* The walk for an extent descends into every leaf that always has one of  *)
(* its sectors.                                                            *)
LEMMA Pruned ==
    ASSUME NEW d, NEW m, NEW b, NEW n, TopShape(d, m, b, n), n.owner = CSUM_TREE,
           NEW i \in 1..Width(CSUM_TREE), NEW e \in Extent, NEW s \in e.chunk..(e.chunk + e.len - 1),
           AlwaysHas(i, s)
    PROVE  InRange(n.items, i, RangeKeys(e).lo, RangeKeys(e).hi)
<1> DEFINE C == Contents[CSUM_TREE]
<1>1. CSUM_TREE \in DOMAIN Contents /\ DOMAIN C = 1..Width(CSUM_TREE) /\ Width(CSUM_TREE) \in Nat
  BY TreesAre
<1>2. e.chunk \in Nat /\ e.len \in Nat /\ s \in Nat /\ e.chunk <= s /\ s < e.chunk + e.len
  BY DEF Extent
<1>3. PICK v \in DOMAIN C[i] : n.items[i].key = C[i][v][1].key
  BY <1>1, PointerKey
<1>4. PICK x \in DOMAIN C[i][v] : Covers(C[i][v][x], s)
  BY DEF AlwaysHas, Range, Covers
<1>5. /\ \A j \in DOMAIN C : \A w \in DOMAIN C[j] :
            /\ IsSequence(C[j][w]) /\ 1 \in DOMAIN C[j][w]
            /\ \A y \in DOMAIN C[j][w] : IsItem(CSUM_TREE, C[j][w][y])
  BY <1>1, OrderAssumption
<1>6. \A j \in DOMAIN C : \A w \in DOMAIN C[j] : \A y \in DOMAIN C[j][w] :
         /\ C[j][w][y].key[1] = EXTENT_CSUM_OBJECTID /\ C[j][w][y].key[2] = EXTENT_CSUM
         /\ C[j][w][y].key[3] \in Nat /\ C[j][w][y].val \in Nat
  BY <1>5, CsumItem
<1>7. KeyLess(n.items[i].key, RangeKeys(e).hi)
  <2>1. C[i][v][1].key[3] <= C[i][v][x].key[3]
    <3>1. CASE x = 1
      BY <1>1, <1>3, <1>6, <3>1
    <3>2. CASE x # 1
      <4>1. 1 < x /\ 1 \in DOMAIN C[i][v]
        BY <1>1, <1>3, <1>5, <3>2 DEF IsSequence
      <4>2. Follows(CSUM_TREE, C[i][v][x], C[i][v][1])
        BY <1>1, <1>3, <4>1, OrderAssumption
      <4>3. C[i][v][1].key[3] + C[i][v][1].val <= C[i][v][x].key[3]
        BY <4>2 DEF Follows
      <4> QED
        BY <1>1, <1>3, <1>6, <4>1, <4>3
    <3> QED
      BY <3>1, <3>2
  <2>2. C[i][v][x].key[3] <= s /\ C[i][v][x].key[3] \in Nat /\ C[i][v][1].key[3] \in Nat
    BY <1>1, <1>3, <1>4, <1>5, <1>6 DEF Covers
  <2>3. n.items[i].key[1] = EXTENT_CSUM_OBJECTID /\ n.items[i].key[2] = EXTENT_CSUM
        /\ n.items[i].key[3] < e.chunk + e.len
    <3>1. C[i][v][1].key[1] = EXTENT_CSUM_OBJECTID /\ C[i][v][1].key[2] = EXTENT_CSUM
      BY <1>1, <1>5, <1>6
    <3>2. C[i][v][1].key[3] < e.chunk + e.len
      BY <1>2, <2>1, <2>2
    <3> QED
      BY <1>3, <3>1, <3>2
  <2> QED
    BY <2>3 DEF KeyLess, RangeKeys
<1>8. ASSUME i < Len(n.items) PROVE KeyLess(RangeKeys(e).lo, n.items[i + 1].key)
  <2>1. DOMAIN n.items = 1..Width(CSUM_TREE)
    BY DEF TopShape
  <2>2. Len(n.items) = Width(CSUM_TREE)
    BY <1>1, <2>1
  <2>3. i + 1 \in 1..Width(CSUM_TREE) /\ i < i + 1
    BY <1>1, <1>8, <2>2
  <2>4. PICK w \in DOMAIN C[i + 1] : n.items[i + 1].key = C[i + 1][w][1].key
    <3>1. \A j \in 1..Width(CSUM_TREE) : \E w \in DOMAIN C[j] : n.items[j].key = C[j][w][1].key
      BY <1>1, PointerKey
    <3> QED
      BY <2>3, <3>1
  <2>5. 1 \in DOMAIN C[i + 1][w]
    BY <1>1, <1>5, <2>3
  <2>6. Follows(CSUM_TREE, C[i + 1][w][1], C[i][v][x])
    BY <1>1, <2>3, <2>5, OrderAssumption
  <2>7. C[i][v][x].key[3] + C[i][v][x].val <= C[i + 1][w][1].key[3]
    BY <2>6 DEF Follows
  <2>8. s < C[i][v][x].key[3] + C[i][v][x].val
    BY <1>4 DEF Covers
  <2>9. /\ n.items[i + 1].key[1] = EXTENT_CSUM_OBJECTID /\ n.items[i + 1].key[2] = EXTENT_CSUM
        /\ n.items[i + 1].key[3] \in Nat /\ s < n.items[i + 1].key[3]
    <3>1. /\ C[i + 1][w][1].key[1] = EXTENT_CSUM_OBJECTID /\ C[i + 1][w][1].key[2] = EXTENT_CSUM
          /\ C[i + 1][w][1].key[3] \in Nat
      BY <1>1, <1>6, <2>3, <2>5
    <3>2. C[i][v][x].key[3] \in Nat /\ C[i][v][x].val \in Nat
      BY <1>1, <1>6
    <3>3. s < C[i + 1][w][1].key[3]
      BY <1>2, <2>7, <2>8, <3>1, <3>2
    <3> QED
      BY <2>4, <3>1, <3>3
  <2>10. RangeKeys(e).lo[3] <= e.chunk /\ RangeKeys(e).lo[3] \in Int
    BY <1>2, ScanAssumption DEF RangeKeys
  <2>11. RangeKeys(e).lo[3] < n.items[i + 1].key[3]
    BY <1>2, <2>9, <2>10
  <2> QED
    BY <2>9, <2>11 DEF KeyLess, RangeKeys
<1> QED
  BY <1>7, <1>8 DEF InRange

-----------------------------------------------------------------------------
(* The other steps.                                                        *)

LEMMA ChunksFound ==
    ASSUME NEW got, AtLeaf(got), got.node = ChunkNode
    PROVE  {it.val : it \in ItemsOf(got, CHUNK_ITEM)} = Chunks
<1> DEFINE begins == {c.begin : c \in Chunks}
           at == Ascending(begins)
           n == Cardinality(begins)
<1>1. begins \in SUBSET Int /\ IsFiniteSet(begins)
  <2>1. begins \in SUBSET Int
    BY StoreAssumption
  <2>2. [c \in Chunks |-> c.begin] \in Surjection(Chunks, begins)
    BY DEF Surjection
  <2> QED
    BY <2>1, <2>2, ScanAssumption, FS_Surjection
<1> HIDE DEF begins
<1>2. n \in Nat /\ at \in [1..n -> begins] /\ \A x \in begins : \E k \in 1..n : at[k] = x
  BY <1>1, AscendingOrder
<1>3. ChunkItems = [i \in DOMAIN at |-> [key |-> <<256, CHUNK_ITEM, at[i]>>,
                                         val |-> CHOOSE c \in Chunks : c.begin = at[i]]]
  BY DEF ChunkItems, begins
<1> HIDE DEF at, n
<1>4. \A c, d \in Chunks : c.begin = d.begin => c = d
  <2> SUFFICES ASSUME NEW c \in Chunks, NEW d \in Chunks, c.begin = d.begin PROVE c = d
    OBVIOUS
  <2>1. /\ c.begin \in Nat /\ c.end \in Nat /\ c.begin < c.end
        /\ d.begin \in Nat /\ d.end \in Nat /\ d.begin < d.end
    BY StoreAssumption
  <2>2. c = d \/ c.end <= d.begin \/ d.end <= c.begin
    BY StoreAssumption
  <2> QED
    BY <2>1, <2>2
<1>5. /\ DOMAIN ChunkItems = 1..n
      /\ \A i \in 1..n : /\ ChunkItems[i].key[2] = CHUNK_ITEM
                         /\ ChunkItems[i].val \in Chunks /\ ChunkItems[i].val.begin = at[i]
  <2>1. DOMAIN at = 1..n
    BY <1>2
  <2>2. ASSUME NEW i \in 1..n
        PROVE  /\ ChunkItems[i].key[2] = CHUNK_ITEM
               /\ ChunkItems[i].val \in Chunks /\ ChunkItems[i].val.begin = at[i]
    <3>1. PICK c \in Chunks : c.begin = at[i]
      BY <1>2 DEF begins
    <3>2. ChunkItems[i] = [key |-> <<256, CHUNK_ITEM, at[i]>>,
                           val |-> CHOOSE x \in Chunks : x.begin = at[i]]
      BY <1>3, <2>1
    <3> QED
      BY <3>1, <3>2
  <2> QED
    BY <1>3, <2>1, <2>2
<1>6. ItemsOf(got, CHUNK_ITEM) = {it \in Range(ChunkItems) : it.key[2] = CHUNK_ITEM}
  BY DEF ItemsOf, ChunkNode, Node
<1>7. ItemsOf(got, CHUNK_ITEM) = {ChunkItems[i] : i \in 1..n}
  BY <1>5, <1>6 DEF Range
<1>8. ASSUME NEW c \in Chunks PROVE \E i \in 1..n : ChunkItems[i].val = c
  <2>1. PICK i \in 1..n : at[i] = c.begin
    BY <1>2 DEF begins
  <2> QED
    BY <1>4, <1>5, <2>1
<1> QED
  BY <1>5, <1>7, <1>8

(* The walk of the root tree takes ROOT_ITEMs only from its own leaves.    *)
LEMMA RootsFound ==
    ASSUME NEW got, AtLeaf(got), NEW u \in Trees, NEW i \in 1..Width(u),
           MayHold(u, i, got.node.items), NEW it \in ItemsOf(got, ROOT_ITEM)
    PROVE  it.val \in Blocks \cup {0} /\ (it.key[1] \in DOMAIN Contents => it.val \in Blocks)
<1>1. PICK x \in DOMAIN got.node.items : it = got.node.items[x] /\ it.key[2] = ROOT_ITEM
  BY DEF ItemsOf, Range
<1>2. CASE u \in DOMAIN Contents
  BY <1>1, <1>2, LeafItems DEF IsItem
<1>3. CASE u = ROOT_TREE
  BY <1>1, <1>3, RootLeafItems
<1> QED
  BY <1>2, <1>3 DEF Trees

LEMMA SortedRising == ASSUME NEW s, Rising(s) PROVE Sorted(s) = s
<1> DEFINE upto(i) == {j \in DOMAIN s : s[j] < s[i] \/ (s[j] = s[i] /\ j <= i)}
<1>1. DOMAIN s = 1..Len(s) /\ Len(s) \in Nat /\ s = [k \in DOMAIN s |-> s[k]]
      /\ \A k \in DOMAIN s : s[k] \in Nat
  BY DEF Rising
<1>2. ASSUME NEW i \in DOMAIN s PROVE Cardinality(upto(i)) = i
  <2>1. i \in 1..Len(s) /\ i \in Nat
    BY <1>1
  <2>2. upto(i) = 1..i
    <3>1. ASSUME NEW j \in DOMAIN s PROVE j \in upto(i) <=> j <= i
      <4>1. j < i => s[j] < s[i]
        BY DEF Rising
      <4>2. i < j => s[i] < s[j]
        BY DEF Rising
      <4> QED
        BY <1>1, <2>1, <4>1, <4>2
    <3>2. upto(i) \subseteq 1..i
      BY <1>1, <3>1
    <3>3. \A j \in 1..i : j \in DOMAIN s /\ j <= i
      BY <1>1, <2>1
    <3> HIDE DEF upto
    <3> QED
      BY <3>1, <3>2, <3>3
  <2>3. Cardinality(1..i) = i
    <3>1. 1 \in Int /\ i \in Int
      BY <2>1
    <3>2. Cardinality(1..i) = IF 1 > i THEN 0 ELSE i - 1 + 1
      BY <3>1, FS_Interval
    <3> QED
      BY <2>1, <3>2
  <2> QED
    BY <2>2, <2>3
<1>3. Sorted(s) = [k \in DOMAIN s |-> s[CHOOSE i \in DOMAIN s : Cardinality(upto(i)) = k]]
  BY DEF Sorted
<1> HIDE DEF upto
<1>4. ASSUME NEW k \in DOMAIN s PROVE (CHOOSE i \in DOMAIN s : Cardinality(upto(i)) = k) = k
  <2>1. \E i \in DOMAIN s : Cardinality(upto(i)) = k
    BY <1>2
  <2>2. \A i \in DOMAIN s : Cardinality(upto(i)) = k => i = k
    BY <1>2
  <2> QED
    BY <2>1, <2>2
<1>5. Sorted(s) = [k \in DOMAIN s |-> s[k]]
  BY <1>3, <1>4
<1> QED
  BY <1>1, <1>5

LEMMA NextIs ==
    ASSUME Len(extents) \in Nat, NEW i \in 1..(Len(extents) + 1)
    PROVE  /\ NextExtent(i) \in i..(Len(extents) + 1)
           /\ \A j \in i..Len(extents) : j < NextExtent(i) => ~IsData(extents[j])
<1> DEFINE data == {j \in i..Len(extents) : IsData(extents[j])}
<1>1. NextExtent(i) = IF data = {} THEN Len(extents) + 1 ELSE Min(data)
  BY DEF NextExtent
<1>2. data \in SUBSET Nat /\ data \subseteq i..Len(extents)
  OBVIOUS
<1>3. \A j \in i..Len(extents) : IsData(extents[j]) <=> j \in data
  OBVIOUS
<1> HIDE DEF data
<1>4. data # {} => Min(data) \in data /\ \A y \in data : Min(data) <= y
  BY <1>2, MinIn
<1>5. CASE data = {}
  BY <1>1, <1>3, <1>5
<1>6. CASE data # {}
  <2>1. NextExtent(i) \in data /\ \A y \in data : NextExtent(i) <= y
    BY <1>1, <1>4, <1>6
  <2>2. NextExtent(i) \in i..(Len(extents) + 1)
    <3>1. NextExtent(i) \in i..Len(extents)
      BY <1>2, <2>1
    <3> QED
      BY <3>1
  <2>3. ASSUME NEW j \in i..Len(extents), j < NextExtent(i) PROVE ~IsData(extents[j])
    <3>1. j \notin data
      BY <2>1, <2>2, <2>3
    <3> QED
      BY <1>3, <3>1
  <2> QED
    BY <2>2, <2>3
<1> QED
  BY <1>5, <1>6

-----------------------------------------------------------------------------
(* The walk of the device tree.                                            *)

LEMMA NoLeaves ==
    ASSUME NEW d, NEW m, NEW read, NEW u
    PROVE  Under(d, m, <<>>, read, u, <<>>) /\ <<>> \in [DOMAIN <<>> -> 1..Width(u)]
  BY DEF Under

(* The root read is of the tree: as high as the tree is.                   *)
LEMMA TheRoot ==
    ASSUME NEW t \in {CSUM_TREE, DEV_TREE}, Top.exp = DontCheck, Fine(Got), ~NotTheRoot(Got, t)
    PROVE  Got.node.owner = t /\ (Got.node.level = 0 => Width(t) = 1)
<1>1. t \in DOMAIN Contents /\ t # CHUNK_TREE /\ t # ROOT_TREE
  BY TreesAre DEF CSUM_TREE, DEV_TREE, CHUNK_TREE, ROOT_TREE
<1>2. Got.node.owner = t /\ Got.node.level = Height(t)
  BY DEF NotTheRoot
<1> QED
  BY <1>1, <1>2 DEF Height, Width

(* The extents of one leaf lie below those of the next.                    *)
LEMMA LeavesApart ==
    ASSUME NEW i \in 1..Width(DEV_TREE), NEW j \in 1..Width(DEV_TREE), i < j,
           NEW its, MayHold(DEV_TREE, i, its), NEW e \in ExtentsOf(its),
           NEW w \in DOMAIN Contents[DEV_TREE][j], NEW f \in ExtentsOf(Contents[DEV_TREE][j][w])
    PROVE  e.phys < f.phys
<1> DEFINE C == Contents[DEV_TREE]
<1>1. DEV_TREE \in DOMAIN Contents /\ DOMAIN C = 1..Width(DEV_TREE) /\ DEV_TREE # ROOT_TREE
  BY TreesAre
<1>2. PICK v \in DOMAIN C[i] : its = C[i][v]
  BY <1>1 DEF MayHold
<1>3. PICK x \in DOMAIN C[i][v] : /\ e.phys = C[i][v][x].key[3] /\ C[i][v][x].key[1] = Devid
                                  /\ C[i][v][x].key[2] = DEV_EXTENT_KEY
  BY <1>2 DEF ExtentsOf, Range
<1>4. PICK y \in DOMAIN C[j][w] : /\ f.phys = C[j][w][y].key[3] /\ C[j][w][y].key[1] = Devid
                                  /\ C[j][w][y].key[2] = DEV_EXTENT_KEY
  BY DEF ExtentsOf, Range
<1>5. Follows(DEV_TREE, C[j][w][y], C[i][v][x])
  BY <1>1, OrderAssumption
<1>6. KeyLess(C[i][v][x].key, C[j][w][y].key)
  BY <1>5 DEF Follows
<1>7. C[i][v][x].key[3] < C[j][w][y].key[3]
  <2> DEFINE a == C[i][v][x].key
             c == C[j][w][y].key
  <2>1. /\ a[1] = c[1] /\ a[1] \in Int /\ a[2] = c[2] /\ a[2] \in Int
        /\ KeyLess(a, c)
    <3>1. a[1] = Devid /\ c[1] = Devid /\ a[2] = DEV_EXTENT_KEY /\ c[2] = DEV_EXTENT_KEY
      BY <1>3, <1>4
    <3>2. Devid \in Int /\ DEV_EXTENT_KEY \in Int
      BY DEF Devid, DEV_EXTENT_KEY
    <3> QED
      BY <1>6, <3>1, <3>2
  <2> HIDE DEF a, c
  <2>2. a[3] < c[3]
    BY <2>1, KeysOfOneKind
  <2> QED
    BY <2>2 DEF a, c
<1> QED
  BY <1>3, <1>4, <1>7

(* What a leaf adds to the extents found.                                  *)
LEMMA DevLeafAdds ==
    ASSUME NEW i \in 1..Width(DEV_TREE), NEW its, MayHold(DEV_TREE, i, its),
           NEW exts, InPlace(exts), Ahead(exts, i), NEW more, InPlace(more),
           Range(more) = ExtentsOf(its)
    PROVE  /\ InPlace(exts \o more) /\ Listed(exts \o more, i)
           /\ \A j \in 1..Width(DEV_TREE) : Listed(exts, j) => Listed(exts \o more, j)
           /\ \A j \in 1..Width(DEV_TREE) : i < j /\ Ahead(exts, j) => Ahead(exts \o more, j)
<1>1. DEV_TREE # ROOT_TREE
  BY TreesAre
<1>2. PICK v \in DOMAIN Contents[DEV_TREE][i] : its = Contents[DEV_TREE][i][v]
  BY <1>1 DEF MayHold
<1>3. InPlace(exts \o more) /\ Range(exts \o more) = Range(exts) \cup Range(more)
  <2>1. \A x \in Range(exts), y \in Range(more) : x.phys < y.phys
    BY <1>2 DEF Ahead, Range
  <2> QED
    BY <2>1, InPlaceConcat
<1> DEFINE all == exts \o more
<1> HIDE DEF all
<1>4. Listed(all, i)
  BY <1>2, <1>3 DEF Listed, all
<1>5. ASSUME NEW j \in 1..Width(DEV_TREE), Listed(exts, j) PROVE Listed(all, j)
  <2>1. Range(exts) \subseteq Range(all)
    BY <1>3 DEF all
  <2> QED
    BY <1>5, <2>1 DEF Listed
<1>6. ASSUME NEW j \in 1..Width(DEV_TREE), i < j, Ahead(exts, j) PROVE Ahead(all, j)
  <2> SUFFICES ASSUME NEW w \in DOMAIN Contents[DEV_TREE][j],
                      NEW e \in ExtentsOf(Contents[DEV_TREE][j][w]), NEW k \in DOMAIN all
               PROVE  all[k].phys < e.phys
    BY DEF Ahead
  <2>1. all[k] \in Range(exts) \cup Range(more)
    BY <1>3 DEF Range, all
  <2>2. CASE all[k] \in Range(exts)
    BY <1>6, <2>2 DEF Ahead, Range
  <2>3. CASE all[k] \in Range(more)
    BY <1>6, <2>3, LeavesApart
  <2> QED
    BY <2>1, <2>2, <2>3
<1> QED
  BY <1>3, <1>4, <1>5, <1>6 DEF all

(* One pop: the queue, and what has been found.                            *)
LEMMA DevPopRoot ==
    ASSUME StoreOK, map \subseteq Chunks, Atop, extents = <<>>, NEW q, q = Pop(queue, Got, MinKey, MaxKey),
           NEW exts, exts = extents \o DevExtents(Got), NEW read,
           read = (IF Top.exp = DontCheck THEN {} ELSE seen) \cup {Top.at},
           NEW clean \in BOOLEAN, clean => Fine(Got) /\ ~NotTheRoot(Got, DEV_TREE)
    PROVE  q \in Seq(Refs) /\ InPlace(exts) /\ DevWalk(disk, Gen, q, read, exts, clean)
<1>1. PICK b \in Blocks : Starts(b)
  BY DEF Atop
<1> DEFINE n == Got.node
<1>2. /\ Top = Ref(b, DontCheck)
      /\ q \in Seq(Refs)
      /\ ~Fine(Got) \/ AtLeaf(Got) => q = <<>>
      /\ Fine(Got) => NodeShape(disk, Gen, b, n)
      /\ Fine(Got) /\ ~AtLeaf(Got) =>
           /\ TopShape(disk, Gen, b, n)
           /\ \E idx \in [DOMAIN q -> 1..Width(n.owner)] :
                /\ Under(disk, Gen, q, {b}, n.owner, idx)
                /\ \A x \in 1..Width(n.owner) : InRange(n.items, x, MinKey, MaxKey) => x \in Range(idx)
  <2>1. RootPopped(b, n, q, MinKey, MaxKey)
    BY <1>1, PopRoot
  <2> QED
    BY <2>1 DEF RootPopped
<1>3. Top.exp = DontCheck /\ read = {b}
  BY <1>2 DEF Ref
<1>4. clean => n.owner = DEV_TREE /\ (n.level = 0 => Width(DEV_TREE) = 1)
  BY <1>3, TheRoot
<1>5. exts = DevExtents(Got) \/ DevExtents(Got) \notin Seq(Extent)
  OBVIOUS
<1>6. ~AtLeaf(Got) => DevExtents(Got) = <<>>
  BY NoItems, DevExtentsNone
<1>7. InPlace(<<>>)
  BY DEF InPlace
<1> HIDE DEF n
<1>8. CASE ~Fine(Got)
  <2>1. q = <<>> /\ exts = <<>> /\ ~clean
    BY <1>2, <1>5, <1>6, <1>8 DEF AtLeaf
  <2>2. Under(disk, Gen, q, read, DEV_TREE, <<>>) /\ <<>> \in [DOMAIN q -> 1..Width(DEV_TREE)]
    BY <2>1, NoLeaves
  <2>3. DevSoFar(exts, clean, DEV_TREE, <<>>)
    BY <2>1 DEF DevSoFar
  <2> QED
    BY <1>2, <1>7, <2>1, <2>2, <2>3, TreesAre DEF DevWalk
<1>9. CASE AtLeaf(Got)
  <2>1. Fine(Got) /\ n.level = 0 /\ q = <<>>
    BY <1>2, <1>9 DEF AtLeaf, n
  <2>2. n.owner \in Trees /\ LeafShape(n)
    BY <1>2, <2>1 DEF NodeShape, TopShape
  <2>3. PICK i \in 1..Width(n.owner) : MayHold(n.owner, i, n.items)
    BY <2>2 DEF LeafShape
  <2>4. /\ InPlace(DevExtents(Got))
        /\ n.owner = DEV_TREE => Range(DevExtents(Got)) = ExtentsOf(n.items)
    BY <1>9, <2>2, <2>3, DevLeaf DEF n
  <2>5. exts = DevExtents(Got)
    BY <1>5, <2>4 DEF InPlace
  <2>6. Under(disk, Gen, q, read, n.owner, <<>>) /\ <<>> \in [DOMAIN q -> 1..Width(n.owner)]
    BY <2>1, NoLeaves
  <2>7. ASSUME clean PROVE n.owner = DEV_TREE /\ \A j \in 1..Width(DEV_TREE) : Listed(exts, j)
    <3>1. n.owner = DEV_TREE /\ Width(DEV_TREE) = 1
      BY <1>4, <2>1, <2>7
    <3>2. PICK v \in DOMAIN Contents[DEV_TREE][i] : n.items = Contents[DEV_TREE][i][v]
      BY <2>3, <3>1, TreesAre DEF MayHold
    <3>3. Listed(exts, i)
      BY <2>4, <2>5, <3>1, <3>2 DEF Listed
    <3> QED
      BY <3>1, <3>3
  <2>8. DevSoFar(exts, clean, n.owner, <<>>)
    BY <2>7 DEF DevSoFar
  <2> QED
    BY <1>2, <2>2, <2>4, <2>5, <2>6, <2>8 DEF DevWalk
<1>10. CASE Fine(Got) /\ ~AtLeaf(Got)
  <2>1. TopShape(disk, Gen, b, n) /\ n.owner \in Trees
    BY <1>2, <1>10 DEF NodeShape
  <2>2. PICK idx \in [DOMAIN q -> 1..Width(n.owner)] :
          /\ Under(disk, Gen, q, {b}, n.owner, idx)
          /\ \A x \in 1..Width(n.owner) : InRange(n.items, x, MinKey, MaxKey) => x \in Range(idx)
    BY <1>2, <1>10
  <2>3. exts = <<>>
    BY <1>5, <1>6, <1>10
  <2>4. ASSUME clean PROVE n.owner = DEV_TREE /\ \A j \in 1..Width(DEV_TREE) : j \in Range(idx)
    <3>1. n.owner = DEV_TREE /\ n.owner \in DOMAIN Contents
      BY <1>4, <2>4, TreesAre
    <3> QED
      BY <2>1, <2>2, <3>1, Unpruned
  <2>5. DevSoFar(exts, clean, n.owner, idx)
    BY <2>3, <2>4 DEF DevSoFar, Ahead
  <2> QED
    BY <1>2, <1>3, <1>7, <2>1, <2>2, <2>3, <2>5 DEF DevWalk
<1> QED
  BY <1>8, <1>9, <1>10

LEMMA DevPopLeaf ==
    ASSUME StoreOK, map \subseteq Chunks, queue \in Seq(Refs), queue # <<>>, InPlace(extents),
           NEW old \in BOOLEAN, DevWalk(disk, Gen, queue, seen, extents, old),
           NEW q, q = Pop(queue, Got, MinKey, MaxKey),
           NEW exts, exts = extents \o DevExtents(Got), NEW read,
           read = (IF Top.exp = DontCheck THEN {} ELSE seen) \cup {Top.at},
           NEW clean \in BOOLEAN, clean => old /\ Fine(Got)
    PROVE  q \in Seq(Refs) /\ InPlace(exts) /\ DevWalk(disk, Gen, q, read, exts, clean)
<1> DEFINE n == Len(queue)
<1>1. PICK u \in Trees : \E idx \in [DOMAIN queue -> 1..Width(u)] :
         Leaves(u, idx) /\ DevSoFar(extents, old, u, idx)
  BY DEF DevWalk, Leaves
<1>2. PICK idx : Leaves(u, idx) /\ DevSoFar(extents, old, u, idx)
  BY <1>1
<1> DEFINE rest == Without(idx, n)
<1>3. /\ Top.exp # DontCheck /\ Top.at \in Blocks
      /\ q \in Seq(Refs) /\ DOMAIN q = 1..(n - 1)
      /\ n \in Nat \ {0} /\ DOMAIN queue = 1..n /\ idx \in [1..n -> 1..Width(u)]
      /\ Under(disk, Gen, q, seen \cup {Top.at}, u, rest)
      /\ Fine(Got) => /\ AtLeaf(Got) /\ Got.node.owner = u
                      /\ MayHold(u, idx[n], Got.node.items)
  <2>1. LeafPopped(u, idx, q, n)
    BY <1>2, PopLeaf
  <2> QED
    BY <2>1 DEF LeafPopped
<1>4. Under(disk, Gen, q, read, u, rest)
  BY <1>3
<1>5. \A k \in 1..(n - 1) : k \in 1..n /\ rest[k] = idx[k] /\ rest[k] \in 1..Width(u) /\ idx[n] < rest[k]
  <2> SUFFICES ASSUME NEW k \in 1..(n - 1)
               PROVE  k \in 1..n /\ rest[k] = idx[k] /\ rest[k] \in 1..Width(u) /\ idx[n] < rest[k]
    OBVIOUS
  <2>1. k \in 1..n /\ n \in 1..n /\ k < n
    BY <1>3
  <2>2. idx[n] < idx[k]
    BY <1>2, <1>3, <2>1 DEF Leaves, Under
  <2> QED
    BY <1>3, <2>1, <2>2 DEF Without
<1>6. DOMAIN rest = 1..(n - 1) /\ rest \in [DOMAIN q -> 1..Width(u)] /\ n \in 1..n /\ idx[n] \in 1..Width(u)
  BY <1>3, <1>5 DEF Without
<1>7. \A j \in Range(idx) : j = idx[n] \/ j \in Range(rest)
  <2> SUFFICES ASSUME NEW k \in 1..n, k # n PROVE idx[k] \in Range(rest)
    BY <1>3 DEF Range
  <2>1. k \in 1..(n - 1)
    <3>1. n \in Nat
      BY <1>3
    <3> HIDE DEF n
    <3> QED
      BY <3>1
  <2> QED
    BY <1>5, <1>6, <2>1 DEF Range
<1> HIDE DEF n, rest
<1>8. CASE ~Fine(Got)
  <2>1. DevExtents(Got) = <<>>
    BY <1>8, NoItems, DevExtentsNone DEF AtLeaf
  <2>2. exts = extents /\ ~clean
    BY <1>8, <2>1 DEF InPlace
  <2>3. DevSoFar(exts, clean, u, rest)
    BY <1>2, <1>3, <1>5, <1>6, <2>2 DEF DevSoFar
  <2> QED
    BY <1>3, <1>4, <1>6, <2>2, <2>3 DEF DevWalk
<1>9. CASE Fine(Got) /\ u # DEV_TREE
  <2>1. DevExtents(Got) = <<>>
    BY <1>3, <1>6, <1>9, DevLeaf
  <2>2. exts = extents /\ ~old /\ ~clean
    BY <1>2, <1>9, <2>1 DEF InPlace, DevSoFar
  <2>3. DevSoFar(exts, clean, u, rest)
    BY <1>9, <2>2 DEF DevSoFar
  <2> QED
    BY <1>3, <1>4, <1>6, <2>2, <2>3 DEF DevWalk
<1>10. CASE Fine(Got) /\ u = DEV_TREE
  <2> DEFINE its == Got.node.items
             more == DevExtents(Got)
  <2>1. MayHold(DEV_TREE, idx[n], its) /\ idx[n] \in 1..Width(DEV_TREE)
    BY <1>3, <1>6, <1>10
  <2>2. InPlace(more) /\ Range(more) = ExtentsOf(its)
    BY <1>3, <1>6, <1>10, DevLeaf
  <2>3. \A k \in 1..n : Ahead(extents, idx[k])
    BY <1>2, <1>3, <1>10 DEF DevSoFar
  <2>4. /\ InPlace(extents \o more) /\ Listed(extents \o more, idx[n])
        /\ \A j \in 1..Width(DEV_TREE) : Listed(extents, j) => Listed(extents \o more, j)
        /\ \A j \in 1..Width(DEV_TREE) : idx[n] < j /\ Ahead(extents, j) => Ahead(extents \o more, j)
    BY <1>6, <2>1, <2>2, <2>3, DevLeafAdds
  <2> HIDE DEF its, more
  <2>5. /\ InPlace(exts) /\ Listed(exts, idx[n])
        /\ \A j \in 1..Width(DEV_TREE) : Listed(extents, j) => Listed(exts, j)
        /\ \A j \in 1..Width(DEV_TREE) : idx[n] < j /\ Ahead(extents, j) => Ahead(exts, j)
    BY <2>4 DEF more
  <2>6. \A k \in DOMAIN rest : Ahead(exts, rest[k])
    <3> SUFFICES ASSUME NEW k \in 1..(n - 1) PROVE Ahead(exts, rest[k])
      BY <1>6
    <3>1. rest[k] \in 1..Width(DEV_TREE) /\ idx[n] < rest[k] /\ Ahead(extents, rest[k])
      BY <1>5, <1>10, <2>3
    <3> QED
      BY <2>5, <3>1
  <2>7. ASSUME clean, NEW j \in 1..Width(DEV_TREE) PROVE j \in Range(rest) \/ Listed(exts, j)
    <3>1. j \in Range(idx) \/ Listed(extents, j)
      BY <1>2, <2>7 DEF DevSoFar
    <3> QED
      BY <1>7, <2>5, <3>1
  <2>8. DevSoFar(exts, clean, u, rest)
    BY <1>10, <2>6, <2>7 DEF DevSoFar
  <2> QED
    BY <1>3, <1>4, <1>6, <2>5, <2>8 DEF DevWalk
<1> QED
  BY <1>8, <1>9, <1>10

-----------------------------------------------------------------------------
(* The walk of the checksum tree for an extent.                            *)

(* The sectors of one leaf lie below the items of the next.                *)
LEMMA SectorsApart ==
    ASSUME NEW i \in 1..Width(CSUM_TREE), NEW j \in 1..Width(CSUM_TREE), i < j,
           NEW its, MayHold(CSUM_TREE, i, its), NEW x \in DOMAIN its, NEW s \in Nat, Covers(its[x], s),
           NEW w \in DOMAIN Contents[CSUM_TREE][j], NEW y \in DOMAIN Contents[CSUM_TREE][j][w]
    PROVE  s < Contents[CSUM_TREE][j][w][y].key[3]
<1> DEFINE C == Contents[CSUM_TREE]
<1>1. CSUM_TREE \in DOMAIN Contents /\ DOMAIN C = 1..Width(CSUM_TREE) /\ CSUM_TREE # ROOT_TREE
  BY TreesAre
<1>2. PICK v \in DOMAIN C[i] : its = C[i][v]
  BY <1>1 DEF MayHold
<1>3. Follows(CSUM_TREE, C[j][w][y], C[i][v][x])
  BY <1>1, <1>2, OrderAssumption
<1>4. its[x].key[3] + its[x].val <= C[j][w][y].key[3]
  BY <1>2, <1>3 DEF Follows
<1>5. IsItem(CSUM_TREE, its[x]) /\ IsItem(CSUM_TREE, C[j][w][y])
  BY <1>1, <1>2, OrderAssumption
<1>6. its[x].key[3] \in Nat /\ its[x].val \in Nat /\ C[j][w][y].key[3] \in Nat
  BY <1>5, CsumItem
<1>7. s < its[x].key[3] + its[x].val
  BY DEF Covers
<1> QED
  BY <1>4, <1>6, <1>7

(* What a leaf adds to the sectors collected.                              *)
LEMMA CsumLeafAdds ==
    ASSUME NEW i \in 1..Width(CSUM_TREE), NEW its, MayHold(CSUM_TREE, i, its), NEW e \in Extent,
           NEW old, Rising(old), Beyond(old, i), NEW more, Rising(more), SectorsFor(more, its, e)
    PROVE  /\ Rising(old \o more) /\ Has(old \o more, i, e)
           /\ \A j \in 1..Width(CSUM_TREE) : Has(old, j, e) => Has(old \o more, j, e)
           /\ \A j \in 1..Width(CSUM_TREE) : i < j /\ Beyond(old, j) => Beyond(old \o more, j)
<1>1. CSUM_TREE # ROOT_TREE /\ CSUM_TREE \in DOMAIN Contents
      /\ DOMAIN Contents[CSUM_TREE] = 1..Width(CSUM_TREE)
  BY TreesAre
<1>2. PICK v \in DOMAIN Contents[CSUM_TREE][i] : its = Contents[CSUM_TREE][i][v]
  BY <1>1 DEF MayHold
<1>3. Rising(old \o more) /\ Range(old \o more) = Range(old) \cup Range(more)
  <2>1. ASSUME NEW a \in Range(old), NEW c \in Range(more) PROVE a < c
    <3>1. c \in Nat /\ \E x \in DOMAIN its : Covers(its[x], c)
      BY DEF SectorsFor
    <3>2. PICK x \in DOMAIN its : its[x].key[3] <= c
      BY <3>1 DEF Covers
    <3>3. a < its[x].key[3] /\ a \in Nat
      <4>1. PICK j \in DOMAIN old : a = old[j]
        BY DEF Range
      <4>2. old[j] \in Nat
        BY DEF Rising
      <4>3. old[j] < its[x].key[3]
        BY <1>2 DEF Beyond
      <4> QED
        BY <4>1, <4>2, <4>3
    <3>4. its[x].key[3] \in Nat
      BY <1>1, LeafItems DEF IsItem
    <3> QED
      BY <3>1, <3>2, <3>3, <3>4
  <2> QED
    BY <2>1, RisingConcat
<1> DEFINE all == old \o more
<1> HIDE DEF all
<1>4. Has(all, i, e)
  <2> SUFFICES ASSUME NEW s \in e.chunk..(e.chunk + e.len - 1), AlwaysHas(i, s) PROVE s \in Range(more)
    BY <1>3 DEF Has, all
  <2>1. \E x \in DOMAIN its : Covers(its[x], s)
    BY <1>2 DEF AlwaysHas, Range, Covers
  <2>2. s \in Nat /\ e.chunk <= s /\ s < e.chunk + e.len
    BY DEF Extent
  <2> QED
    BY <2>1, <2>2 DEF SectorsFor
<1>5. ASSUME NEW j \in 1..Width(CSUM_TREE), Has(old, j, e) PROVE Has(all, j, e)
  <2>1. Range(old) \subseteq Range(all)
    BY <1>3 DEF all
  <2> QED
    BY <1>5, <2>1 DEF Has
<1>6. ASSUME NEW j \in 1..Width(CSUM_TREE), i < j, Beyond(old, j) PROVE Beyond(all, j)
  <2> SUFFICES ASSUME NEW w \in DOMAIN Contents[CSUM_TREE][j],
                      NEW y \in DOMAIN Contents[CSUM_TREE][j][w], NEW k \in DOMAIN all
               PROVE  all[k] < Contents[CSUM_TREE][j][w][y].key[3]
    BY DEF Beyond
  <2>1. all[k] \in Range(old) \cup Range(more)
    BY <1>3 DEF Range, all
  <2>2. CASE all[k] \in Range(old)
    BY <1>6, <2>2 DEF Beyond, Range
  <2>3. CASE all[k] \in Range(more)
    <3>1. all[k] \in Nat /\ \E x \in DOMAIN its : Covers(its[x], all[k])
      BY <2>3 DEF SectorsFor
    <3> QED
      BY <1>6, <3>1, SectorsApart
  <2> QED
    BY <2>1, <2>2, <2>3
<1> QED
  BY <1>3, <1>4, <1>5, <1>6 DEF all

(* One pop: the queue, and what has been found.                            *)
LEMMA CsumPopRoot ==
    ASSUME StoreOK, map \subseteq Chunks, Atop, entries = <<>>, NEW e \in Extent,
           NEW q, q = Pop(queue, Got, RangeKeys(e).lo, RangeKeys(e).hi),
           NEW sectors, sectors = entries \o SectorsIn(Got, e), NEW read,
           read = (IF Top.exp = DontCheck THEN {} ELSE seen) \cup {Top.at},
           NEW clean \in BOOLEAN, clean => Fine(Got) /\ ~NotTheRoot(Got, CSUM_TREE)
    PROVE  q \in Seq(Refs) /\ Rising(sectors) /\ CsumWalk(disk, Gen, q, read, sectors, e, clean)
<1>1. PICK b \in Blocks : Starts(b)
  BY DEF Atop
<1> DEFINE n == Got.node
<1>2. /\ Top = Ref(b, DontCheck)
      /\ q \in Seq(Refs)
      /\ ~Fine(Got) \/ AtLeaf(Got) => q = <<>>
      /\ Fine(Got) => NodeShape(disk, Gen, b, n)
      /\ Fine(Got) /\ ~AtLeaf(Got) =>
           /\ TopShape(disk, Gen, b, n)
           /\ \E idx \in [DOMAIN q -> 1..Width(n.owner)] :
                /\ Under(disk, Gen, q, {b}, n.owner, idx)
                /\ \A x \in 1..Width(n.owner) : InRange(n.items, x, RangeKeys(e).lo, RangeKeys(e).hi) => x \in Range(idx)
  <2>1. RootPopped(b, n, q, RangeKeys(e).lo, RangeKeys(e).hi)
    BY <1>1, PopRoot
  <2> QED
    BY <2>1 DEF RootPopped
<1>3. Top.exp = DontCheck /\ read = {b}
  BY <1>2 DEF Ref
<1>4. clean => n.owner = CSUM_TREE /\ (n.level = 0 => Width(CSUM_TREE) = 1)
  BY <1>3, TheRoot
<1>5. sectors = SectorsIn(Got, e) \/ SectorsIn(Got, e) \notin Seq(Nat)
  OBVIOUS
<1>6. ~AtLeaf(Got) => SectorsIn(Got, e) = <<>>
  BY NoItems, SectorsNone
<1>7. Rising(<<>>)
  BY DEF Rising
<1> HIDE DEF n
<1>8. CASE ~Fine(Got)
  <2>1. q = <<>> /\ sectors = <<>> /\ ~clean
    BY <1>2, <1>5, <1>6, <1>8 DEF AtLeaf
  <2>2. Under(disk, Gen, q, read, CSUM_TREE, <<>>) /\ <<>> \in [DOMAIN q -> 1..Width(CSUM_TREE)]
    BY <2>1, NoLeaves
  <2>3. CsumSoFar(sectors, e, clean, CSUM_TREE, <<>>)
    BY <2>1 DEF CsumSoFar
  <2> QED
    BY <1>2, <1>7, <2>1, <2>2, <2>3, TreesAre DEF CsumWalk
<1>9. CASE AtLeaf(Got)
  <2>1. Fine(Got) /\ n.level = 0 /\ q = <<>>
    BY <1>2, <1>9 DEF AtLeaf, n
  <2>2. n.owner \in Trees /\ LeafShape(n)
    BY <1>2, <2>1 DEF NodeShape, TopShape
  <2>3. PICK i \in 1..Width(n.owner) : MayHold(n.owner, i, n.items)
    BY <2>2 DEF LeafShape
  <2>4. /\ Rising(SectorsIn(Got, e))
        /\ n.owner = CSUM_TREE => SectorsFor(SectorsIn(Got, e), n.items, e)
    BY <1>9, <2>2, <2>3, CsumLeaf DEF n
  <2>5. sectors = SectorsIn(Got, e)
    BY <1>5, <2>4 DEF Rising
  <2>6. Under(disk, Gen, q, read, n.owner, <<>>) /\ <<>> \in [DOMAIN q -> 1..Width(n.owner)]
    BY <2>1, NoLeaves
  <2>7. ASSUME clean PROVE n.owner = CSUM_TREE /\ \A j \in 1..Width(CSUM_TREE) : Has(sectors, j, e)
    <3>1. n.owner = CSUM_TREE /\ Width(CSUM_TREE) = 1
      BY <1>4, <2>1, <2>7
    <3>2. Beyond(<<>>, i)
      BY DEF Beyond
    <3>3. Has(sectors, i, e)
      BY <1>7, <2>3, <2>4, <3>1, <3>2, CsumLeafAdds
    <3> QED
      BY <3>1, <3>3
  <2>8. CsumSoFar(sectors, e, clean, n.owner, <<>>)
    BY <2>7 DEF CsumSoFar
  <2> QED
    BY <1>2, <2>2, <2>4, <2>5, <2>6, <2>8 DEF CsumWalk
<1>10. CASE Fine(Got) /\ ~AtLeaf(Got)
  <2>1. TopShape(disk, Gen, b, n) /\ n.owner \in Trees
    BY <1>2, <1>10 DEF NodeShape
  <2>2. PICK idx \in [DOMAIN q -> 1..Width(n.owner)] :
          /\ Under(disk, Gen, q, {b}, n.owner, idx)
          /\ \A x \in 1..Width(n.owner) : InRange(n.items, x, RangeKeys(e).lo, RangeKeys(e).hi) => x \in Range(idx)
    BY <1>2, <1>10
  <2>3. sectors = <<>>
    BY <1>5, <1>6, <1>10
  <2>4. ASSUME clean PROVE /\ n.owner = CSUM_TREE
                           /\ \A j \in 1..Width(CSUM_TREE) : j \in Range(idx) \/ Has(sectors, j, e)
    <3>1. n.owner = CSUM_TREE
      BY <1>4, <2>4
    <3>2. ASSUME NEW j \in 1..Width(CSUM_TREE), j \notin Range(idx) PROVE Has(sectors, j, e)
      <4>1. \A s \in e.chunk..(e.chunk + e.len - 1) : ~AlwaysHas(j, s)
        BY <2>1, <2>2, <3>1, <3>2, Pruned
      <4> QED
        BY <4>1 DEF Has
    <3> QED
      BY <3>1, <3>2
  <2>5. CsumSoFar(sectors, e, clean, n.owner, idx)
    BY <2>3, <2>4 DEF CsumSoFar, Beyond
  <2> QED
    BY <1>2, <1>3, <1>7, <2>1, <2>2, <2>3, <2>5 DEF CsumWalk
<1> QED
  BY <1>8, <1>9, <1>10

LEMMA CsumPopLeaf ==
    ASSUME StoreOK, map \subseteq Chunks, queue \in Seq(Refs), queue # <<>>, Rising(entries),
           NEW e \in Extent, NEW old \in BOOLEAN, CsumWalk(disk, Gen, queue, seen, entries, e, old),
           NEW q, q = Pop(queue, Got, RangeKeys(e).lo, RangeKeys(e).hi),
           NEW sectors, sectors = entries \o SectorsIn(Got, e), NEW read,
           read = (IF Top.exp = DontCheck THEN {} ELSE seen) \cup {Top.at},
           NEW clean \in BOOLEAN, clean => old /\ Fine(Got)
    PROVE  q \in Seq(Refs) /\ Rising(sectors) /\ CsumWalk(disk, Gen, q, read, sectors, e, clean)
<1> DEFINE n == Len(queue)
<1>1. PICK u \in Trees : \E idx \in [DOMAIN queue -> 1..Width(u)] :
         Leaves(u, idx) /\ CsumSoFar(entries, e, old, u, idx)
  BY DEF CsumWalk, Leaves
<1>2. PICK idx : Leaves(u, idx) /\ CsumSoFar(entries, e, old, u, idx)
  BY <1>1
<1> DEFINE rest == Without(idx, n)
<1>3. /\ Top.exp # DontCheck /\ Top.at \in Blocks
      /\ q \in Seq(Refs) /\ DOMAIN q = 1..(n - 1)
      /\ n \in Nat \ {0} /\ DOMAIN queue = 1..n /\ idx \in [1..n -> 1..Width(u)]
      /\ Under(disk, Gen, q, seen \cup {Top.at}, u, rest)
      /\ Fine(Got) => /\ AtLeaf(Got) /\ Got.node.owner = u
                      /\ MayHold(u, idx[n], Got.node.items)
  <2>1. LeafPopped(u, idx, q, n)
    BY <1>2, PopLeaf
  <2> QED
    BY <2>1 DEF LeafPopped
<1>4. Under(disk, Gen, q, read, u, rest)
  BY <1>3
<1>5. \A k \in 1..(n - 1) : k \in 1..n /\ rest[k] = idx[k] /\ rest[k] \in 1..Width(u) /\ idx[n] < rest[k]
  <2> SUFFICES ASSUME NEW k \in 1..(n - 1)
               PROVE  k \in 1..n /\ rest[k] = idx[k] /\ rest[k] \in 1..Width(u) /\ idx[n] < rest[k]
    OBVIOUS
  <2>1. k \in 1..n /\ n \in 1..n /\ k < n
    BY <1>3
  <2>2. idx[n] < idx[k]
    BY <1>2, <1>3, <2>1 DEF Leaves, Under
  <2> QED
    BY <1>3, <2>1, <2>2 DEF Without
<1>6. DOMAIN rest = 1..(n - 1) /\ rest \in [DOMAIN q -> 1..Width(u)] /\ n \in 1..n /\ idx[n] \in 1..Width(u)
  BY <1>3, <1>5 DEF Without
<1>7. \A j \in Range(idx) : j = idx[n] \/ j \in Range(rest)
  <2> SUFFICES ASSUME NEW k \in 1..n, k # n PROVE idx[k] \in Range(rest)
    BY <1>3 DEF Range
  <2>1. k \in 1..(n - 1)
    <3>1. n \in Nat
      BY <1>3
    <3> HIDE DEF n
    <3> QED
      BY <3>1
  <2> QED
    BY <1>5, <1>6, <2>1 DEF Range
<1> HIDE DEF n, rest
<1>8. CASE ~Fine(Got)
  <2>1. SectorsIn(Got, e) = <<>>
    BY <1>8, NoItems, SectorsNone DEF AtLeaf
  <2>2. sectors = entries /\ ~clean
    BY <1>8, <2>1 DEF Rising
  <2>3. CsumSoFar(sectors, e, clean, u, rest)
    BY <1>2, <1>3, <1>5, <1>6, <2>2 DEF CsumSoFar
  <2> QED
    BY <1>3, <1>4, <1>6, <2>2, <2>3 DEF CsumWalk
<1>9. CASE Fine(Got) /\ u # CSUM_TREE
  <2>1. SectorsIn(Got, e) = <<>>
    BY <1>3, <1>6, <1>9, CsumLeaf
  <2>2. sectors = entries /\ ~old /\ ~clean
    BY <1>2, <1>9, <2>1 DEF Rising, CsumSoFar
  <2>3. CsumSoFar(sectors, e, clean, u, rest)
    BY <1>9, <2>2 DEF CsumSoFar
  <2> QED
    BY <1>3, <1>4, <1>6, <2>2, <2>3 DEF CsumWalk
<1>10. CASE Fine(Got) /\ u = CSUM_TREE
  <2> DEFINE its == Got.node.items
             more == SectorsIn(Got, e)
  <2>1. MayHold(CSUM_TREE, idx[n], its) /\ idx[n] \in 1..Width(CSUM_TREE)
    BY <1>3, <1>6, <1>10
  <2>2. Rising(more) /\ SectorsFor(more, its, e)
    BY <1>3, <1>6, <1>10, CsumLeaf
  <2>3. \A k \in 1..n : Beyond(entries, idx[k])
    BY <1>2, <1>3, <1>10 DEF CsumSoFar
  <2>4. /\ Rising(entries \o more) /\ Has(entries \o more, idx[n], e)
        /\ \A j \in 1..Width(CSUM_TREE) : Has(entries, j, e) => Has(entries \o more, j, e)
        /\ \A j \in 1..Width(CSUM_TREE) : idx[n] < j /\ Beyond(entries, j) => Beyond(entries \o more, j)
    BY <1>6, <2>1, <2>2, <2>3, CsumLeafAdds
  <2> HIDE DEF its, more
  <2>5. /\ Rising(sectors) /\ Has(sectors, idx[n], e)
        /\ \A j \in 1..Width(CSUM_TREE) : Has(entries, j, e) => Has(sectors, j, e)
        /\ \A j \in 1..Width(CSUM_TREE) : idx[n] < j /\ Beyond(entries, j) => Beyond(sectors, j)
    BY <2>4 DEF more
  <2>6. \A k \in DOMAIN rest : Beyond(sectors, rest[k])
    <3> SUFFICES ASSUME NEW k \in 1..(n - 1) PROVE Beyond(sectors, rest[k])
      BY <1>6
    <3>1. rest[k] \in 1..Width(CSUM_TREE) /\ idx[n] < rest[k] /\ Beyond(entries, rest[k])
      BY <1>5, <1>10, <2>3
    <3> QED
      BY <2>5, <3>1
  <2>7. ASSUME clean, NEW j \in 1..Width(CSUM_TREE) PROVE j \in Range(rest) \/ Has(sectors, j, e)
    <3>1. j \in Range(idx) \/ Has(entries, j, e)
      BY <1>2, <2>7 DEF CsumSoFar
    <3> QED
      BY <1>7, <2>5, <3>1
  <2>8. CsumSoFar(sectors, e, clean, u, rest)
    BY <1>10, <2>6, <2>7 DEF CsumSoFar
  <2> QED
    BY <1>3, <1>4, <1>6, <2>5, <2>8 DEF CsumWalk
<1> QED
  BY <1>8, <1>9, <1>10

-----------------------------------------------------------------------------
(* The steps of open.                                                      *)

LEMMA CleanKept == ASSUME UNCHANGED <<cnt, missed>> PROVE Clean' = Clean
  BY DEF Clean

LEMMA OpenFails ==
    ASSUME SInv, Fail, queue = <<>>, pc \in {"super", "chunk", "root"}, UNCHANGED storeVars
    PROVE  SInv'
<1>1. /\ pc' = "failed"
      /\ UNCHANGED <<shape, sb, map, queue, found, roots, extents, entries, ext, emitted, cnt,
                     reported, seen, missed>>
  BY DEF Fail, walkVars
<1>2. StoreOK'
  BY StoreKept DEF SInv
<1>3. QueueOK'
  BY <1>1 DEF SInv, QueueOK
<1>4. CountsOK'
  BY <1>1 DEF SInv, CountsOK
<1>5. OpenOK'
  BY <1>1 DEF SInv, OpenOK
<1>6. ExtentsOK'
  BY <1>1 DEF SInv, ExtentsOK
<1>7. EmittedOK'
  BY <1>1 DEF SInv, EmittedOK
<1> QED
  BY <1>2, <1>3, <1>4, <1>5, <1>6, <1>7 DEF SInv

LEMMA StepReadSuper == ASSUME SInv, ReadSuper PROVE SInv'
<1>1. pc = "super" /\ UNCHANGED storeVars /\ queue = <<>>
  BY DEF ReadSuper, SInv, QueueOK
<1>2. CASE GoodSupers = {} \/ shape \in {"multi", "short", "hash"}
  BY <1>1, <1>2, OpenFails DEF ReadSuper
<1>3. CASE ~(GoodSupers = {} \/ shape \in {"multi", "short", "hash"})
  <2>1. /\ sb' = read_superblock
        /\ cnt' = [cnt EXCEPT !["mirror"] = IF 1 \in GoodSupers THEN 0 ELSE 1]
        /\ map' = SysChunks
        /\ queue' = <<Ref(ChunkRoot, DontCheck)>>
        /\ pc' = "chunk"
        /\ UNCHANGED <<shape, found, roots, extents, entries, ext, emitted, reported, seen, missed>>
    BY <1>3 DEF ReadSuper
  <2>2. StoreOK'
    BY <1>1, StoreKept DEF SInv
  <2>3. sb'.root \in Blocks
    <3>1. SupersOK
      BY DEF SInv, StoreOK
    <3>2. GoodSupers \in SUBSET Nat
      BY <3>1 DEF SupersOK, GoodSupers
    <3>3. Min(GoodSupers) \in GoodSupers
      BY <1>3, <3>2, MinIn
    <3> QED
      BY <2>1, <3>1, <3>3 DEF SupersOK, GoodSupers, read_superblock
  <2>4. QueueOK'
    <3>1. Ref(ChunkRoot, DontCheck) \in Refs
      BY DEF Ref, Refs, DontCheck
    <3>2. queue' \in Seq(Refs)
      BY <2>1, <3>1
    <3> QED
      BY <2>1, <3>2 DEF QueueOK, Starts
  <2>5. CountsOK'
    <3>1. cnt \in [Counters -> Nat] /\ missed \in BOOLEAN
      BY DEF SInv, CountsOK
    <3>2. cnt' \in [Counters -> Nat]
      BY <2>1, <3>1
    <3>3. \A c \in Counters : reported'[c] = {}
      BY <1>1, <2>1 DEF SInv, OpenOK
    <3>4. \A c \in Counters : IsFiniteSet(reported'[c]) /\ Cardinality(reported'[c]) = 0
      BY <3>3, FS_EmptySet
    <3>5. \A c \in Counters : Cardinality(reported'[c]) <= cnt'[c]
      BY <3>2, <3>4
    <3> QED
      BY <2>1, <3>1, <3>2, <3>4, <3>5 DEF CountsOK
  <2>6. OpenOK'
    BY <2>1, <2>3, ScanAssumption DEF SInv, OpenOK
  <2>7. ExtentsOK'
    BY <1>1, <2>1 DEF SInv, ExtentsOK
  <2>8. EmittedOK'
    BY <1>1, <2>1 DEF SInv, EmittedOK
  <2> QED
    BY <2>2, <2>4, <2>5, <2>6, <2>7, <2>8 DEF SInv
<1> QED
  BY <1>2, <1>3

LEMMA StepWalkChunkTree == ASSUME SInv, WalkChunkTree PROVE SInv'
<1>1. /\ pc = "chunk" /\ queue # <<>>
      /\ OpenWalk(CHUNK_TREE, Got)
      /\ found' = found \cup {it.val : it \in ItemsOf(Got, CHUNK_ITEM)}
      /\ UNCHANGED <<storeVars, shape, pc, sb, map, roots, extents, entries, ext, emitted, reported>>
  BY DEF WalkChunkTree
<1>2. queue' = Pop(queue, Got, MinKey, MaxKey) /\ CountAtOpen(Got) /\ Note(Got, CHUNK_TREE, TRUE)
  BY <1>1 DEF OpenWalk
<1>3. queue = <<Ref(ChunkRoot, DontCheck)>>
  BY <1>1 DEF SInv, QueueOK, Starts
<1>4. Top = Ref(ChunkRoot, DontCheck) /\ Front(queue) = <<>>
  BY <1>3 DEF Top, Last, Front
<1>5. Got = read_node(map, ChunkRoot, DontCheck)
  BY <1>4 DEF Got, Ref
<1>6. Fine(Got) => Got.node = ChunkNode /\ AtLeaf(Got)
  <2> SUFFICES ASSUME Fine(Got) PROVE Got.node = ChunkNode /\ AtLeaf(Got)
    OBVIOUS
  <2>1. Got.node = ChunkNode
    BY <1>5, ReadsChunk DEF SInv, OpenOK
  <2> QED
    BY <2>1 DEF AtLeaf, ChunkNode, Node
<1>7. queue' = <<>>
  <2>1. queue' = <<>> \o <<>>
    BY <1>2, <1>4, <1>6 DEF Pop
  <2> QED
    BY <2>1
<1>8. CountsOK' /\ (Clean' => Clean /\ Fine(Got))
  BY <1>1, <1>2, CountedAtOpen DEF SInv
<1>9. found' \subseteq Chunks /\ (Fine(Got) => found' = Chunks)
  <2>1. found \subseteq Chunks
    BY DEF SInv, OpenOK
  <2>2. CASE Fine(Got)
    <3>1. {it.val : it \in ItemsOf(Got, CHUNK_ITEM)} = Chunks
      BY <1>6, <2>2, ChunksFound
    <3> QED
      BY <1>1, <2>1, <3>1
  <2>3. CASE ~Fine(Got)
    <3>1. ItemsOf(Got, CHUNK_ITEM) = {}
      BY <2>3 DEF ItemsOf, AtLeaf
    <3> QED
      BY <1>1, <2>1, <2>3, <3>1
  <2> QED
    BY <2>2, <2>3
<1>10. StoreOK'
  BY <1>1, StoreKept DEF SInv
<1>11. QueueOK'
  BY <1>1, <1>7 DEF QueueOK
<1>12. OpenOK'
  BY <1>1, <1>8, <1>9 DEF SInv, OpenOK
<1>13. ExtentsOK'
  BY <1>1 DEF SInv, ExtentsOK
<1>14. EmittedOK'
  BY <1>1 DEF SInv, EmittedOK
<1> QED
  BY <1>8, <1>10, <1>11, <1>12, <1>13, <1>14 DEF SInv

LEMMA StepChunksKnown == ASSUME SInv, ChunksKnown PROVE SInv'
<1>1. pc = "chunk" /\ UNCHANGED storeVars /\ queue = <<>>
  BY DEF ChunksKnown
<1>2. CASE ~validate_data_profiles(map \cup found)
  BY <1>1, <1>2, OpenFails DEF ChunksKnown
<1>3. CASE validate_data_profiles(map \cup found)
  <2>1. /\ map' = map \cup found
        /\ queue' = <<Ref(sb.root, DontCheck)>>
        /\ pc' = "root"
        /\ UNCHANGED <<shape, sb, found, roots, extents, entries, ext, emitted, cnt, reported, seen,
                       missed>>
    BY <1>3 DEF ChunksKnown
  <2>2. StoreOK'
    BY <1>1, StoreKept DEF SInv
  <2>3. sb.root \in Blocks /\ map \subseteq Chunks /\ found \subseteq Chunks
    BY DEF SInv, OpenOK
  <2>4. QueueOK'
    <3>1. Ref(sb.root, DontCheck) \in Refs
      BY <2>3 DEF Ref, Refs, DontCheck
    <3>2. queue' \in Seq(Refs)
      BY <2>1, <3>1
    <3>3. Atop'
      BY <2>1, <2>3 DEF Atop, Starts
    <3> QED
      BY <2>1, <3>2, <3>3 DEF QueueOK
  <2>5. CountsOK'
    BY <2>1 DEF SInv, CountsOK
  <2>6. Clean' = Clean
    BY <2>1, CleanKept
  <2>7. Clean => map' = Chunks
    BY <1>1, <2>1, <2>3 DEF SInv, OpenOK
  <2>8. OpenOK'
    BY <2>1, <2>3, <2>6, <2>7 DEF SInv, OpenOK
  <2>9. ExtentsOK'
    BY <1>1, <2>1 DEF SInv, ExtentsOK
  <2>10. EmittedOK'
    BY <1>1, <2>1 DEF SInv, EmittedOK
  <2> QED
    BY <2>2, <2>4, <2>5, <2>8, <2>9, <2>10 DEF SInv
<1> QED
  BY <1>2, <1>3

(* The walk of the root tree: what is read is some node of some tree.      *)
LEMMA StepWalkRootTree == ASSUME SInv, WalkRootTree PROVE SInv'
<1> DEFINE its   == ItemsOf(Got, ROOT_ITEM)
           ids   == {it.key[1] : it \in its}
           at(t) == (CHOOSE it \in its : it.key[1] = t).val
<1>1. /\ pc = "root" /\ queue # <<>>
      /\ OpenWalk(ROOT_TREE, Got)
      /\ roots' = [t \in DOMAIN roots |-> IF t \in ids THEN {at(t)} ELSE roots[t]]
      /\ UNCHANGED <<storeVars, shape, pc, sb, map, found, extents, entries, ext, emitted, reported>>
  BY DEF WalkRootTree
<1>2. /\ queue' = Pop(queue, Got, MinKey, MaxKey) /\ CountAtOpen(Got) /\ Note(Got, ROOT_TREE, TRUE)
      /\ seen' = (IF Top.exp = DontCheck THEN {} ELSE seen) \cup {Top.at}
  BY <1>1 DEF OpenWalk, Note
<1>3. StoreOK /\ map \subseteq Chunks /\ queue \in Seq(Refs)
  BY DEF SInv, OpenOK, QueueOK
<1>4. StoreOK' /\ Gen' = Gen /\ disk' = disk
  BY <1>1, <1>3, StoreKept
<1> DEFINE Leafy == AtLeaf(Got) => \E u \in Trees : \E i \in 1..Width(u) : MayHold(u, i, Got.node.items)
<1>5. queue' \in Seq(Refs) /\ RootWalk(disk, Gen, queue', seen') /\ Leafy
  <2>1. CASE Atop
    <3>1. PICK b \in Blocks : Starts(b)
      BY <2>1 DEF Atop
    <3> DEFINE n == Got.node
    <3>2. RootPopped(b, n, queue', MinKey, MaxKey)
      BY <1>2, <1>3, <3>1, PopRoot
    <3>3. Top.exp = DontCheck /\ seen' = {b} /\ queue' \in Seq(Refs)
      BY <1>2, <3>2 DEF RootPopped, Ref
    <3>4. CASE ~Fine(Got) \/ AtLeaf(Got)
      <4>1. queue' = <<>>
        BY <3>2, <3>4 DEF RootPopped
      <4>2. Under(disk, Gen, queue', seen', ROOT_TREE, <<>>) /\ <<>> \in [DOMAIN queue' -> 1..Width(ROOT_TREE)]
        BY <4>1, NoLeaves
      <4>3. Leafy
        <5> SUFFICES ASSUME AtLeaf(Got)
                     PROVE  \E u \in Trees : \E i \in 1..Width(u) : MayHold(u, i, Got.node.items)
          OBVIOUS
        <5>1. NodeShape(disk, Gen, b, n) /\ n.level = 0
          BY <3>2 DEF RootPopped, AtLeaf
        <5> QED
          BY <5>1 DEF NodeShape, LeafShape, TopShape
      <4> QED
        BY <3>3, <4>2, <4>3, TreesAre DEF RootWalk
    <3>5. CASE Fine(Got) /\ ~AtLeaf(Got)
      BY <3>2, <3>3, <3>5 DEF RootPopped, RootWalk, NodeShape
    <3> QED
      BY <3>4, <3>5
  <2>2. CASE RootWalk(disk, Gen, queue, seen)
    <3>1. PICK u \in Trees : \E idx \in [DOMAIN queue -> 1..Width(u)] : Leaves(u, idx)
      BY <2>2 DEF RootWalk, Leaves
    <3>2. PICK idx : Leaves(u, idx)
      BY <3>1
    <3> DEFINE n == Len(queue)
    <3>3. LeafPopped(u, idx, queue', n)
      BY <1>1, <1>2, <1>3, <3>2, PopLeaf
    <3>4. seen' = seen \cup {Top.at}
      BY <1>2, <3>3 DEF LeafPopped
    <3>5. Under(disk, Gen, queue', seen', u, Without(idx, n)) /\ queue' \in Seq(Refs)
      BY <3>3, <3>4 DEF LeafPopped
    <3>6. Without(idx, n) \in [DOMAIN queue' -> 1..Width(u)]
      BY <3>5 DEF Under
    <3>7. AtLeaf(Got) => idx[n] \in 1..Width(u) /\ MayHold(u, idx[n], Got.node.items)
      BY <3>3 DEF LeafPopped, AtLeaf
    <3> QED
      BY <3>5, <3>6, <3>7 DEF RootWalk
  <2> QED
    BY <1>1, <2>1, <2>2 DEF SInv, QueueOK
<1>6. CountsOK' /\ (Clean' => Clean)
  BY <1>1, <1>2, CountedAtOpen DEF SInv
<1>7. /\ DOMAIN roots = {FS_TREE, CSUM_TREE, DEV_TREE}
      /\ \A t \in DOMAIN roots : roots[t] = {} \/ \E b \in Blocks \cup {0} : roots[t] = {b}
      /\ \A t \in {CSUM_TREE, DEV_TREE} : roots[t] \subseteq Blocks
  BY DEF SInv, OpenOK
<1>8. \A it \in its : it.val \in Blocks \cup {0} /\ (it.key[1] \in DOMAIN Contents => it.val \in Blocks)
  <2> SUFFICES ASSUME NEW it \in its
               PROVE  it.val \in Blocks \cup {0} /\ (it.key[1] \in DOMAIN Contents => it.val \in Blocks)
    OBVIOUS
  <2>1. AtLeaf(Got)
    BY DEF ItemsOf
  <2> QED
    BY <1>5, <2>1, RootsFound
<1> HIDE DEF its, Leafy
<1>9. ASSUME NEW t \in ids
      PROVE  at(t) \in Blocks \cup {0} /\ (t \in DOMAIN Contents => at(t) \in Blocks)
  <2>1. \E it \in its : it.key[1] = t
    OBVIOUS
  <2>2. PICK it \in its : it.key[1] = t /\ at(t) = it.val
    BY <2>1
  <2> QED
    BY <1>8, <2>2
<1> HIDE DEF ids, at
<1>10. /\ DOMAIN roots' = {FS_TREE, CSUM_TREE, DEV_TREE}
       /\ \A t \in DOMAIN roots' : roots'[t] = {} \/ \E b \in Blocks \cup {0} : roots'[t] = {b}
       /\ \A t \in {CSUM_TREE, DEV_TREE} : roots'[t] \subseteq Blocks
  <2>1. DOMAIN roots' = DOMAIN roots
        /\ \A t \in DOMAIN roots : roots'[t] = IF t \in ids THEN {at(t)} ELSE roots[t]
    BY <1>1
  <2>2. \A t \in {CSUM_TREE, DEV_TREE} : t \in DOMAIN roots /\ t \in DOMAIN Contents
    BY <1>7, TreesAre
  <2> QED
    BY <1>7, <1>9, <2>1, <2>2
<1>11. QueueOK'
  BY <1>1, <1>4, <1>5 DEF QueueOK
<1>12. OpenOK'
  BY <1>1, <1>6, <1>10 DEF SInv, OpenOK
<1>13. ExtentsOK'
  BY <1>1 DEF SInv, ExtentsOK
<1>14. EmittedOK'
  BY <1>1 DEF SInv, EmittedOK
<1> QED
  BY <1>4, <1>6, <1>11, <1>12, <1>13, <1>14 DEF SInv

(* A walk below a tree whose root is known, or none.                       *)
LEMMA RootRefIs ==
    ASSUME SInv, NEW t \in {CSUM_TREE, DEV_TREE}, NEW q, q = RootRef(t)
    PROVE  \/ roots[t] = {} /\ q = <<>>
           \/ roots[t] # {} /\ q \in Seq(Refs) /\ \E b \in Blocks : q = <<Ref(b, DontCheck)>>
<1>1. roots[t] = {} \/ \E b \in Blocks : roots[t] = {b}
  <2>1. /\ DOMAIN roots = {FS_TREE, CSUM_TREE, DEV_TREE}
        /\ \A x \in DOMAIN roots : roots[x] = {} \/ \E b \in Blocks \cup {0} : roots[x] = {b}
        /\ \A x \in {CSUM_TREE, DEV_TREE} : roots[x] \subseteq Blocks
    BY DEF SInv, OpenOK
  <2> QED
    BY <2>1
<1>2. CASE roots[t] = {}
  BY <1>2 DEF RootRef
<1>3. ASSUME NEW b \in Blocks, roots[t] = {b}
      PROVE  roots[t] # {} /\ q \in Seq(Refs) /\ q = <<Ref(b, DontCheck)>>
  <2>1. b \in Int /\ b >= b
    BY StoreAssumption
  <2>2. Max({b}) = b
    BY <2>1 DEF Max
  <2>3. Ref(b, DontCheck) \in Refs
    BY DEF Ref, Refs, DontCheck
  <2>4. roots[t] # {}
    BY <1>3
  <2>5. Max(roots[t]) = b
    BY <1>3, <2>2
  <2>6. q = <<Ref(b, DontCheck)>>
    BY <2>4, <2>5 DEF RootRef
  <2> QED
    BY <2>3, <2>4, <2>6
<1> QED
  BY <1>1, <1>2, <1>3

LEMMA StepRootsKnown == ASSUME SInv, RootsKnown PROVE SInv'
<1>1. pc = "root" /\ UNCHANGED storeVars /\ queue = <<>>
  BY DEF RootsKnown
<1>2. CASE roots[FS_TREE] = {} \/ roots[CSUM_TREE] = {}
  BY <1>1, <1>2, OpenFails DEF RootsKnown
<1>3. CASE ~(roots[FS_TREE] = {} \/ roots[CSUM_TREE] = {})
  <2>1. /\ cnt' = [cnt EXCEPT !["header"] = IF roots[DEV_TREE] = {} THEN @ + 1 ELSE @]
        /\ queue' = RootRef(DEV_TREE)
        /\ pc' = "dev"
        /\ UNCHANGED <<shape, sb, map, found, roots, extents, entries, ext, emitted, reported, seen,
                       missed>>
    BY <1>3 DEF RootsKnown
  <2>2. StoreOK' /\ Gen' = Gen /\ disk' = disk
    BY <1>1, StoreKept DEF SInv
  <2>3. cnt \in [Counters -> Nat] /\ missed \in BOOLEAN /\ {"header", "read", "stale"} \subseteq Counters
    BY DEF SInv, CountsOK, Counters
  <2>4. /\ cnt' \in [Counters -> Nat]
        /\ \A c \in Counters : cnt[c] <= cnt'[c]
        /\ roots[DEV_TREE] = {} => cnt'["header"] # 0
    BY <2>1, <2>3
  <2>5. CountsOK'
    <3>1. ASSUME NEW c \in Counters
          PROVE  IsFiniteSet(reported[c]) /\ Cardinality(reported[c]) <= cnt'[c]
      <4>1. IsFiniteSet(reported[c]) /\ Cardinality(reported[c]) <= cnt[c]
        BY DEF SInv, CountsOK
      <4>2. Cardinality(reported[c]) \in Nat
        BY <4>1, FS_CardinalityType
      <4>3. cnt[c] \in Nat /\ cnt'[c] \in Nat /\ cnt[c] <= cnt'[c]
        BY <2>3, <2>4
      <4> QED
        BY <4>1, <4>2, <4>3
    <3> QED
      BY <2>1, <2>3, <2>4, <3>1 DEF CountsOK
  <2>6. Clean' => Clean /\ roots[DEV_TREE] # {}
    <3> SUFFICES ASSUME Clean' PROVE Clean /\ roots[DEV_TREE] # {}
      OBVIOUS
    <3>1. ~missed' /\ cnt'["header"] = 0 /\ cnt'["read"] = 0 /\ cnt'["stale"] = 0
      BY DEF Clean
    <3>2. cnt["header"] = 0 /\ cnt["read"] = 0 /\ cnt["stale"] = 0
      BY <2>3, <2>4, <3>1
    <3> QED
      BY <2>1, <2>4, <3>1, <3>2 DEF Clean
  <2>7. extents = <<>>
    BY <1>1 DEF SInv, ExtentsOK
  <2>8. QueueOK'
    <3>1. CASE roots[DEV_TREE] = {}
      <4>1. queue' = <<>> /\ ~Clean'
        BY <2>1, <2>6, <3>1, RootRefIs
      <4>2. Under(disk', Gen', queue', seen', DEV_TREE, <<>>) /\ <<>> \in [DOMAIN queue' -> 1..Width(DEV_TREE)]
        BY <4>1, NoLeaves
      <4>3. DevSoFar(extents', Clean', DEV_TREE, <<>>)
        BY <4>1 DEF DevSoFar
      <4>4. DevWalk(disk', Gen', queue', seen', extents', Clean')
        BY <4>2, <4>3, TreesAre DEF DevWalk
      <4> QED
        BY <2>1, <4>1, <4>4 DEF QueueOK
    <3>2. CASE roots[DEV_TREE] # {}
      <4>1. queue' \in Seq(Refs) /\ Atop'
        BY <2>1, <3>2, RootRefIs DEF Atop, Starts
      <4> QED
        BY <2>1, <2>7, <4>1 DEF QueueOK
    <3> QED
      BY <3>1, <3>2
  <2>9. OpenOK'
    BY <1>1, <1>3, <2>1, <2>6 DEF SInv, OpenOK
  <2>10. ExtentsOK'
    BY <1>1, <2>1 DEF SInv, ExtentsOK
  <2>11. EmittedOK'
    BY <1>1, <2>1 DEF SInv, EmittedOK
  <2> QED
    BY <2>2, <2>5, <2>8, <2>9, <2>10, <2>11 DEF SInv
<1> QED
  BY <1>2, <1>3

LEMMA StepWalkDevTree == ASSUME SInv, WalkDevTree PROVE SInv'
<1>1. /\ pc = "dev" /\ queue # <<>>
      /\ OpenWalk(DEV_TREE, Got)
      /\ extents' = extents \o DevExtents(Got)
      /\ UNCHANGED <<storeVars, shape, pc, sb, map, found, roots, entries, ext, emitted, reported>>
  BY DEF WalkDevTree
<1>2. /\ queue' = Pop(queue, Got, MinKey, MaxKey) /\ CountAtOpen(Got) /\ Note(Got, DEV_TREE, TRUE)
      /\ seen' = (IF Top.exp = DontCheck THEN {} ELSE seen) \cup {Top.at}
  BY <1>1 DEF OpenWalk, Note
<1>3. StoreOK /\ map \subseteq Chunks /\ queue \in Seq(Refs) /\ InPlace(extents)
  BY DEF SInv, OpenOK, QueueOK, ExtentsOK
<1>4. StoreOK' /\ Gen' = Gen /\ disk' = disk
  BY <1>1, <1>3, StoreKept
<1>5. CountsOK' /\ (Clean' => Clean /\ Fine(Got) /\ ~NotTheRoot(Got, DEV_TREE))
  BY <1>1, <1>2, CountedAtOpen DEF SInv
<1>6. Clean \in BOOLEAN /\ Clean' \in BOOLEAN
  BY DEF Clean
<1>7. queue' \in Seq(Refs) /\ InPlace(extents') /\ DevWalk(disk, Gen, queue', seen', extents', Clean')
  <2>1. CASE Atop /\ extents = <<>>
    BY <1>1, <1>2, <1>3, <1>5, <1>6, <2>1, DevPopRoot
  <2>2. CASE DevWalk(disk, Gen, queue, seen, extents, Clean)
    BY <1>1, <1>2, <1>3, <1>5, <1>6, <2>2, DevPopLeaf
  <2> QED
    BY <1>1, <2>1, <2>2 DEF SInv, QueueOK
<1>8. QueueOK'
  BY <1>1, <1>4, <1>7 DEF QueueOK
<1>9. OpenOK'
  BY <1>1, <1>5 DEF SInv, OpenOK
<1>10. ExtentsOK'
  BY <1>1, <1>7 DEF SInv, ExtentsOK
<1>11. EmittedOK'
  BY <1>1 DEF SInv, EmittedOK
<1> QED
  BY <1>4, <1>5, <1>8, <1>9, <1>10, <1>11 DEF SInv

-----------------------------------------------------------------------------
(* The loop over the extents.                                              *)

(* The extents that are passed over are not data.                          *)
LEMMA Started ==
    ASSUME SInv, pc \in {"dev", "csum"}, NEW i \in 1..(Len(extents) + 1), StartExtent(i),
           UNCHANGED <<extents, roots>>
    PROVE  /\ QueueOK' /\ Rising(entries')
           /\ ext' \in i..(Len(extents) + 1)
           /\ \A j \in i..Len(extents) : j < ext' => ~IsData(extents[j])
           /\ \/ pc' = "done" /\ ext' = Len(extents) + 1
              \/ pc' = "csum" /\ ext' \in DOMAIN extents
<1>1. /\ ext' = NextExtent(i)
      /\ entries' = <<>>
      /\ queue' = IF ext' > Len(extents) THEN <<>> ELSE RootRef(CSUM_TREE)
      /\ pc' = IF ext' > Len(extents) THEN "done" ELSE "csum"
  BY DEF StartExtent
<1>2. Len(extents) \in Nat /\ DOMAIN extents = 1..Len(extents)
  BY DEF SInv, ExtentsOK, InPlace
<1>3. ext' \in i..(Len(extents) + 1) /\ \A j \in i..Len(extents) : j < ext' => ~IsData(extents[j])
  BY <1>1, <1>2, NextIs
<1>4. Rising(entries')
  BY <1>1 DEF Rising
<1>5. CASE ext' > Len(extents)
  <2>1. pc' = "done" /\ queue' = <<>> /\ ext' = Len(extents) + 1
    BY <1>1, <1>2, <1>3, <1>5
  <2>2. QueueOK'
    BY <2>1 DEF QueueOK
  <2> QED
    BY <1>3, <1>4, <2>1, <2>2
<1>6. CASE ~(ext' > Len(extents))
  <2>1. pc' = "csum" /\ queue' = RootRef(CSUM_TREE)
    BY <1>1, <1>6
  <2>2. ext' \in DOMAIN extents
    BY <1>2, <1>3, <1>6
  <2>3. roots[CSUM_TREE] # {}
    BY DEF SInv, OpenOK
  <2>4. queue' \in Seq(Refs) /\ Atop'
    BY <2>1, <2>3, RootRefIs DEF Atop, Starts
  <2>5. QueueOK'
    BY <1>1, <2>1, <2>4 DEF QueueOK
  <2> QED
    BY <1>3, <1>4, <2>1, <2>2, <2>5
<1> QED
  BY <1>5, <1>6

LEMMA StepExtentsKnown == ASSUME SInv, ExtentsKnown PROVE SInv'
<1>1. /\ pc = "dev" /\ queue = <<>> /\ StartExtent(1)
      /\ emitted' = [i \in DOMAIN extents |-> <<>>]
      /\ UNCHANGED <<storeVars, shape, sb, map, found, roots, extents, cnt, reported, seen, missed>>
  BY DEF ExtentsKnown
<1>2. StoreOK' /\ Gen' = Gen /\ disk' = disk
  BY <1>1, StoreKept DEF SInv
<1>3. Len(extents) \in Nat /\ DOMAIN extents = 1..Len(extents) /\ 1 \in 1..(Len(extents) + 1)
  BY DEF SInv, ExtentsOK, InPlace
<1>4. /\ QueueOK' /\ Rising(entries')
      /\ ext' \in 1..(Len(extents) + 1)
      /\ \A j \in 1..Len(extents) : j < ext' => ~IsData(extents[j])
      /\ \/ pc' = "done" /\ ext' = Len(extents) + 1
         \/ pc' = "csum" /\ ext' \in DOMAIN extents
  BY <1>1, <1>3, Started
<1>5. Clean' = Clean
  BY <1>1, CleanKept
<1>6. CountsOK'
  BY <1>1 DEF SInv, CountsOK
<1>7. OpenOK'
  BY <1>1, <1>4, <1>5 DEF SInv, OpenOK
<1>8. Clean => \A i \in 1..Width(DEV_TREE) : Listed(extents, i)
  <2>1. ~Atop
    BY <1>1 DEF Atop, Starts
  <2>2. DevWalk(disk, Gen, queue, seen, extents, Clean)
    BY <1>1, <2>1 DEF SInv, QueueOK
  <2>3. PICK u \in Trees : \E idx \in [DOMAIN queue -> 1..Width(u)] : DevSoFar(extents, Clean, u, idx)
    BY <2>2 DEF DevWalk
  <2>4. PICK idx \in [DOMAIN queue -> 1..Width(u)] : DevSoFar(extents, Clean, u, idx)
    BY <2>3
  <2>5. Range(idx) = {}
    BY <1>1 DEF Range
  <2> QED
    BY <2>4, <2>5 DEF DevSoFar
<1>9. ExtentsOK'
  BY <1>1, <1>4, <1>5, <1>8 DEF SInv, ExtentsOK
<1>10. EmittedOK'
  <2>1. DOMAIN emitted' = DOMAIN extents /\ \A i \in DOMAIN extents : emitted'[i] = <<>>
    BY <1>1
  <2>2. Rising(<<>>)
    BY DEF Rising
  <2>3. \A i \in DOMAIN extents : i < ext' => ~IsData(extents[i])
    BY <1>3, <1>4
  <2>4. \A i \in DOMAIN extents : IsData(extents[i])' <=> IsData(extents[i])
    BY <1>1 DEF IsData
  <2> QED
    BY <1>1, <1>4, <2>1, <2>2, <2>3, <2>4 DEF EmittedOK
<1> QED
  BY <1>2, <1>4, <1>6, <1>7, <1>9, <1>10 DEF SInv

LEMMA StepWalkCsumTree == ASSUME SInv, WalkCsumTree PROVE SInv'
<1> DEFINE e == extents[ext]
<1>1. /\ pc = "csum" /\ queue # <<>>
      /\ queue' = Pop(queue, Got, RangeKeys(e).lo, RangeKeys(e).hi)
      /\ entries' = entries \o SectorsIn(Got, e)
      /\ CountOnce(Got)
      /\ Note(Got, CSUM_TREE, FALSE)
      /\ UNCHANGED <<storeVars, shape, pc, sb, map, found, roots, extents, ext, emitted>>
  BY DEF WalkCsumTree
<1>2. seen' = (IF Top.exp = DontCheck THEN {} ELSE seen) \cup {Top.at}
  BY <1>1 DEF Note
<1>3. StoreOK /\ map \subseteq Chunks /\ queue \in Seq(Refs) /\ Rising(entries)
  BY DEF SInv, OpenOK, QueueOK, EmittedOK
<1>4. StoreOK' /\ Gen' = Gen /\ disk' = disk
  BY <1>1, <1>3, StoreKept
<1>5. CountsOK' /\ (Clean' => Clean /\ Fine(Got) /\ ~NotTheRoot(Got, CSUM_TREE))
  BY <1>1, CountedOnce DEF SInv
<1>6. Clean \in BOOLEAN /\ Clean' \in BOOLEAN
  BY DEF Clean
<1>7. e \in Extent
  <2>1. ext \in DOMAIN extents /\ extents \in Seq(Extent)
    BY <1>1 DEF SInv, EmittedOK, ExtentsOK, InPlace
  <2> QED
    BY <2>1
<1> HIDE DEF e
<1>8. queue' \in Seq(Refs) /\ Rising(entries') /\ CsumWalk(disk, Gen, queue', seen', entries', e, Clean')
  <2>1. CASE Atop /\ entries = <<>>
    BY <1>1, <1>2, <1>3, <1>5, <1>6, <1>7, <2>1, CsumPopRoot
  <2>2. CASE CsumWalk(disk, Gen, queue, seen, entries, e, Clean)
    <3>1. /\ queue # <<>> /\ queue' = Pop(queue, Got, RangeKeys(e).lo, RangeKeys(e).hi)
          /\ entries' = entries \o SectorsIn(Got, e) /\ (Clean' => Clean /\ Fine(Got))
      BY <1>1, <1>5
    <3> QED
      BY <1>2, <1>3, <1>6, <1>7, <2>2, <3>1, CsumPopLeaf, ZenonT(60)
  <2> QED
    BY <1>1, <2>1, <2>2 DEF SInv, QueueOK, e
<1>9. QueueOK'
  BY <1>1, <1>4, <1>8 DEF QueueOK, e
<1>10. OpenOK'
  BY <1>1, <1>5 DEF SInv, OpenOK
<1>11. ExtentsOK'
  BY <1>1, <1>5 DEF SInv, ExtentsOK
<1>12. EmittedOK'
  <2>1. \A x : IsData(x)' <=> IsData(x)
    BY <1>1 DEF IsData
  <2> QED
    BY <1>1, <1>5, <1>8, <2>1 DEF SInv, EmittedOK
<1> QED
  BY <1>4, <1>5, <1>9, <1>10, <1>11, <1>12 DEF SInv

LEMMA StepRangeDone == ASSUME SInv, RangeDone PROVE SInv'
<1>1. /\ pc = "csum" /\ queue = <<>>
      /\ emitted' = [emitted EXCEPT ![ext] = Sorted(entries)]
      /\ StartExtent(ext + 1)
      /\ UNCHANGED <<storeVars, shape, sb, map, found, roots, extents, cnt, reported, seen, missed>>
  BY DEF RangeDone
<1>2. StoreOK' /\ Gen' = Gen /\ disk' = disk
  BY <1>1, StoreKept DEF SInv
<1>3. Len(extents) \in Nat /\ DOMAIN extents = 1..Len(extents) /\ ext \in 1..Len(extents)
  <2>1. Len(extents) \in Nat /\ DOMAIN extents = 1..Len(extents)
    BY DEF SInv, ExtentsOK, InPlace
  <2>2. ext \in DOMAIN extents
    BY <1>1 DEF SInv, EmittedOK
  <2> QED
    BY <2>1, <2>2
<1>4. ext + 1 \in 1..(Len(extents) + 1)
  BY <1>3
<1>5. /\ QueueOK' /\ Rising(entries')
      /\ ext' \in (ext + 1)..(Len(extents) + 1)
      /\ \A j \in (ext + 1)..Len(extents) : j < ext' => ~IsData(extents[j])
      /\ \/ pc' = "done" /\ ext' = Len(extents) + 1
         \/ pc' = "csum" /\ ext' \in DOMAIN extents
  BY <1>1, <1>4, Started
<1>6. Clean' = Clean
  BY <1>1, CleanKept
<1>7. CountsOK'
  BY <1>1 DEF SInv, CountsOK
<1>8. OpenOK'
  BY <1>1, <1>5, <1>6 DEF SInv, OpenOK
<1>9. ExtentsOK'
  BY <1>1, <1>5, <1>6 DEF SInv, ExtentsOK
<1>10. Clean => \A j \in 1..Width(CSUM_TREE) : Has(entries, j, extents[ext])
  <2>1. ~Atop
    BY <1>1 DEF Atop, Starts
  <2>2. CsumWalk(disk, Gen, queue, seen, entries, extents[ext], Clean)
    BY <1>1, <2>1 DEF SInv, QueueOK
  <2>3. PICK u \in Trees : \E idx \in [DOMAIN queue -> 1..Width(u)] :
           CsumSoFar(entries, extents[ext], Clean, u, idx)
    BY <2>2 DEF CsumWalk
  <2>4. PICK idx \in [DOMAIN queue -> 1..Width(u)] : CsumSoFar(entries, extents[ext], Clean, u, idx)
    BY <2>3
  <2>5. Range(idx) = {}
    BY <1>1 DEF Range
  <2> QED
    BY <2>4, <2>5 DEF CsumSoFar
<1>11. EmittedOK'
  <2>1. /\ Rising(entries) /\ DOMAIN emitted = DOMAIN extents
        /\ \A i \in DOMAIN emitted : Rising(emitted[i])
        /\ Clean => \A i \in DOMAIN extents : i < ext /\ IsData(extents[i]) =>
                       \A j \in 1..Width(CSUM_TREE) : Has(emitted[i], j, extents[i])
    BY <1>1 DEF SInv, EmittedOK
  <2>2. Sorted(entries) = entries
    BY <2>1, SortedRising
  <2>3. /\ DOMAIN emitted' = DOMAIN extents
        /\ emitted'[ext] = entries
        /\ \A i \in DOMAIN extents : i # ext => emitted'[i] = emitted[i]
    BY <1>1, <1>3, <2>1, <2>2
  <2>4. \A i \in DOMAIN emitted' : Rising(emitted'[i])
    BY <2>1, <2>3
  <2>5. \A x : IsData(x)' <=> IsData(x)
    BY <1>1 DEF IsData
  <2>6. ASSUME Clean, NEW i \in DOMAIN extents, i < ext', IsData(extents[i])
        PROVE  \A j \in 1..Width(CSUM_TREE) : Has(emitted'[i], j, extents[i])
    <3>1. CASE i = ext
      BY <1>10, <2>3, <2>6, <3>1
    <3>2. CASE i < ext
      <4>1. i # ext
        BY <1>3, <3>2
      <4> QED
        BY <2>1, <2>3, <2>6, <3>2, <4>1
    <3>3. CASE ext < i
      <4>1. i \in (ext + 1)..Len(extents)
        BY <1>3, <3>3
      <4> QED
        BY <1>5, <2>6, <4>1
    <3> QED
      BY <1>3, <3>1, <3>2, <3>3
  <2> QED
    BY <1>1, <1>5, <1>6, <2>3, <2>4, <2>5, <2>6 DEF EmittedOK
<1> QED
  BY <1>2, <1>5, <1>7, <1>8, <1>9, <1>11 DEF SInv

-----------------------------------------------------------------------------
(* The filesystem.                                                         *)

LEMMA StepFsWriteNodes ==
    ASSUME SInv, NEW t \in DOMAIN Contents, NEW i \in DOMAIN Contents[t], FsWriteNodes(t, i)
    PROVE  SInv'
<1>1. UNCHANGED <<shape, pc, sb, map, queue, found, roots, extents, entries, ext, emitted, cnt,
                  reported, seen, missed>>
  BY DEF FsWriteNodes, scanVars, walkVars
<1>2. StoreOK'
  BY Transaction DEF SInv
<1>3. Clean' = Clean
  BY <1>1, CleanKept
<1>4. \A u \in Trees : \A idx : Under(disk, Gen, queue, seen, u, idx) => Under(disk', Gen', queue, seen, u, idx)
  <2> SUFFICES ASSUME NEW u \in Trees, NEW idx, Leaves(u, idx) PROVE Leaves(u, idx)'
    BY <1>1 DEF Leaves
  <2> QED
    BY UnderKept DEF SInv
<1>5. RootWalk(disk, Gen, queue, seen) => RootWalk(disk', Gen', queue, seen)
  BY <1>4 DEF RootWalk
<1>6. ASSUME NEW c, DevWalk(disk, Gen, queue, seen, extents, c)
      PROVE  DevWalk(disk', Gen', queue, seen, extents, c)
  BY <1>4, <1>6 DEF DevWalk
<1>7. ASSUME NEW c, CsumWalk(disk, Gen, queue, seen, entries, extents[ext], c)
      PROVE  CsumWalk(disk', Gen', queue, seen, entries, extents[ext], c)
  BY <1>4, <1>7 DEF CsumWalk
<1>8. QueueOK'
  BY <1>1, <1>3, <1>5, <1>6, <1>7 DEF SInv, QueueOK, Atop, Starts
<1>9. CountsOK'
  BY <1>1 DEF SInv, CountsOK
<1>10. OpenOK'
  BY <1>1, <1>3 DEF SInv, OpenOK
<1>11. ExtentsOK'
  BY <1>1, <1>3 DEF SInv, ExtentsOK
<1>12. EmittedOK'
  BY <1>1, <1>3 DEF SInv, EmittedOK, IsData
<1> QED
  BY <1>2, <1>8, <1>9, <1>10, <1>11, <1>12 DEF SInv

LEMMA StepScanKept ==
    ASSUME SInv, StoreOK', disk' = disk, Gen' = Gen, UNCHANGED scanVars
    PROVE  SInv'
<1>1. UNCHANGED <<shape, pc, sb, map, queue, found, roots, extents, entries, ext, emitted, cnt,
                  reported, seen, missed>>
  BY DEF scanVars, walkVars
<1>2. Clean' = Clean
  BY <1>1, CleanKept
<1>3. QueueOK'
  BY <1>1, <1>2 DEF SInv, QueueOK, Atop, Starts
<1>4. CountsOK'
  BY <1>1 DEF SInv, CountsOK
<1>5. OpenOK'
  BY <1>1, <1>2 DEF SInv, OpenOK
<1>6. ExtentsOK'
  BY <1>1, <1>2 DEF SInv, ExtentsOK
<1>7. EmittedOK'
  BY <1>1, <1>2 DEF SInv, EmittedOK, IsData
<1> QED
  BY <1>3, <1>4, <1>5, <1>6, <1>7 DEF SInv

-----------------------------------------------------------------------------
(* The invariant and what follows from it.                                 *)

LEMMA ScanInit == Init => SInv
<1> SUFFICES ASSUME Init PROVE SInv
  OBVIOUS
<1>1. /\ mem = InitTrees /\ committed = mem
      /\ pc = "super" /\ sb = SuperOf(mem) /\ map = {} /\ found = {}
      /\ roots = [t \in {FS_TREE, CSUM_TREE, DEV_TREE} |-> {}]
      /\ extents = <<>> /\ queue = <<>> /\ ext = 0 /\ entries = <<>> /\ emitted = <<>>
      /\ cnt = [c \in Counters |-> 0] /\ reported = [c \in Counters |-> {}]
      /\ seen = {} /\ missed = FALSE
  BY DEF Init, InitStore
<1>2. StoreOK
  BY StoreInit
<1>3. QueueOK
  BY <1>1 DEF QueueOK
<1>4. CountsOK
  <2>1. IsFiniteSet({}) /\ Cardinality({}) = 0
    BY FS_EmptySet
  <2>2. /\ cnt \in [Counters -> Nat] /\ reported \in [Counters -> {{}}]
        /\ \A c \in Counters : cnt[c] = 0 /\ reported[c] = {}
    BY <1>1
  <2>3. \A c \in Counters : IsFiniteSet(reported[c]) /\ Cardinality(reported[c]) = 0
    BY <2>1, <2>2
  <2>4. \A c \in Counters : IsFiniteSet(reported[c]) /\ Cardinality(reported[c]) <= cnt[c]
    BY <2>2, <2>3
  <2>5. missed \in BOOLEAN
    BY <1>1
  <2> QED
    BY <2>2, <2>4, <2>5 DEF CountsOK
<1>5. sb.root \in Blocks
  BY <1>1, <1>2, TreesAre DEF StoreOK, MemOK, TreeShape, SuperOf
<1>6. OpenOK
  BY <1>1, <1>5 DEF OpenOK
<1>7. ExtentsOK
  BY <1>1 DEF ExtentsOK, InPlace
<1>8. EmittedOK
  BY <1>1 DEF EmittedOK, Rising
<1> QED
  BY <1>2, <1>3, <1>4, <1>6, <1>7, <1>8 DEF SInv

(* The inductive invariant: on the device only bad copies and nodes of the *)
(* trees; in the queue of a walk, after the first read, pointers to leaves *)
(* of one tree in their order and in different blocks, each to a block     *)
(* that holds that leaf or nothing of that generation; and unless a loss   *)
(* was counted or noted, every leaf is still ahead or has given what it    *)
(* has (walk_leaves_impl of tree.rs, range of csum.rs, open.rs).           *)
THEOREM ScanInvariance == Spec => []SInv
<1>1. Init => SInv
  BY ScanInit
<1>2. SInv /\ [Next]_vars => SInv'
  <2> SUFFICES ASSUME SInv, [Next]_vars PROVE SInv'
    OBVIOUS
  <2>1. CASE ReadSuper
    BY <2>1, StepReadSuper
  <2>2. CASE WalkChunkTree
    BY <2>2, StepWalkChunkTree
  <2>3. CASE ChunksKnown
    BY <2>3, StepChunksKnown
  <2>4. CASE WalkRootTree
    BY <2>4, StepWalkRootTree
  <2>5. CASE RootsKnown
    BY <2>5, StepRootsKnown
  <2>6. CASE WalkDevTree
    BY <2>6, StepWalkDevTree
  <2>7. CASE ExtentsKnown
    BY <2>7, StepExtentsKnown
  <2>8. CASE WalkCsumTree
    BY <2>8, StepWalkCsumTree
  <2>9. CASE RangeDone
    BY <2>9, StepRangeDone
  <2>10. CASE \E t \in DOMAIN Contents : \E i \in DOMAIN Contents[t] : FsWriteNodes(t, i)
    BY <2>10, StepFsWriteNodes
  <2>11. CASE FsWriteSuper
    BY <2>11, SuperWritten, StepScanKept DEF SInv
  <2>12. CASE UNCHANGED vars
    <3>1. UNCHANGED storeVars /\ UNCHANGED scanVars
      BY <2>12 DEF vars
    <3> QED
      BY <3>1, StoreKept, StepScanKept DEF SInv
  <2> QED
    BY <2>1, <2>2, <2>3, <2>4, <2>5, <2>6, <2>7, <2>8, <2>9, <2>10, <2>11, <2>12
       DEF Next, ScanStep
<1> QED
  BY <1>1, <1>2, PTL DEF Spec

(* The types of the scan's variables: what open and the walks keep is      *)
(* always of the filesystem's own chunks and blocks, and no node is        *)
(* reported without being counted.                                         *)
THEOREM TypeCorrect == Spec => []TypeOK
<1>1. SInv => TypeOK
  <2> SUFFICES ASSUME SInv PROVE TypeOK
    OBVIOUS
  <2>1. \A t \in DOMAIN roots : roots[t] \subseteq Blocks \cup {0} /\ Cardinality(roots[t]) <= 1
    <3> SUFFICES ASSUME NEW t \in DOMAIN roots
                 PROVE  roots[t] \subseteq Blocks \cup {0} /\ Cardinality(roots[t]) <= 1
      OBVIOUS
    <3>1. roots[t] = {} \/ \E b \in Blocks \cup {0} : roots[t] = {b}
      BY DEF SInv, OpenOK
    <3>2. Cardinality({}) = 0 /\ \A b : Cardinality({b}) = 1
      BY FS_EmptySet, FS_Singleton
    <3>3. Cardinality(roots[t]) = 0 \/ Cardinality(roots[t]) = 1
      BY <3>1, <3>2
    <3> QED
      BY <3>1, <3>3
  <2>2. \A i \in DOMAIN queue : queue[i].at \in Blocks \cup {ChunkRoot}
    <3>1. \A i \in DOMAIN queue : queue[i] \in Refs
      BY DEF SInv, QueueOK
    <3> QED
      BY <3>1 DEF Refs
  <2>3. \A c \in Counters : cnt[c] \in Nat /\ Cardinality(reported[c]) <= cnt[c]
    BY DEF SInv, CountsOK
  <2>4. missed \in BOOLEAN
    BY DEF SInv, CountsOK
  <2>5. pc = "csum" => ext \in DOMAIN emitted
    BY DEF SInv, EmittedOK
  <2>6. budget \in 0..Trouble
    BY DEF SInv, StoreOK
  <2>7. pc \in {"super", "chunk", "root", "dev", "csum", "done", "failed"}
        /\ map \subseteq Chunks /\ found \subseteq Chunks
    BY DEF SInv, OpenOK
  <2> QED
    BY <2>1, <2>2, <2>3, <2>4, <2>5, <2>6, <2>7 DEF TypeOK
<1> QED
  BY <1>1, ScanInvariance, PTL

(* A walk (walk_leaves_impl of tree.rs) reads no block twice, whatever is  *)
(* written to the blocks it holds pointers to.                             *)
THEOREM ReadOnceHolds == Spec => []ReadOnce
<1>1. SInv => ReadOnce
  <2> SUFFICES ASSUME SInv PROVE ReadOnce
    OBVIOUS
  <2>1. CASE queue = <<>>
    BY <2>1 DEF ReadOnce
  <2>2. ASSUME NEW b, Starts(b) PROVE ReadOnce
    <3>1. queue = <<Ref(b, DontCheck)>>
      BY <2>2 DEF Starts
    <3>2. \A i \in DOMAIN queue : i = 1 /\ queue[i].exp = DontCheck
      BY <3>1 DEF Ref
    <3> QED
      BY <3>2 DEF ReadOnce
  <2>3. ASSUME NEW u \in Trees, NEW idx, Under(disk, Gen, queue, seen, u, idx) PROVE ReadOnce
    <3>1. DOMAIN queue \subseteq Int
      BY DEF SInv, QueueOK
    <3>2. ASSUME NEW i \in DOMAIN queue, NEW j \in DOMAIN queue, queue[i].at = queue[j].at
          PROVE  i = j
      <4>1. ~(i < j) /\ ~(j < i)
        BY <2>3, <3>2 DEF Under
      <4> QED
        BY <3>1, <4>1
    <3>3. \A i \in DOMAIN queue : queue[i].at \notin seen
      BY <2>3 DEF Under
    <3> QED
      BY <3>2, <3>3 DEF ReadOnce
  <2>4. \/ queue = <<>>
        \/ \E b : Starts(b)
        \/ \E u \in Trees : \E idx : Under(disk, Gen, queue, seen, u, idx)
    <3>1. QueueOK /\ pc \in {"super", "chunk", "root", "dev", "csum", "done", "failed"}
      BY DEF SInv, OpenOK
    <3>2. CASE pc \in {"super", "done", "failed", "chunk"}
      BY <3>1, <3>2 DEF QueueOK
    <3>3. CASE pc = "root"
      BY <3>1, <3>3 DEF QueueOK, Atop, RootWalk
    <3>4. CASE pc = "dev"
      BY <3>1, <3>4 DEF QueueOK, Atop, DevWalk
    <3>5. CASE pc = "csum"
      BY <3>1, <3>5 DEF QueueOK, Atop, CsumWalk
    <3> QED
      BY <3>1, <3>2, <3>3, <3>4, <3>5
  <2> QED
    BY <2>1, <2>2, <2>3, <2>4
<1> QED
  BY <1>1, ScanInvariance, PTL

(* No extent is listed twice and no sector of an extent is handed to the   *)
(* scrub twice, and the sectors come in order (build_dev_extents of        *)
(* dev_extent.rs, range of csum.rs).                                       *)
THEOREM EmittedOnceHolds == Spec => []EmittedOnce
<1>1. SInv => EmittedOnce
  <2> SUFFICES ASSUME SInv PROVE EmittedOnce
    OBVIOUS
  <2>1. IsInjective(extents)
    <3>1. InPlace(extents)
      BY DEF SInv, ExtentsOK
    <3>2. DOMAIN extents \subseteq Int /\ \A k \in DOMAIN extents : extents[k].phys \in Nat
      <4>1. extents \in Seq(Extent)
        BY <3>1 DEF InPlace
      <4>2. \A k \in DOMAIN extents : extents[k] \in Extent
        BY <4>1
      <4> QED
        BY <4>1, <4>2 DEF Extent
    <3>3. ASSUME NEW j \in DOMAIN extents, NEW k \in DOMAIN extents, extents[j] = extents[k]
          PROVE  j = k
      <4>1. ~(j < k) /\ ~(k < j)
        BY <3>1, <3>2, <3>3 DEF InPlace
      <4> QED
        BY <3>2, <4>1
    <3> QED
      BY <3>3 DEF IsInjective
  <2>2. \A i \in DOMAIN emitted : Rising(emitted[i])
    BY DEF SInv, EmittedOK
  <2> QED
    BY <2>1, <2>2 DEF EmittedOnce, Rising
<1> QED
  BY <1>1, ScanInvariance, PTL

(* A scan with no header, read or stale count that met none of the two     *)
(* uncounted losses has handed every settled sector of every data extent   *)
(* to the scrub, whatever the device and the filesystem did meanwhile.     *)
THEOREM GapsShownHolds == Spec => []GapsShown
<1>1. SInv => GapsShown
  <2> SUFFICES ASSUME SInv, pc = "done", ~missed, cnt["header"] + cnt["read"] + cnt["stale"] = 0,
                      NEW e \in DataExtents
               PROVE  \E k \in DOMAIN extents : extents[k] = e /\ Settled(e) \subseteq Range(emitted[k])
    BY DEF GapsShown, Covered
  <2>1. Clean
    <3>1. cnt["header"] \in Nat /\ cnt["read"] \in Nat /\ cnt["stale"] \in Nat
      BY DEF SInv, CountsOK, Counters
    <3> QED
      BY <3>1 DEF Clean
  <2>2. PICK i \in DOMAIN Contents[DEV_TREE] : e \in AlwaysListed(i)
    BY DEF DataExtents
  <2>3. i \in 1..Width(DEV_TREE)
    BY TreesAre
  <2>4. Listed(extents, i)
    BY <2>1, <2>3 DEF SInv, ExtentsOK
  <2>5. PICK v \in DOMAIN Contents[DEV_TREE][i] :
           ExtentsOf(Contents[DEV_TREE][i][v]) \subseteq Range(extents)
    BY <2>4 DEF Listed
  <2>6. e \in Range(extents)
    BY <2>2, <2>5 DEF AlwaysListed
  <2>7. PICK k \in DOMAIN extents : extents[k] = e
    BY <2>6 DEF Range
  <2>8. IsData(e)
    <3>1. map = Chunks
      BY <2>1 DEF SInv, OpenOK
    <3> QED
      BY <3>1 DEF IsData, DataExtents
  <2>9. k < ext
    <3>1. Len(extents) \in Nat /\ DOMAIN extents = 1..Len(extents)
      BY DEF SInv, ExtentsOK, InPlace
    <3>2. ext = Len(extents) + 1
      BY DEF SInv, EmittedOK
    <3> QED
      BY <3>1, <3>2
  <2>10. \A j \in 1..Width(CSUM_TREE) : Has(emitted[k], j, e)
    BY <2>1, <2>7, <2>8, <2>9 DEF SInv, EmittedOK
  <2>11. Settled(e) \subseteq Range(emitted[k])
    BY <2>10, TreesAre DEF Settled, Has
  <2> QED
    BY <2>7, <2>11
<1> QED
  BY <1>1, ScanInvariance, PTL

-----------------------------------------------------------------------------
(* The first generation, on a device that has a good copy of every node.   *)

(* Until a transaction is written, the trees are the first ones, and every *)
(* copy of a node of theirs and of the superblock is as it was or bad.     *)
FirstOK ==
    /\ Gen \in Nat \ {0}
    /\ Gen = 1 =>
         /\ mem = InitTrees /\ committed = mem
         /\ \A i \in DOMAIN supers : supers[i].kind = "super" => supers[i] = SuperOf(mem)
         /\ \A b \in NodesInUse : \A p \in Phys(b) : disk[p] \in BadKinds \cup {ScanNode(b)}

(* A walk of tree t is at its top or holds pointers to its leaves; in the  *)
(* root tree, what is not ahead has given its roots.                       *)
LeafRef(t, i) == Ref(mem[t].leaf[i].at, [gen |-> 1, level |-> 0, owner |-> t])
Holds(q, t, i) == \E k \in DOMAIN q : q[k] = LeafRef(t, i)
ToLeaves(t, q) == \A k \in DOMAIN q : \E i \in 1..Width(t) : q[k] = LeafRef(t, i)
AtTop(t) == Starts(mem[t].top.at)
Gave(i, rts) == \A t \in Range(RootLayout[i]) \cap DOMAIN rts : rts[t] # {}
RootsSoFar(q, rts) == \A i \in 1..Width(ROOT_TREE) : Holds(q, ROOT_TREE, i) \/ Gave(i, rts)

Unharmed ==
    /\ pc # "failed" /\ Clean
    /\ pc = "chunk" => map = SysChunks
    /\ pc \in {"chunk", "root"} => sb.root = mem[ROOT_TREE].top.at
    /\ \A t \in {CSUM_TREE, DEV_TREE} : roots[t] \subseteq {mem[t].top.at}
    /\ pc = "root" => AtTop(ROOT_TREE) \/ (ToLeaves(ROOT_TREE, queue) /\ RootsSoFar(queue, roots))
    /\ pc = "dev" => AtTop(DEV_TREE) \/ ToLeaves(DEV_TREE, queue)
    /\ pc = "csum" => AtTop(CSUM_TREE) \/ ToLeaves(CSUM_TREE, queue)
IdleOK == FirstOK /\ (OneGoodCopy => Unharmed)

(* The nodes of the first trees.                                           *)
LEMMA FirstNode ==
    ASSUME mem = InitTrees, NEW t \in Trees, NEW b \in NodesOf(mem[t])
    PROVE  b \in NodesInUse /\ b \in Blocks /\ ScanNode(b) = NodeOf(t, mem[t], b)
<1>1. DOMAIN mem = Trees
  BY FirstTrees
<1>2. b \in Blocks /\ b \in Used(mem)
  BY <1>1, LayoutAssumption DEF Used
<1>3. b # ChunkRoot
  BY <1>2, ScanAssumption
<1> DEFINE u == CHOOSE x \in DOMAIN mem : b \in NodesOf(mem[x])
<1>4. u \in Trees /\ b \in NodesOf(mem[u])
  BY <1>1
<1>5. ScanNode(b) = NodeOf(u, mem[u], b)
  BY <1>2, <1>3 DEF ScanNode, InitNode, NodeAt
<1> HIDE DEF u
<1>6. u = t
  BY <1>1, <1>4, LayoutAssumption
<1> QED
  BY <1>2, <1>5, <1>6 DEF NodesInUse

TopIs(t, b, n) ==
    /\ n.kind = "node" /\ n.fsid = "own" /\ n.bytenr = b /\ n.owner = t
    /\ \/ n.level = 0 /\ Width(t) = 1 /\ n.items = mem[t].leaf[1].items
       \/ n.level = 1 /\ IsTopNode(n, t, mem[t], b)
LEMMA FirstTop ==
    ASSUME mem = InitTrees, NEW t \in Trees, NEW b, b = mem[t].top.at
    PROVE  b \in NodesInUse /\ b \in Blocks /\ TopIs(t, b, ScanNode(b))
<1>1. TreeShape(t, mem[t], 1)
  BY FirstTrees
<1>2. b \in NodesOf(mem[t])
  BY DEF NodesOf
<1>3. b \in NodesInUse /\ b \in Blocks /\ ScanNode(b) = NodeOf(t, mem[t], b)
  BY <1>2, FirstNode
<1> DEFINE n == ScanNode(b)
<1>4. /\ n.kind = "node" /\ n.fsid = "own" /\ n.bytenr = b /\ n.owner = t
      /\ \/ \E i \in 1..Width(t) : IsLeafNode(n, mem[t], b, i)
         \/ IsTopNode(n, t, mem[t], b)
  BY <1>1, <1>2, <1>3, NodeIs
<1> HIDE DEF n
<1>5. CASE \E i \in 1..Width(t) : IsLeafNode(n, mem[t], b, i)
  <2>1. PICK i \in 1..Width(t) : IsLeafNode(n, mem[t], b, i)
    BY <1>5
  <2>2. mem[t].leaf[i].at = mem[t].top.at /\ n.level = 0 /\ n.items = mem[t].leaf[i].items
    BY <2>1 DEF IsLeafNode
  <2>3. Width(t) = 1
    BY <1>1, <2>2 DEF TreeShape
  <2>4. i = 1
    BY <2>3
  <2> QED
    BY <1>3, <1>4, <2>2, <2>3, <2>4 DEF TopIs, n
<1>6. CASE IsTopNode(n, t, mem[t], b)
  <2>1. n.level = 1
    BY <1>6 DEF IsTopNode
  <2> QED
    BY <1>3, <1>4, <1>6, <2>1 DEF TopIs, n
<1> QED
  BY <1>4, <1>5, <1>6

LeafIs(t, i, b, n) ==
    /\ n.kind = "node" /\ n.fsid = "own" /\ n.bytenr = b /\ n.owner = t
    /\ n.level = 0 /\ n.gen = 1 /\ n.items = mem[t].leaf[i].items
LEMMA FirstLeaf ==
    ASSUME mem = InitTrees, NEW t \in Trees, NEW i \in 1..Width(t), NEW b, b = mem[t].leaf[i].at
    PROVE  b \in NodesInUse /\ b \in Blocks /\ LeafIs(t, i, b, ScanNode(b))
<1>1. TreeShape(t, mem[t], 1) /\ \A k \in 1..Width(t) : mem[t].leaf[k].gen = 1
  BY FirstTrees
<1>2. b \in NodesOf(mem[t])
  <2>1. i \in DOMAIN mem[t].leaf
    BY <1>1 DEF TreeShape
  <2> QED
    BY <2>1 DEF NodesOf
<1>3. b \in NodesInUse /\ b \in Blocks /\ ScanNode(b) = NodeOf(t, mem[t], b)
  BY <1>2, FirstNode
<1> DEFINE n == ScanNode(b)
<1>4. /\ n.kind = "node" /\ n.fsid = "own" /\ n.bytenr = b /\ n.owner = t
      /\ \/ \E k \in 1..Width(t) : IsLeafNode(n, mem[t], b, k)
         \/ IsTopNode(n, t, mem[t], b)
  BY <1>1, <1>2, <1>3, NodeIs
<1> HIDE DEF n
<1>5. PICK k \in 1..Width(t) : IsLeafNode(n, mem[t], b, k)
  BY <1>4 DEF IsTopNode
<1>6. k = i
  <2>1. mem[t].leaf[k].at = mem[t].leaf[i].at
    BY <1>5 DEF IsLeafNode
  <2>2. \A x, y \in 1..Width(t) : mem[t].leaf[x].at = mem[t].leaf[y].at => x = y
    BY <1>1 DEF TreeShape
  <2> QED
    BY <2>1, <2>2
<1>7. n.level = 0 /\ n.gen = 1 /\ n.items = mem[t].leaf[i].items
  BY <1>1, <1>5, <1>6 DEF IsLeafNode
<1> QED
  BY <1>3, <1>4, <1>7 DEF LeafIs, n

(* One good copy is enough to read a node.                                 *)
LEMMA GoodRead ==
    ASSUME StoreOK, FirstOK, OneGoodCopy, NEW known \in SUBSET Chunks, NEW b \in NodesInUse,
           lookup_stripes(known, b) # <<>>, NEW exp,
           ScanNode(b).kind = "node", validate_header(ScanNode(b), b, exp)
    PROVE  Fine(read_node(known, b, exp)) /\ read_node(known, b, exp).node = ScanNode(b)
<1>1. b \in Nat
  <2>1. \A u \in DOMAIN InitTrees : NodesOf(InitTrees[u]) \subseteq Blocks
    BY LayoutAssumption
  <2>2. Used(InitTrees) \subseteq Blocks
    BY <2>1 DEF Used
  <2> QED
    BY <2>2, StoreAssumption, ScanAssumption DEF NodesInUse
<1> DEFINE copy == lookup_stripes(known, b)
<1>2. copy = lookup_stripes(Chunks, b) /\ copy # <<>>
  BY <1>1, Lookup
<1>3. PICK p \in Phys(b) : disk[p] = ScanNode(b)
  BY DEF OneGoodCopy
<1>4. PICK i \in DOMAIN copy : copy[i] = p
  BY <1>2 DEF Phys, Range
<1> HIDE DEF copy
<1> DEFINE readable == {x \in DOMAIN copy : disk[copy[x]].kind # "eio"}
           verified == {x \in readable : disk[copy[x]].kind = "node"}
           good     == {x \in verified : validate_header(disk[copy[x]], b, exp)}
           got      == read_node(known, b, exp)
<1>5. /\ got.read_error = (readable = {})
      /\ got.all_mirrors_failed = (readable # {} /\ verified = {})
      /\ got.generation_mismatch = (verified # {} /\ good = {})
  BY <1>2 DEF read_node, copy
<1>6. i \in readable /\ i \in verified /\ i \in good
  BY <1>3, <1>4
<1>7. Fine(got)
  BY <1>5, <1>6 DEF Fine
<1>8. DiskOK
  BY DEF StoreOK
<1>9. disk[0].kind # "node"
  BY <1>8 DEF DiskOK, Garbage
<1>10. PICK r \in Phys(b) : /\ got.node = disk[r] /\ disk[r].kind = "node"
                            /\ validate_header(disk[r], b, exp)
  BY <1>1, <1>7, <1>9, ReadsCopy
<1>11. disk[r] \notin BadKinds
  BY <1>10 DEF validate_header, BadKinds, Garbage, Eio, Foreign
<1>12. disk[r] \in BadKinds \cup {ScanNode(b)}
  BY DEF FirstOK, OneGoodCopy, Gen
<1> QED
  BY <1>7, <1>10, <1>11, <1>12

-----------------------------------------------------------------------------
(* The walks over them.                                                    *)

(* Such a read changes no counter of losses.                               *)
LEMMA StaysClean ==
    ASSUME CountsOK, Clean, Fine(Got), NEW t, ~NotTheRoot(Got, t), NEW uncounted \in BOOLEAN,
           CountAtOpen(Got) \/ CountOnce(Got), Note(Got, t, uncounted)
    PROVE  Clean'
<1>1. ~Got.read_error /\ ~Got.all_mirrors_failed /\ ~Got.generation_mismatch
  BY DEF Fine
<1>2. \A c \in {"header", "read", "stale"} : c \in Counters /\ ~Bumps(Got)[c]
  BY <1>1 DEF Bumps, Counters
<1>3. missed' = FALSE
  BY <1>1 DEF Note, Clean
<1>4. cnt["header"] = 0 /\ cnt["read"] = 0 /\ cnt["stale"] = 0
  BY DEF Clean
<1>5. CASE CountAtOpen(Got)
  <2>1. \A c \in {"header", "read", "stale"} : cnt'[c] = cnt[c] + 0
    BY <1>2, <1>5 DEF CountAtOpen
  <2> QED
    BY <1>3, <1>4, <2>1 DEF Clean
<1>6. CASE CountOnce(Got)
  <2>1. \A c \in {"header", "read", "stale"} : cnt'[c] = cnt[c] + Cardinality({})
    BY <1>2, <1>6 DEF CountOnce
  <2>2. Cardinality({}) = 0
    BY FS_EmptySet
  <2> QED
    BY <1>3, <1>4, <2>1, <2>2 DEF Clean
<1> QED
  BY <1>5, <1>6

(* A pop at the top of tree t.                                             *)
TopPopped(t, q, lo, hi) ==
    /\ Fine(Got) /\ ~NotTheRoot(Got, t) /\ ToLeaves(t, q)
    /\ \/ AtLeaf(Got) /\ Width(t) = 1 /\ Got.node.items = mem[t].leaf[1].items
       \/ /\ ~AtLeaf(Got) /\ IsTopNode(Got.node, t, mem[t], mem[t].top.at)
          /\ \A x \in 1..Width(t) : InRange(Got.node.items, x, lo, hi) => Holds(q, t, x)
LEMMA PopFirstTop ==
    ASSUME StoreOK, FirstOK, OneGoodCopy, map = Chunks, NEW t \in {ROOT_TREE, DEV_TREE, CSUM_TREE},
           AtTop(t), NEW lo, NEW hi, NEW q, q = Pop(queue, Got, lo, hi)
    PROVE  TopPopped(t, q, lo, hi)
<1> DEFINE b == mem[t].top.at
<1>1. mem = InitTrees
  BY DEF FirstOK, OneGoodCopy, Gen
<1>2. t \in Trees
  BY TreesAre
<1>3. b \in NodesInUse /\ b \in Blocks /\ TopIs(t, b, ScanNode(b))
  BY <1>1, <1>2, FirstTop
<1>4. queue = <<Ref(b, DontCheck)>>
  BY DEF AtTop, Starts
<1> HIDE DEF b
<1>5. Top = Ref(b, DontCheck) /\ Front(queue) = <<>>
  BY <1>4 DEF Top, Last, Front
<1>6. Got = read_node(map, b, DontCheck) /\ Top.exp = DontCheck
  BY <1>5 DEF Got, Ref
<1>7. Fine(Got) /\ Got.node = ScanNode(b)
  <2>1. lookup_stripes(Chunks, b) # <<>>
    BY <1>3, PlacesAssumption DEF Phys, Range
  <2>2. validate_header(ScanNode(b), b, DontCheck) /\ ScanNode(b).kind = "node"
    BY <1>3 DEF validate_header, TopIs
  <2> QED
    BY <1>3, <1>6, <2>1, <2>2, GoodRead
<1> DEFINE n == Got.node
<1>8. n.owner = t /\ TopIs(t, b, n)
  BY <1>3, <1>7 DEF TopIs
<1>9. Height(t) = IF Width(t) = 1 THEN 0 ELSE 1
  <2>1. t # CHUNK_TREE
    BY DEF ROOT_TREE, DEV_TREE, CSUM_TREE, CHUNK_TREE
  <2>2. CASE t = ROOT_TREE
    BY <2>1, <2>2, TreesAre DEF Height, Width
  <2>3. CASE t # ROOT_TREE
    BY <2>1, <2>3, TreesAre DEF Height, Width
  <2> QED
    BY <2>2, <2>3
<1>10. CASE n.level = 0 /\ Width(t) = 1 /\ n.items = mem[t].leaf[1].items
  <2>1. AtLeaf(Got) /\ ~NotTheRoot(Got, t)
    BY <1>7, <1>8, <1>9, <1>10 DEF AtLeaf, NotTheRoot
  <2>2. q = <<>>
    <3>1. q = <<>> \o <<>>
      BY <1>5, <2>1 DEF Pop
    <3> QED
      BY <3>1
  <2>3. ToLeaves(t, q)
    BY <2>2 DEF ToLeaves
  <2> QED
    BY <1>7, <1>10, <2>1, <2>3 DEF TopPopped
<1>11. CASE n.level = 1 /\ IsTopNode(n, t, mem[t], b)
  <2>1. Width(t) # 1 /\ DOMAIN n.items = 1..Width(t) /\ Width(t) \in Nat
    BY <1>2, <1>11, TreesAre DEF IsTopNode
  <2>2. ~AtLeaf(Got) /\ ~NotTheRoot(Got, t)
    BY <1>8, <1>9, <1>11, <2>1 DEF AtLeaf, NotTheRoot
  <2> DEFINE kids == Children(n, lo, hi)
  <2>3. kids \in Seq(Range(Pointers(n))) /\ \E f : KeptAs(kids, n, Width(t), lo, hi, f)
    BY <2>1, ChildrenOrder
  <2>4. q = kids
    <3>1. q = <<>> \o kids
      BY <1>5, <1>7, <2>2 DEF Pop
    <3> HIDE DEF kids
    <3> QED
      BY <2>3, <3>1
  <2> HIDE DEF kids
  <2>5. PICK f : KeptAs(kids, n, Width(t), lo, hi, f)
    BY <2>3
  <2>6. ASSUME NEW x \in 1..Width(t) PROVE Pointers(n)[x] = LeafRef(t, x)
    <3>1. n.items[x].val.at = mem[t].leaf[x].at /\ n.items[x].val.gen = mem[t].leaf[x].gen
      BY <1>11 DEF IsTopNode
    <3>2. mem[t].leaf[x].gen = 1
      BY <1>1, <1>2, FirstTrees
    <3>3. n.level - 1 = 0
      BY <1>11
    <3>4. Pointers(n)[x] = Ref(n.items[x].val.at, [gen |-> n.items[x].val.gen, level |-> n.level - 1,
                                                   owner |-> n.owner])
      BY <2>1 DEF Pointers
    <3> QED
      BY <1>8, <3>1, <3>2, <3>3, <3>4 DEF LeafRef
  <2>7. /\ \A k \in DOMAIN kids : f[k] \in 1..Width(t) /\ kids[k] = Pointers(n)[f[k]]
        /\ \A x \in 1..Width(t) : InRange(n.items, x, lo, hi) => \E k \in DOMAIN kids : f[k] = x
    BY <2>5 DEF KeptAs
  <2>8. \A k \in DOMAIN kids : f[k] \in 1..Width(t) /\ kids[k] = LeafRef(t, f[k])
    BY <2>6, <2>7
  <2>9. ToLeaves(t, q)
    BY <2>4, <2>8 DEF ToLeaves
  <2>10. \A x \in 1..Width(t) : InRange(n.items, x, lo, hi) => Holds(q, t, x)
    BY <2>4, <2>7, <2>8 DEF Holds
  <2> QED
    BY <1>7, <1>11, <2>2, <2>9, <2>10 DEF TopPopped, b
<1> QED
  BY <1>8, <1>10, <1>11 DEF TopIs

(* A pop of a leaf of tree t.                                              *)
LeafPoppedAt(t, i, q) ==
    /\ Fine(Got) /\ ~NotTheRoot(Got, t) /\ ToLeaves(t, q)
    /\ AtLeaf(Got) /\ Got.node.items = mem[t].leaf[i].items
    /\ \A x \in 1..Width(t) : x # i /\ Holds(queue, t, x) => Holds(q, t, x)
LEMMA PopFirstLeaf ==
    ASSUME StoreOK, FirstOK, OneGoodCopy, map = Chunks, NEW t \in {ROOT_TREE, DEV_TREE, CSUM_TREE},
           queue \in Seq(Refs), queue # <<>>, ToLeaves(t, queue),
           NEW lo, NEW hi, NEW q, q = Pop(queue, Got, lo, hi)
    PROVE  \E i \in 1..Width(t) : LeafPoppedAt(t, i, q)
<1> DEFINE n == Len(queue)
<1>1. mem = InitTrees /\ t \in Trees
  BY TreesAre DEF FirstOK, OneGoodCopy, Gen
<1>2. n \in Nat \ {0} /\ DOMAIN queue = 1..n
  OBVIOUS
<1>3. Top = queue[n] /\ n \in DOMAIN queue
  BY <1>2 DEF Top, Last
<1>4. PICK i \in 1..Width(t) : Top = LeafRef(t, i)
  BY <1>3 DEF ToLeaves
<1> DEFINE b == mem[t].leaf[i].at
           exp == [gen |-> 1, level |-> 0, owner |-> t]
<1>5. b \in NodesInUse /\ b \in Blocks /\ LeafIs(t, i, b, ScanNode(b))
  BY <1>1, FirstLeaf
<1>6. Top = Ref(b, exp)
  BY <1>4 DEF LeafRef
<1> HIDE DEF b
<1>7. exp # DontCheck /\ exp.gen = 1 /\ exp.level = 0 /\ exp.owner = t
  BY DEF DontCheck
<1> HIDE DEF exp
<1>8. Got = read_node(map, b, exp) /\ Top.exp = exp
  BY <1>6 DEF Got, Ref
<1>9. Fine(Got) /\ Got.node = ScanNode(b)
  <2>1. lookup_stripes(Chunks, b) # <<>>
    BY <1>5, PlacesAssumption DEF Phys, Range
  <2>2. validate_header(ScanNode(b), b, exp) /\ ScanNode(b).kind = "node"
    BY <1>5, <1>7 DEF validate_header, LeafIs
  <2> QED
    BY <1>5, <1>8, <2>1, <2>2, GoodRead
<1>10. AtLeaf(Got) /\ Got.node.items = mem[t].leaf[i].items /\ ~NotTheRoot(Got, t)
  BY <1>5, <1>7, <1>8, <1>9 DEF AtLeaf, LeafIs, NotTheRoot
<1>11. DOMAIN q = 1..(n - 1) /\ \A k \in 1..(n - 1) : q[k] = queue[k]
  <2>1. Front(queue) = [k \in 1..(n - 1) |-> queue[k]] /\ Front(queue) \in Seq(Refs)
    BY <1>2 DEF Front
  <2>2. q = Front(queue) \o <<>>
    BY <1>10 DEF Pop
  <2>3. q = Front(queue)
    BY <2>1, <2>2
  <2> QED
    BY <1>2, <2>1, <2>3
<1> HIDE DEF n
<1>12. \A k \in 1..(n - 1) : k \in DOMAIN queue
  BY <1>2
<1>13. ToLeaves(t, q)
  BY <1>11, <1>12 DEF ToLeaves
<1>14. ASSUME NEW x \in 1..Width(t), x # i, Holds(queue, t, x) PROVE Holds(q, t, x)
  <2>1. PICK k \in DOMAIN queue : queue[k] = LeafRef(t, x)
    BY <1>14 DEF Holds
  <2>2. k # n
    <3>1. CASE k = n
      <4>1. LeafRef(t, x) = LeafRef(t, i)
        BY <1>3, <1>4, <2>1, <3>1
      <4>2. mem[t].leaf[x].at = mem[t].leaf[i].at
        BY <4>1 DEF LeafRef, Ref
      <4>3. TreeShape(t, mem[t], 1)
        BY <1>1, FirstTrees
      <4> QED
        BY <1>14, <4>2, <4>3 DEF TreeShape
    <3> QED
      BY <3>1
  <2>3. k \in 1..(n - 1)
    BY <1>2, <2>2
  <2> QED
    BY <1>11, <2>1, <2>3 DEF Holds
<1>15. LeafPoppedAt(t, i, q)
  BY <1>9, <1>10, <1>13, <1>14 DEF LeafPoppedAt
<1> QED
  BY <1>15

-----------------------------------------------------------------------------
(* What the first root tree says.                                          *)

LEMMA FirstRoots ==
    ASSUME mem = InitTrees, NEW i \in 1..Width(ROOT_TREE), NEW its, its = mem[ROOT_TREE].leaf[i].items
    PROVE  /\ DOMAIN its = DOMAIN RootLayout[i]
           /\ \A j \in DOMAIN its :
                /\ its[j].key = <<RootLayout[i][j], ROOT_ITEM, 0>>
                /\ RootLayout[i][j] \in DOMAIN Contents => its[j].val = mem[RootLayout[i][j]].top.at
<1> DEFINE data == [t \in DOMAIN Contents |->
                      TreeAt(Layout[t], [k \in DOMAIN Contents[t] |-> Contents[t][k][1]])]
           ritems == [k \in DOMAIN RootLayout |-> RootItems(data, k)]
<1>1. mem = [t \in Trees |-> IF t = ROOT_TREE THEN TreeAt(Layout[t], ritems) ELSE data[t]]
  BY DEF InitTrees, Trees
<1>2. DOMAIN data = DOMAIN Contents /\ \A t \in DOMAIN Contents : mem[t] = data[t]
  BY <1>1, TreesAre
<1>3. mem[ROOT_TREE] = TreeAt(Layout[ROOT_TREE], ritems)
  BY <1>1, TreesAre
<1> HIDE DEF data
<1>4. i \in DOMAIN RootLayout /\ i \in DOMAIN ritems /\ ritems[i] = RootItems(data, i)
  BY TreesAre
<1> HIDE DEF ritems
<1>5. its = ritems[i]
  BY <1>3, <1>4 DEF TreeAt, Leaf
<1>6. its = RootItems(data, i)
  BY <1>4, <1>5
<1>7. DOMAIN its = DOMAIN RootLayout[i]
  BY <1>6 DEF RootItems
<1>8. \A j \in DOMAIN its : its[j].key = <<RootLayout[i][j], ROOT_ITEM, 0>>
  BY <1>6, <1>7 DEF RootItems
<1>9. \A j \in DOMAIN its : RootLayout[i][j] \in DOMAIN Contents =>
          its[j].val = data[RootLayout[i][j]].top.at
  BY <1>2, <1>6, <1>7 DEF RootItems
<1> QED
  BY <1>2, <1>7, <1>8, <1>9

(* A leaf of it gives the roots it lists, and no others.                   *)
LEMMA RootsGiven ==
    ASSUME mem = InitTrees, NEW i \in 1..Width(ROOT_TREE), AtLeaf(Got),
           Got.node.items = mem[ROOT_TREE].leaf[i].items
    PROVE  LET its == ItemsOf(Got, ROOT_ITEM) IN
           /\ \A it \in its : it.key[1] \in DOMAIN Contents => it.val = mem[it.key[1]].top.at
           /\ \A t \in Range(RootLayout[i]) : \E it \in its : it.key[1] = t
<1> DEFINE its == Got.node.items
           got == ItemsOf(Got, ROOT_ITEM)
<1>1. /\ DOMAIN its = DOMAIN RootLayout[i]
      /\ \A j \in DOMAIN its :
           /\ its[j].key = <<RootLayout[i][j], ROOT_ITEM, 0>>
           /\ RootLayout[i][j] \in DOMAIN Contents => its[j].val = mem[RootLayout[i][j]].top.at
  BY FirstRoots
<1>2. \A j \in DOMAIN its : its[j].key[1] = RootLayout[i][j] /\ its[j].key[2] = ROOT_ITEM
  BY <1>1
<1>3. got = {it \in Range(its) : it.key[2] = ROOT_ITEM}
  BY DEF ItemsOf
<1> HIDE DEF its, got
<1>4. \A it \in got : \E j \in DOMAIN its : it = its[j]
  BY <1>3 DEF Range
<1>5. \A j \in DOMAIN its : its[j] \in got
  BY <1>2, <1>3 DEF Range
<1>6. \A it \in got : it.key[1] \in DOMAIN Contents => it.val = mem[it.key[1]].top.at
  BY <1>1, <1>2, <1>4
<1>7. \A t \in Range(RootLayout[i]) : \E it \in got : it.key[1] = t
  BY <1>1, <1>2, <1>5 DEF Range
<1> QED
  BY <1>6, <1>7 DEF got

(* Every pointer of its top is in the range of the walk.                   *)
LEMMA RootRange ==
    ASSUME mem = InitTrees, NEW n, IsTopNode(n, ROOT_TREE, mem[ROOT_TREE], mem[ROOT_TREE].top.at),
           NEW i \in 1..Width(ROOT_TREE)
    PROVE  InRange(n.items, i, MinKey, MaxKey)
<1>1. DOMAIN n.items = 1..Width(ROOT_TREE) /\ Width(ROOT_TREE) \in Nat
  BY TreesAre DEF IsTopNode
<1>2. ASSUME NEW j \in 1..Width(ROOT_TREE) PROVE n.items[j].key[1] \in 0..EXTENT_CSUM_OBJECTID
  <2>0. PICK its : its = mem[ROOT_TREE].leaf[j].items
    OBVIOUS
  <2>1. n.items[j].key = its[1].key
    BY <2>0 DEF IsTopNode
  <2>2. j \in DOMAIN RootLayout
    BY TreesAre
  <2>3. RootLayout[j] \in Seq(Nat) /\ RootLayout[j] # <<>>
    BY <2>2, StoreAssumption, ScanAssumption
  <2>4. 1 \in DOMAIN RootLayout[j]
    BY <2>3
  <2>5. /\ DOMAIN its = DOMAIN RootLayout[j]
        /\ \A x \in DOMAIN its : its[x].key = <<RootLayout[j][x], ROOT_ITEM, 0>>
    <3>1. TreeShape(ROOT_TREE, mem[ROOT_TREE], 1)
      BY FirstTrees, TreesAre
    <3>2. MayHold(ROOT_TREE, j, its)
      BY <2>0, <3>1 DEF TreeShape
    <3> QED
      BY <3>2 DEF MayHold
  <2>6. RootLayout[j][1] \in 0..EXTENT_CSUM_OBJECTID
    BY <2>2, <2>4, ScanAssumption DEF Range
  <2> QED
    BY <2>1, <2>4, <2>5, <2>6
<1>3. KeyLess(n.items[i].key, MaxKey)
  BY <1>2, WholeRange
<1>4. ASSUME i < Len(n.items) PROVE KeyLess(MinKey, n.items[i + 1].key)
  <2>1. Len(n.items) = Width(ROOT_TREE)
    BY <1>1
  <2>2. i + 1 \in 1..Width(ROOT_TREE)
    BY <1>1, <1>4, <2>1
  <2> QED
    BY <1>2, <2>2, WholeRange
<1> QED
  BY <1>3, <1>4 DEF InRange

(* At first.                                                               *)
LEMMA FirstInit == Init => FirstOK /\ Unharmed
<1> SUFFICES ASSUME Init PROVE FirstOK /\ Unharmed
  OBVIOUS
<1>1. PICK bad \in BadCopies, badSupers \in SUBSET Superblocks :
        InitStore(Blocks \cup {ChunkRoot}, ScanNode, bad, badSupers)
  BY DEF Init
<1> DEFINE all == Blocks \cup {ChunkRoot}
<1>2. mem = InitTrees /\ committed = mem
  BY <1>1 DEF InitStore
<1>3. Gen = 1
  BY <1>2, FirstTrees, TreesAre DEF Gen
<1>4. ASSUME NEW i \in DOMAIN supers, supers[i].kind = "super" PROVE supers[i] = SuperOf(mem)
  <2>1. supers = [k \in 1..3 |-> IF k \notin Superblocks THEN [kind |-> "eof"]
                                 ELSE IF k \in badSupers THEN Garbage ELSE SuperOf(mem)]
    BY <1>1 DEF InitStore
  <2>2. supers[i] \in {[kind |-> "eof"], Garbage, SuperOf(mem)}
    BY <2>1
  <2>3. [kind |-> "eof"].kind # "super" /\ Garbage.kind # "super"
    BY DEF Garbage
  <2> QED
    BY <1>4, <2>2, <2>3
<1>7. ASSUME NEW b \in all, NEW p \in Phys(b)
      PROVE  disk[p] \in BadKinds \/ disk[p] = ScanNode(b)
  BY FirstCopies
<1>8. NodesInUse \subseteq all
  BY LayoutAssumption DEF NodesInUse, Used
<1>9. FirstOK
  BY <1>2, <1>3, <1>4, <1>7, <1>8 DEF FirstOK
<1>10. /\ pc = "super" /\ roots = [t \in {FS_TREE, CSUM_TREE, DEV_TREE} |-> {}]
       /\ cnt = [c \in Counters |-> 0] /\ missed = FALSE
  BY DEF Init
<1>11. Clean
  BY <1>10 DEF Clean, Counters
<1>12. Unharmed
  BY <1>10, <1>11 DEF Unharmed
<1> QED
  BY <1>9, <1>12

-----------------------------------------------------------------------------
(* The steps.                                                              *)

LEMMA FirstKept ==
    ASSUME FirstOK, UNCHANGED storeVars
    PROVE  FirstOK' /\ mem' = mem /\ (OneGoodCopy' /\ shape' = shape => OneGoodCopy)
<1>1. mem' = mem /\ disk' = disk /\ supers' = supers /\ committed' = committed
  BY DEF storeVars
<1>2. \A b : ScanNode(b)' = ScanNode(b)
  BY <1>1 DEF ScanNode, InitNode
<1>3. Gen' = Gen /\ SuperOf(mem)' = SuperOf(mem)
  BY <1>1 DEF Gen, SuperOf
<1>4. FirstOK'
  BY <1>1, <1>2, <1>3 DEF FirstOK
<1>5. OneGoodCopy' /\ shape' = shape => OneGoodCopy
  BY <1>1, <1>2 DEF OneGoodCopy, GoodSupers
<1> QED
  BY <1>1, <1>4, <1>5

(* What a walk's queue and roots say of the trees is said of them after a  *)
(* step too.                                                               *)
LEMMA WalkKept ==
    ASSUME mem' = mem, NEW t
    PROVE  /\ ToLeaves(t, queue)' <=> ToLeaves(t, queue')
           /\ RootsSoFar(queue, roots)' <=> RootsSoFar(queue', roots')
           /\ AtTop(t)' <=> queue' = <<Ref(mem[t].top.at, DontCheck)>>
<1>1. ToLeaves(t, queue)' <=> ToLeaves(t, queue')
  BY DEF ToLeaves, LeafRef
<1>2. RootsSoFar(queue, roots)' <=> RootsSoFar(queue', roots')
  BY DEF RootsSoFar, Holds, LeafRef, Gave
<1>3. AtTop(t)' <=> queue' = <<Ref(mem[t].top.at, DontCheck)>>
  BY DEF AtTop, Starts
<1> QED
  BY <1>1, <1>2, <1>3

LEMMA IdleReadSuper ==
    ASSUME SInv, FirstOK, OneGoodCopy, Unharmed, ReadSuper
    PROVE  Unharmed'
<1>1. pc = "super" /\ UNCHANGED storeVars
  BY DEF ReadSuper
<1>2. GoodSupers # {} /\ shape = "single" /\ Gen = 1
  BY DEF OneGoodCopy, Gen
<1>3. /\ sb' = read_superblock
      /\ cnt' = [cnt EXCEPT !["mirror"] = IF 1 \in GoodSupers THEN 0 ELSE 1]
      /\ map' = SysChunks /\ pc' = "chunk" /\ roots' = roots /\ missed' = missed
  BY <1>2 DEF ReadSuper
<1>4. mem' = mem
  BY <1>1, FirstKept
<1>5. sb' = SuperOf(mem)
  <2>1. GoodSupers \in SUBSET Nat
    BY DEF SInv, StoreOK, SupersOK, GoodSupers
  <2>2. Min(GoodSupers) \in GoodSupers
    BY <1>2, <2>1, MinIn
  <2> QED
    BY <1>2, <1>3, <2>2 DEF FirstOK, read_superblock, GoodSupers
<1>6. sb'.root = mem[ROOT_TREE].top.at
  BY <1>5 DEF SuperOf
<1>7. Clean'
  <2>1. cnt \in [Counters -> Nat] /\ {"header", "read", "stale"} \subseteq Counters
    BY DEF SInv, CountsOK, Counters
  <2> QED
    BY <1>3, <2>1 DEF Unharmed, Clean
<1> QED
  BY <1>3, <1>4, <1>6, <1>7 DEF Unharmed

LEMMA IdleWalkChunkTree ==
    ASSUME SInv, FirstOK, OneGoodCopy, Unharmed, WalkChunkTree
    PROVE  Unharmed'
<1>1. /\ pc = "chunk" /\ queue # <<>>
      /\ OpenWalk(CHUNK_TREE, Got)
      /\ UNCHANGED <<storeVars, shape, pc, sb, map, roots, extents, entries, ext, emitted, reported>>
  BY DEF WalkChunkTree
<1>2. CountAtOpen(Got) /\ Note(Got, CHUNK_TREE, TRUE) /\ mem' = mem
  BY <1>1, FirstKept DEF OpenWalk
<1>3. queue = <<Ref(ChunkRoot, DontCheck)>>
  BY <1>1 DEF SInv, QueueOK, Starts
<1>4. Top = Ref(ChunkRoot, DontCheck)
  BY <1>3 DEF Top, Last
<1>5. Got = read_node(SysChunks, ChunkRoot, DontCheck)
  BY <1>1, <1>4 DEF Got, Ref, Unharmed
<1> DEFINE n == ScanNode(ChunkRoot)
<1>6. /\ n.kind = "node" /\ n.bytenr = ChunkRoot /\ n.fsid = "own" /\ n.level = 0
      /\ n.owner = CHUNK_TREE
  BY DEF ScanNode, Node
<1> HIDE DEF n
<1>7. Fine(Got) /\ Got.node = n
  <2>1. validate_header(n, ChunkRoot, DontCheck)
    BY <1>6 DEF validate_header
  <2>2. SysChunks \in SUBSET Chunks /\ lookup_stripes(SysChunks, ChunkRoot) # <<>>
        /\ ChunkRoot \in NodesInUse
    BY ScanAssumption DEF NodesInUse
  <2> QED
    BY <1>5, <1>6, <2>1, <2>2, GoodRead DEF n, SInv
<1>8. ~NotTheRoot(Got, CHUNK_TREE)
  BY <1>6, <1>7 DEF NotTheRoot, Height
<1>9. Clean'
  BY <1>2, <1>7, <1>8, StaysClean DEF SInv, Unharmed
<1> QED
  BY <1>1, <1>2, <1>9 DEF Unharmed

LEMMA IdleChunksKnown ==
    ASSUME SInv, FirstOK, OneGoodCopy, Unharmed, ChunksKnown
    PROVE  Unharmed'
<1>1. pc = "chunk" /\ UNCHANGED storeVars /\ shape = "single"
  BY DEF ChunksKnown, OneGoodCopy
<1>2. /\ queue' = <<Ref(sb.root, DontCheck)>> /\ pc' = "root"
      /\ UNCHANGED <<sb, roots, cnt, missed>>
  BY <1>1 DEF ChunksKnown, validate_data_profiles
<1>3. mem' = mem /\ Clean'
  BY <1>1, <1>2, FirstKept, CleanKept DEF Unharmed
<1>4. AtTop(ROOT_TREE)'
  BY <1>1, <1>2, <1>3, WalkKept DEF Unharmed
<1> QED
  BY <1>1, <1>2, <1>3, <1>4 DEF Unharmed

LEMMA IdleWalkRootTree ==
    ASSUME SInv, FirstOK, OneGoodCopy, Unharmed, WalkRootTree
    PROVE  Unharmed'
<1> DEFINE its   == ItemsOf(Got, ROOT_ITEM)
           ids   == {it.key[1] : it \in its}
           at(t) == (CHOOSE it \in its : it.key[1] = t).val
<1>1. /\ pc = "root" /\ queue # <<>>
      /\ OpenWalk(ROOT_TREE, Got)
      /\ roots' = [t \in DOMAIN roots |-> IF t \in ids THEN {at(t)} ELSE roots[t]]
      /\ UNCHANGED <<storeVars, shape, pc, sb, map, found, extents, entries, ext, emitted, reported>>
  BY DEF WalkRootTree
<1>2. /\ queue' = Pop(queue, Got, MinKey, MaxKey) /\ CountAtOpen(Got) /\ Note(Got, ROOT_TREE, TRUE)
      /\ mem' = mem
  BY <1>1, FirstKept DEF OpenWalk
<1>3. StoreOK /\ CountsOK /\ map = Chunks /\ queue \in Seq(Refs) /\ Clean
      /\ DOMAIN roots = {FS_TREE, CSUM_TREE, DEV_TREE}
  BY <1>1 DEF SInv, OpenOK, QueueOK, Unharmed
<1>4. mem = InitTrees
  BY DEF FirstOK, OneGoodCopy, Gen
<1> DEFINE Leafy(i) == AtLeaf(Got) /\ Got.node.items = mem[ROOT_TREE].leaf[i].items
           Was(x) == Holds(queue, ROOT_TREE, x) \/ Gave(x, roots)
<1>5. \/ ~AtLeaf(Got) /\ \A x \in 1..Width(ROOT_TREE) : Holds(queue', ROOT_TREE, x)
      \/ \E i \in 1..Width(ROOT_TREE) : /\ Leafy(i)
            /\ \A x \in 1..Width(ROOT_TREE) : x = i \/ Holds(queue', ROOT_TREE, x) \/ Gave(x, roots)
  <2>1. CASE AtTop(ROOT_TREE)
    <3>1. TopPopped(ROOT_TREE, queue', MinKey, MaxKey)
      BY <1>2, <1>3, <2>1, PopFirstTop
    <3>2. CASE AtLeaf(Got)
      <4>1. Width(ROOT_TREE) = 1 /\ Got.node.items = mem[ROOT_TREE].leaf[1].items
        BY <3>1, <3>2 DEF TopPopped
      <4>2. \A x \in 1..Width(ROOT_TREE) : x = 1
        BY <4>1
      <4>3. 1 \in 1..Width(ROOT_TREE)
        BY <4>1
      <4> QED
        BY <3>2, <4>1, <4>2, <4>3
    <3>3. CASE ~AtLeaf(Got)
      <4>1. /\ IsTopNode(Got.node, ROOT_TREE, mem[ROOT_TREE], mem[ROOT_TREE].top.at)
            /\ \A x \in 1..Width(ROOT_TREE) :
                 InRange(Got.node.items, x, MinKey, MaxKey) => Holds(queue', ROOT_TREE, x)
        BY <3>1, <3>3 DEF TopPopped
      <4> QED
        BY <1>4, <3>3, <4>1, RootRange
    <3> QED
      BY <3>2, <3>3
  <2>2. CASE ToLeaves(ROOT_TREE, queue) /\ RootsSoFar(queue, roots)
    <3>1. PICK i \in 1..Width(ROOT_TREE) : LeafPoppedAt(ROOT_TREE, i, queue')
      BY <1>1, <1>2, <1>3, <2>2, PopFirstLeaf
    <3>2. Leafy(i)
      BY <3>1 DEF LeafPoppedAt
    <3>3. \A x \in 1..Width(ROOT_TREE) : x # i /\ Holds(queue, ROOT_TREE, x) => Holds(queue', ROOT_TREE, x)
      BY <3>1 DEF LeafPoppedAt
    <3>4. \A x \in 1..Width(ROOT_TREE) : Was(x)
      BY <2>2 DEF RootsSoFar
    <3> QED
      BY <3>2, <3>3, <3>4
  <2> QED
    BY <1>1, <2>1, <2>2 DEF Unharmed
<1>6. Fine(Got) /\ ~NotTheRoot(Got, ROOT_TREE) /\ ToLeaves(ROOT_TREE, queue')
  <2>1. CASE AtTop(ROOT_TREE)
    <3>1. TopPopped(ROOT_TREE, queue', MinKey, MaxKey)
      BY <1>2, <1>3, <2>1, PopFirstTop
    <3> QED
      BY <3>1 DEF TopPopped
  <2>2. CASE ToLeaves(ROOT_TREE, queue)
    <3>1. PICK i \in 1..Width(ROOT_TREE) : LeafPoppedAt(ROOT_TREE, i, queue')
      BY <1>1, <1>2, <1>3, <2>2, PopFirstLeaf
    <3> QED
      BY <3>1 DEF LeafPoppedAt
  <2> QED
    BY <1>1, <2>1, <2>2 DEF Unharmed
<1>7. Clean'
  BY <1>2, <1>3, <1>6, StaysClean
<1> HIDE DEF its
<1>8. ASSUME NEW t \in ids PROVE \E it \in its : it.key[1] = t /\ at(t) = it.val
  <2>1. \E it \in its : it.key[1] = t
    OBVIOUS
  <2> QED
    BY <2>1
<1>9. ASSUME NEW i \in 1..Width(ROOT_TREE), Leafy(i)
      PROVE  /\ \A it \in its : it.key[1] \in DOMAIN Contents => it.val = mem[it.key[1]].top.at
             /\ \A t \in Range(RootLayout[i]) : t \in ids
  BY <1>4, <1>9, RootsGiven DEF its
<1>10. ~AtLeaf(Got) => ids = {}
  BY DEF its, ItemsOf
<1> HIDE DEF ids, at, Leafy
<1>11. DOMAIN roots' = DOMAIN roots
       /\ \A t \in DOMAIN roots : roots'[t] = IF t \in ids THEN {at(t)} ELSE roots[t]
  BY <1>1
<1>12. ASSUME NEW t \in {CSUM_TREE, DEV_TREE} PROVE roots'[t] \subseteq {mem[t].top.at}
  <2>1. t \in DOMAIN roots /\ t \in DOMAIN Contents
    BY <1>3, TreesAre
  <2>2. roots[t] \subseteq {mem[t].top.at}
    BY DEF Unharmed
  <2>3. t \in ids => at(t) = mem[t].top.at
    BY <1>5, <1>8, <1>9, <1>10, <2>1
  <2> QED
    BY <1>11, <2>1, <2>2, <2>3
<1>13. ASSUME NEW x \in 1..Width(ROOT_TREE) PROVE Holds(queue', ROOT_TREE, x) \/ Gave(x, roots')
  <2>1. Gave(x, roots) => Gave(x, roots')
    BY <1>11 DEF Gave
  <2>2. Leafy(x) => Gave(x, roots')
    <3> SUFFICES ASSUME Leafy(x), NEW t \in Range(RootLayout[x]) \cap DOMAIN roots'
                 PROVE  roots'[t] # {}
      BY DEF Gave
    <3>1. t \in ids
      BY <1>9
    <3> QED
      BY <1>11, <3>1
  <2> QED
    BY <1>5, <2>1, <2>2
<1>14. RootsSoFar(queue', roots')
  BY <1>13 DEF RootsSoFar
<1>15. ToLeaves(ROOT_TREE, queue)' /\ RootsSoFar(queue, roots)'
  BY <1>2, <1>6, <1>14, WalkKept
<1> QED
  BY <1>1, <1>2, <1>7, <1>12, <1>15 DEF Unharmed

(* A root that was found is the tree's.                                    *)
LEMMA RootRefTop ==
    ASSUME SInv, Unharmed, NEW t \in {CSUM_TREE, DEV_TREE}, roots[t] # {}
    PROVE  RootRef(t) = <<Ref(mem[t].top.at, DontCheck)>>
<1> DEFINE b == mem[t].top.at
<1>1. roots[t] = {b}
  BY DEF Unharmed
<1> HIDE DEF b
<1>2. b \in Int
  <2>1. roots[t] \subseteq Blocks
    BY DEF SInv, OpenOK
  <2>2. b \in Blocks
    BY <1>1, <2>1
  <2>3. Blocks \subseteq Nat
    BY StoreAssumption
  <2> QED
    BY <2>2, <2>3
<1>3. Max({b}) = b
  BY <1>2 DEF Max
<1>4. Max(roots[t]) = b
  BY <1>1, <1>3
<1> QED
  BY <1>4 DEF RootRef, b

LEMMA IdleRootsKnown ==
    ASSUME SInv, FirstOK, OneGoodCopy, Unharmed, RootsKnown
    PROVE  Unharmed'
<1>1. pc = "root" /\ queue = <<>> /\ UNCHANGED storeVars
  BY DEF RootsKnown
<1>2. RootsSoFar(queue, roots)
  <2>1. ~AtTop(ROOT_TREE)
    BY <1>1 DEF AtTop, Starts
  <2> QED
    BY <1>1, <2>1 DEF Unharmed
<1>3. ASSUME NEW t \in {FS_TREE, CSUM_TREE, DEV_TREE} PROVE roots[t] # {}
  <2>1. t \in DOMAIN roots
    BY DEF SInv, OpenOK
  <2>2. PICK i \in DOMAIN RootLayout : t \in Range(RootLayout[i])
    BY ScanAssumption
  <2>3. i \in 1..Width(ROOT_TREE)
    BY TreesAre
  <2>4. ~Holds(queue, ROOT_TREE, i)
    BY <1>1 DEF Holds
  <2> QED
    BY <1>2, <2>1, <2>2, <2>3, <2>4 DEF RootsSoFar, Gave
<1>4. /\ cnt' = [cnt EXCEPT !["header"] = IF roots[DEV_TREE] = {} THEN @ + 1 ELSE @]
      /\ queue' = RootRef(DEV_TREE) /\ pc' = "dev" /\ UNCHANGED <<sb, roots, missed>>
  BY <1>3 DEF RootsKnown
<1>5. mem' = mem
  BY <1>1, FirstKept
<1>6. Clean'
  <2>1. cnt \in [Counters -> Nat] /\ {"header", "read", "stale"} \subseteq Counters
    BY DEF SInv, CountsOK, Counters
  <2>2. \A c \in Counters : cnt'[c] = cnt[c]
    BY <1>3, <1>4, <2>1
  <2> QED
    BY <1>4, <2>1, <2>2 DEF Unharmed, Clean
<1>7. AtTop(DEV_TREE)'
  BY <1>3, <1>4, <1>5, RootRefTop, WalkKept
<1> QED
  BY <1>4, <1>5, <1>6, <1>7 DEF Unharmed

LEMMA IdleWalkDevTree ==
    ASSUME SInv, FirstOK, OneGoodCopy, Unharmed, WalkDevTree
    PROVE  Unharmed'
<1>1. /\ pc = "dev" /\ queue # <<>> /\ OpenWalk(DEV_TREE, Got)
      /\ UNCHANGED <<storeVars, shape, pc, sb, map, found, roots, entries, ext, emitted, reported>>
  BY DEF WalkDevTree
<1>2. /\ queue' = Pop(queue, Got, MinKey, MaxKey) /\ CountAtOpen(Got) /\ Note(Got, DEV_TREE, TRUE)
      /\ mem' = mem
  BY <1>1, FirstKept DEF OpenWalk
<1>3. StoreOK /\ CountsOK /\ map = Chunks /\ queue \in Seq(Refs) /\ Clean
  BY <1>1 DEF SInv, OpenOK, QueueOK, Unharmed
<1>4. Fine(Got) /\ ~NotTheRoot(Got, DEV_TREE) /\ ToLeaves(DEV_TREE, queue')
  <2>1. CASE AtTop(DEV_TREE)
    <3>1. TopPopped(DEV_TREE, queue', MinKey, MaxKey)
      BY <1>2, <1>3, <2>1, PopFirstTop
    <3> QED
      BY <3>1 DEF TopPopped
  <2>2. CASE ToLeaves(DEV_TREE, queue)
    <3>1. PICK i \in 1..Width(DEV_TREE) : LeafPoppedAt(DEV_TREE, i, queue')
      BY <1>1, <1>2, <1>3, <2>2, PopFirstLeaf
    <3> QED
      BY <3>1 DEF LeafPoppedAt
  <2> QED
    BY <1>1, <2>1, <2>2 DEF Unharmed
<1>5. Clean'
  BY <1>2, <1>3, <1>4, StaysClean
<1>6. ToLeaves(DEV_TREE, queue)'
  BY <1>2, <1>4, WalkKept
<1> QED
  BY <1>1, <1>2, <1>5, <1>6 DEF Unharmed

LEMMA IdleStartExtent ==
    ASSUME SInv, FirstOK, Unharmed, pc \in {"dev", "csum"}, NEW i, StartExtent(i),
           UNCHANGED <<storeVars, sb, roots, cnt, missed>>
    PROVE  Unharmed'
<1>1. mem' = mem /\ Clean'
  BY FirstKept, CleanKept DEF Unharmed
<1>2. roots[CSUM_TREE] # {}
  BY DEF SInv, OpenOK
<1>3. pc' = "done" \/ (pc' = "csum" /\ queue' = RootRef(CSUM_TREE))
  BY DEF StartExtent
<1>4. pc' = "csum" => AtTop(CSUM_TREE)'
  BY <1>1, <1>2, <1>3, RootRefTop, WalkKept
<1> QED
  BY <1>1, <1>3, <1>4 DEF Unharmed

LEMMA IdleWalkCsumTree ==
    ASSUME SInv, FirstOK, OneGoodCopy, Unharmed, WalkCsumTree
    PROVE  Unharmed'
<1> DEFINE keys == RangeKeys(extents[ext])
<1>1. /\ pc = "csum" /\ queue # <<>>
      /\ queue' = Pop(queue, Got, keys.lo, keys.hi)
      /\ CountOnce(Got) /\ Note(Got, CSUM_TREE, FALSE)
      /\ UNCHANGED <<storeVars, shape, pc, sb, map, found, roots, extents, ext, emitted>>
  BY DEF WalkCsumTree
<1>2. mem' = mem
  BY <1>1, FirstKept
<1> HIDE DEF keys
<1>3. StoreOK /\ CountsOK /\ map = Chunks /\ queue \in Seq(Refs) /\ Clean
  BY <1>1 DEF SInv, OpenOK, QueueOK, Unharmed
<1>4. Fine(Got) /\ ~NotTheRoot(Got, CSUM_TREE) /\ ToLeaves(CSUM_TREE, queue')
  <2>1. CASE AtTop(CSUM_TREE)
    <3>1. TopPopped(CSUM_TREE, queue', keys.lo, keys.hi)
      BY <1>1, <1>3, <2>1, PopFirstTop
    <3> QED
      BY <3>1 DEF TopPopped
  <2>2. CASE ToLeaves(CSUM_TREE, queue)
    <3>1. PICK i \in 1..Width(CSUM_TREE) : LeafPoppedAt(CSUM_TREE, i, queue')
      BY <1>1, <1>3, <2>2, PopFirstLeaf
    <3> QED
      BY <3>1 DEF LeafPoppedAt
  <2> QED
    BY <1>1, <2>1, <2>2 DEF Unharmed
<1>5. Clean'
  BY <1>1, <1>3, <1>4, StaysClean
<1>6. ToLeaves(CSUM_TREE, queue)'
  BY <1>2, <1>4, WalkKept
<1> QED
  BY <1>1, <1>2, <1>5, <1>6 DEF Unharmed

-----------------------------------------------------------------------------
(* Together.                                                               *)

LEMMA StepIdle == ASSUME SInv, IdleOK, [Next]_vars PROVE IdleOK'
<1>1. FirstOK /\ (OneGoodCopy => Unharmed)
  BY DEF IdleOK
<1>2. CASE ScanStep \/ UNCHANGED vars
  <2>1. UNCHANGED storeVars /\ shape' = shape
    BY <1>2 DEF ScanStep, ReadSuper, WalkChunkTree, ChunksKnown, WalkRootTree, RootsKnown, WalkDevTree,
                ExtentsKnown, WalkCsumTree, RangeDone, Fail, vars, scanVars
  <2>2. FirstOK' /\ (OneGoodCopy' => OneGoodCopy)
    BY <1>1, <2>1, FirstKept
  <2>3. ASSUME OneGoodCopy' PROVE Unharmed'
    <3>1. OneGoodCopy /\ Unharmed
      BY <1>1, <2>2, <2>3
    <3>2. CASE ExtentsKnown
      BY <1>1, <3>1, <3>2, IdleStartExtent DEF ExtentsKnown
    <3>3. CASE RangeDone
      BY <1>1, <3>1, <3>3, IdleStartExtent DEF RangeDone
    <3>4. CASE UNCHANGED vars
      <4>1. UNCHANGED <<mem, pc, sb, map, queue, roots, cnt, missed>>
        BY <3>4 DEF vars, storeVars, scanVars, walkVars
      <4>2. \A t : /\ ToLeaves(t, queue)' <=> ToLeaves(t, queue)
                   /\ AtTop(t)' <=> AtTop(t)
        BY <4>1, WalkKept DEF AtTop, Starts
      <4>3. RootsSoFar(queue, roots)' <=> RootsSoFar(queue, roots)
        BY <4>1, WalkKept
      <4>4. Clean' = Clean
        BY <4>1, CleanKept
      <4> QED
        BY <3>1, <4>1, <4>2, <4>3, <4>4 DEF Unharmed
    <3> QED
      BY <1>1, <1>2, <3>1, <3>2, <3>3, <3>4, IdleReadSuper, IdleWalkChunkTree, IdleChunksKnown,
         IdleWalkRootTree, IdleRootsKnown, IdleWalkDevTree, IdleWalkCsumTree DEF ScanStep
  <2> QED
    BY <2>2, <2>3 DEF IdleOK
<1>3. CASE \E t \in DOMAIN Contents : \E i \in DOMAIN Contents[t] : FsWriteNodes(t, i)
  <2>1. PICK t \in DOMAIN Contents : \E i \in DOMAIN Contents[t] : FsWriteNodes(t, i)
    BY <1>3
  <2>2. PICK i \in DOMAIN Contents[t] : FsWriteNodes(t, i)
    BY <2>1
  <2>3. Gen' = Gen + 1
    BY <2>2, Transaction DEF SInv
  <2>4. Gen \in Nat \ {0}
    BY <1>1 DEF FirstOK
  <2>5. Gen' \in Nat \ {0} /\ Gen' # 1
    BY <2>3, <2>4
  <2> QED
    BY <2>5 DEF IdleOK, FirstOK, OneGoodCopy, Gen
<1>4. CASE FsWriteSuper
  <2>1. mem # committed /\ mem' = mem
    BY <1>4 DEF FsWriteSuper, WriteSuper
  <2>2. Gen \in Nat \ {0} /\ Gen # 1 /\ Gen' = Gen
    BY <1>1, <2>1 DEF FirstOK, Gen
  <2> QED
    BY <2>2 DEF IdleOK, FirstOK, OneGoodCopy, Gen
<1> QED
  BY <1>2, <1>3, <1>4 DEF Next

(* On an idle filesystem one good copy of every node and of the superblock *)
(* is enough: the scan does not fail, hands every sector to the scrub and  *)
(* reports no error (read_node of reader.rs, Superblock::read).            *)
THEOREM MirrorsSufficeHolds == Spec => []MirrorsSuffice
<1>1. Init => IdleOK
  BY FirstInit DEF IdleOK
<1>2. SInv /\ IdleOK /\ [Next]_vars => IdleOK'
  BY StepIdle
<1>3. SInv /\ GapsShown /\ IdleOK => MirrorsSuffice
  <2> SUFFICES ASSUME SInv, GapsShown, IdleOK, OneGoodCopy
               PROVE  /\ pc # "failed"
                      /\ pc = "done" => Covered /\ cnt["header"] + cnt["read"] + cnt["stale"] = 0
    BY DEF MirrorsSuffice
  <2>1. pc # "failed" /\ ~missed /\ cnt["header"] = 0 /\ cnt["read"] = 0 /\ cnt["stale"] = 0
    BY DEF IdleOK, Unharmed, Clean
  <2>2. cnt["header"] + cnt["read"] + cnt["stale"] = 0
    BY <2>1
  <2> QED
    BY <2>1, <2>2 DEF GapsShown
<1> QED
  BY <1>1, <1>2, <1>3, ScanInvariance, GapsShownHolds, PTL DEF Spec

=============================================================================
