-------------------------- MODULE ParityEngineProofs --------------------------
(***************************************************************************)
(* Proofs about ParityEngine, over every field of characteristic 2 and any *)
(* number of disks: what P, Q and both rebuild, also from a stripe torn by *)
(* a racing write, and that parity computed from the corrupt block is      *)
(* recognised.                                                             *)
(***************************************************************************)
EXTENDS ParityEngine, FiniteSetTheorems, TLAPS

-----------------------------------------------------------------------------
(* The field.                                                              *)

(* The axioms one by one.                                                  *)
LEMMA PlusAssociates ==
    \A a \in F : \A b \in F : \A c \in F : Plus(Plus(a, b), c) = Plus(a, Plus(b, c))
  BY FieldAxioms

LEMMA TimesAssociates ==
    \A a \in F : \A b \in F : \A c \in F : Times(Times(a, b), c) = Times(a, Times(b, c))
  BY FieldAxioms

LEMMA Distributes ==
    \A a \in F : \A b \in F : \A c \in F :
        Times(a, Plus(b, c)) = Plus(Times(a, b), Times(a, c))
  BY FieldAxioms

(* Sums and products stay in the field, and a summand added twice is gone. *)
LEMMA Cancel ==
    ASSUME NEW a \in F, NEW b \in F
    PROVE  /\ Plus(a, b) \in F /\ Times(a, b) \in F
           /\ Plus(Plus(a, b), b) = a /\ Plus(b, Plus(a, b)) = a
<1>1. Plus(a, b) \in F /\ Times(a, b) \in F
  BY FieldAxioms
<1>2. Plus(Plus(a, b), b) = Plus(a, Plus(b, b))
  BY FieldAxioms
<1>3. Plus(b, b) = 0 /\ Plus(a, 0) = a
  BY FieldAxioms
<1>4. Plus(b, Plus(a, b)) = Plus(Plus(a, b), b)
  BY <1>1, FieldAxioms
<1> QED
  BY <1>1, <1>2, <1>3, <1>4

(* Characteristic 2: a sum is zero only of equals.                         *)
LEMMA ZeroSum ==
    ASSUME NEW a \in F, NEW b \in F, Plus(a, b) = 0
    PROVE  a = b
<1>1. Plus(Plus(a, b), b) = a
  BY Cancel
<1>2. Plus(0, b) = Plus(b, 0) /\ Plus(b, 0) = b
  BY FieldAxioms
<1> QED
  BY <1>1, <1>2

(* Two sums with a summand in common: what is left of them.                *)
LEMMA SumOfSums ==
    ASSUME NEW a \in F, NEW b \in F, NEW c \in F
    PROVE  Plus(Plus(a, b), Plus(a, c)) = Plus(b, c)
<1>1. Plus(Plus(a, b), Plus(a, c)) = Plus(Plus(b, a), Plus(a, c))
  BY FieldAxioms
<1>2. Plus(a, c) \in F
  BY Cancel
<1>3. Plus(Plus(b, a), Plus(a, c)) = Plus(b, Plus(a, Plus(a, c)))
  BY <1>2, PlusAssociates
<1>4. Plus(a, c) = Plus(c, a) /\ Plus(a, Plus(c, a)) = c
  BY Cancel, FieldAxioms
<1> QED
  BY <1>1, <1>3, <1>4

(* The two-disk solve of the engine: from the sum of two blocks and their  *)
(* sum weighted with c and e*c, the second block.                          *)
LEMMA SolveSecond ==
    ASSUME NEW x \in F, NEW y \in F, NEW c \in F, NEW e \in F,
           NEW d, d = Times(e, c), c # d
    PROVE  Plus(Times(Inv(Plus(e, 1)), Plus(x, y)),
                Times(Inv(Plus(c, d)), Plus(Times(c, x), Times(d, y)))) = y
<1> DEFINE k == Plus(e, 1)
           u == Inv(Plus(c, d))
           i == Inv(k)
<1>0. d \in F /\ 1 \in F /\ 0 \in F /\ k \in F
  BY FieldAxioms, Cancel
<1>1. k # 0
  <2> SUFFICES ASSUME k = 0 PROVE FALSE
    OBVIOUS
  <2>1. e = 1
    BY <1>0, ZeroSum
  <2> QED
    BY <2>1, FieldAxioms
<1>2. Plus(c, d) \in F /\ Plus(c, d) # 0
  BY <1>0, Cancel, ZeroSum
<1>3. u \in F /\ Times(u, Plus(c, d)) = 1 /\ i \in F /\ Times(i, k) = 1
  BY <1>0, <1>1, <1>2, FieldAxioms
<1>4. Plus(c, d) = Times(c, k)
  <2>1. Times(c, k) = Plus(Times(c, e), Times(c, 1))
    BY <1>0, FieldAxioms
  <2>2. Times(c, e) = d /\ Times(c, 1) = c
    BY <1>0, FieldAxioms
  <2>3. Plus(d, c) = Plus(c, d)
    BY <1>0, FieldAxioms
  <2> QED
    BY <2>1, <2>2, <2>3
<1>5. Times(u, c) \in F /\ Times(u, c) = i
  <2> DEFINE v == Times(u, c)
  <2>1. v \in F
    BY <1>3, Cancel
  <2>2. Times(v, k) = 1
    BY <1>0, <1>3, <1>4, TimesAssociates
  <2>3. Times(k, i) = 1
    BY <1>0, <1>3, FieldAxioms
  <2>4. Times(Times(v, k), i) = Times(v, Times(k, i))
    BY <2>1, <1>0, <1>3, TimesAssociates
  <2>5. Times(v, 1) = v /\ Times(1, i) = i
    <3> HIDE DEF v
    <3>1. 1 \in F /\ \A a \in F : Times(1, a) = a
      BY FieldAxioms
    <3>2. Times(v, 1) = Times(1, v)
      BY <2>1, <3>1, FieldAxioms
    <3> QED
      BY <1>0, <1>3, <2>1, <3>1, <3>2
  <2> QED
    BY <2>1, <2>2, <2>3, <2>4, <2>5
<1>6. Times(u, Plus(Times(c, x), Times(d, y))) = Times(i, Plus(x, Times(e, y)))
  <2>1. Times(c, x) \in F /\ Times(d, y) \in F /\ Times(e, y) \in F
    BY <1>0, Cancel
  <2>2. Times(u, Plus(Times(c, x), Times(d, y)))
          = Plus(Times(u, Times(c, x)), Times(u, Times(d, y)))
    BY <1>3, <2>1, Distributes
  <2>3. Times(u, Times(c, x)) = Times(i, x)
    BY <1>3, <1>5, TimesAssociates
  <2>4. Times(d, y) = Times(c, Times(e, y))
    <3>1. d = Times(c, e)
      BY FieldAxioms
    <3> QED
      BY <3>1, FieldAxioms
  <2>5. Times(u, Times(c, Times(e, y))) = Times(i, Times(e, y))
    BY <1>3, <1>5, <2>1, TimesAssociates
  <2>6. Times(i, Plus(x, Times(e, y))) = Plus(Times(i, x), Times(i, Times(e, y)))
    BY <1>3, <2>1, Distributes
  <2> QED
    BY <2>2, <2>3, <2>4, <2>5, <2>6
<1>7. Plus(Times(i, Plus(x, y)), Times(i, Plus(x, Times(e, y)))) = y
  <2>1. Times(e, y) \in F /\ Plus(x, y) \in F /\ Plus(x, Times(e, y)) \in F
    BY Cancel
  <2>2. Plus(Times(i, Plus(x, y)), Times(i, Plus(x, Times(e, y))))
          = Times(i, Plus(Plus(x, y), Plus(x, Times(e, y))))
    BY <1>3, <2>1, Distributes
  <2>3. Plus(Plus(x, y), Plus(x, Times(e, y))) = Plus(y, Times(e, y))
    BY <2>1, SumOfSums
  <2>4. Plus(y, Times(e, y)) = Times(k, y)
    <3>1. Times(y, k) = Plus(Times(y, e), Times(y, 1))
      BY <1>0, FieldAxioms
    <3>2. Times(y, e) = Times(e, y) /\ Times(y, 1) = y /\ Times(k, y) = Times(y, k)
      BY <1>0, FieldAxioms
    <3>3. Plus(Times(e, y), y) = Plus(y, Times(e, y))
      BY <2>1, FieldAxioms
    <3> QED
      BY <3>1, <3>2, <3>3
  <2>5. Times(i, Times(k, y)) = Times(Times(i, k), y)
    BY <1>0, <1>3, TimesAssociates
  <2>6. Times(1, y) = y
    BY FieldAxioms
  <2> QED
    BY <1>3, <2>2, <2>3, <2>4, <2>5, <2>6
<1> QED
  BY <1>6, <1>7

-----------------------------------------------------------------------------
(* Sums over the disks of a stripe.                                        *)

(* What is left of a stripe is part of a stripe.                           *)
LEMMA Part ==
    ASSUME NEW S \in SUBSET Slots, NEW f \in [S -> F]
    PROVE  /\ Sum(f) \in F /\ Sum(Weighted(f)) \in F
           /\ Weighted(f) \in [S -> F]
           /\ \A s \in S : f[s] \in F /\ Exp(s - 1) \in F /\ Times(Exp(s - 1), f[s]) \in F
<1>1. \A t \in S : Exp(t - 1) \in F
  BY SlotsAssumption
<1>2. \A t \in S : Times(Exp(t - 1), f[t]) \in F
  BY <1>1, Cancel
<1>3. Weighted(f) = [t \in S |-> Times(Exp(t - 1), f[t])]
  BY DEF Weighted
<1>4. Weighted(f) \in [S -> F]
  BY <1>2, <1>3
<1> DEFINE g == Weighted(f)
<1>5. g \in [S -> F]
  BY <1>4
<1> HIDE DEF g
<1>6. Sum(g) \in F
  BY <1>5, SumAssumption
<1>7. Sum(f) \in F
  BY SumAssumption
<1> QED
  BY <1>1, <1>2, <1>4, <1>6, <1>7 DEF g

(* One disk is taken out of P.                                             *)
LEMMA TakeOut ==
    ASSUME NEW S \in SUBSET Slots, NEW f \in [S -> F], NEW s \in S,
           NEW r, r = [t \in S \ {s} |-> f[t]]
    PROVE  r \in [S \ {s} -> F] /\ Sum(f) = Plus(f[s], Sum(r))
  BY SumAssumption

(* One disk is taken out of Q.                                             *)
LEMMA TakeOutWeighted ==
    ASSUME NEW S \in SUBSET Slots, NEW f \in [S -> F], NEW s \in S,
           NEW r, r = [t \in S \ {s} |-> f[t]]
    PROVE  Sum(Weighted(f)) = Plus(Times(Exp(s - 1), f[s]), Sum(Weighted(r)))
<1> DEFINE g == Weighted(f)
<1>1. g = [t \in S |-> Times(Exp(t - 1), f[t])]
  BY DEF Weighted
<1>2. g \in [S -> F]
  BY Part
<1>3. Weighted(r) = [t \in S \ {s} |-> Times(Exp(t - 1), f[t])]
  BY DEF Weighted
<1> HIDE DEF g
<1>4. g[s] = Times(Exp(s - 1), f[s])
  BY <1>1
<1>5. Weighted(r) = [t \in S \ {s} |-> g[t]]
  BY <1>1, <1>3
<1>6. Sum(g) = Plus(g[s], Sum(Weighted(r)))
  BY <1>2, <1>5, SumAssumption
<1> QED
  BY <1>4, <1>6 DEF g

(* P and the other disks give the block.                                   *)
LEMMA FromP ==
    ASSUME NEW t \in [Slots -> F], NEW s \in Slots,
           NEW r, r = [u \in Slots \ {s} |-> t[u]]
    PROVE  Plus(Sum(r), ComputeP(t)) = t[s]
<1>1. r \in [Slots \ {s} -> F] /\ Sum(t) = Plus(t[s], Sum(r))
  BY TakeOut
<1>2. Sum(r) \in F
  BY <1>1, Part
<1> QED
  BY <1>1, <1>2, Cancel DEF ComputeP

(* Q and the other disks give the block.                                   *)
LEMMA FromQ ==
    ASSUME NEW t \in [Slots -> F], NEW s \in Slots,
           NEW r, r = [u \in Slots \ {s} |-> t[u]]
    PROVE  Times(Exp(1 - s), Plus(ComputeQ(t), Sum(Weighted(r)))) = t[s]
<1> DEFINE rest == Sum(Weighted(r))
           mine == Times(Exp(s - 1), t[s])
<1>1. rest \in F /\ mine \in F /\ ComputeQ(t) = Plus(mine, rest)
  <2>1. r \in [Slots \ {s} -> F]
    BY TakeOut
  <2>2. rest \in F
    BY <2>1, Part
  <2>3. mine \in F
    BY Part
  <2> QED
    BY <2>2, <2>3, TakeOutWeighted DEF ComputeQ
<1>2. Plus(ComputeQ(t), rest) = mine
  <2> HIDE DEF rest, mine
  <2> QED
    BY <1>1, Cancel
<1>3. /\ Exp(s - 1) \in F /\ Exp(1 - s) \in F /\ t[s] \in F
      /\ Times(Exp(1 - s), Exp(s - 1)) = 1
  BY SlotsAssumption
<1>4. Times(Exp(1 - s), mine) = Times(Times(Exp(1 - s), Exp(s - 1)), t[s])
  BY <1>3, TimesAssociates
<1>5. Times(1, t[s]) = t[s]
  BY <1>3, FieldAxioms
<1> QED
  BY <1>2, <1>3, <1>4, <1>5

(* What the sums without two disks leave of P and Q.                       *)
LEMMA TwoOut ==
    ASSUME NEW t \in [Slots -> F], NEW s \in Slots, NEW w \in Slots \ {s},
           NEW good, good = [u \in (Slots \ {s}) \ {w} |-> t[u]]
    PROVE  /\ Plus(ComputeP(t), Sum(good)) = Plus(t[s], t[w])
           /\ Plus(ComputeQ(t), Sum(Weighted(good)))
                = Plus(Times(Exp(s - 1), t[s]), Times(Exp(w - 1), t[w]))
<1> DEFINE T == Slots \ {s}
           one == [u \in T |-> t[u]]
<1>1. one \in [T -> F] /\ T \in SUBSET Slots /\ one[w] = t[w] /\ w \in T
  OBVIOUS
<1>2. \A x \in F : \A y \in F : \A g \in F : Plus(Plus(x, Plus(y, g)), g) = Plus(x, y)
  <2> TAKE x \in F
  <2> TAKE y \in F
  <2> TAKE g \in F
  <2>1. Plus(x, Plus(y, g)) = Plus(Plus(x, y), g) /\ Plus(x, y) \in F
    BY Cancel, PlusAssociates
  <2> QED
    BY <2>1, Cancel
<1>3. good = [u \in T \ {w} |-> one[u]] /\ good \in [T \ {w} -> F]
  OBVIOUS
<1>4. Sum(t) = Plus(t[s], Sum(one))
  BY TakeOut
<1>5. Sum(Weighted(t)) = Plus(Times(Exp(s - 1), t[s]), Sum(Weighted(one)))
  BY TakeOutWeighted
<1>6. t[s] \in F /\ Times(Exp(s - 1), t[s]) \in F
  BY Part
<1>7. t[w] \in F /\ Times(Exp(w - 1), t[w]) \in F
  BY Part
<1>8. Sum(good) \in F /\ Sum(Weighted(good)) \in F
  BY <1>3, Part
<1> HIDE DEF one, T
<1>9. Sum(one) = Plus(t[w], Sum(good))
  BY <1>1, <1>3, TakeOut
<1>10. Sum(Weighted(one)) = Plus(Times(Exp(w - 1), t[w]), Sum(Weighted(good)))
  BY <1>1, <1>3, TakeOutWeighted
<1>11. Plus(Sum(t), Sum(good)) = Plus(t[s], t[w])
  BY <1>2, <1>4, <1>6, <1>7, <1>8, <1>9
<1>12. Plus(Sum(Weighted(t)), Sum(Weighted(good)))
         = Plus(Times(Exp(s - 1), t[s]), Times(Exp(w - 1), t[w]))
  BY <1>2, <1>5, <1>6, <1>7, <1>8, <1>10
<1> QED
  BY <1>11, <1>12 DEF ComputeP, ComputeQ

-----------------------------------------------------------------------------
(* What the engine rebuilds from the blocks it gathered.                   *)

(* All other disks of the stripe have been read.                           *)
Gathered == target \in Slots /\ others \in [Slots \ {target} -> F]

(* P alone is enough if the other disks are right.                         *)
LEMMA ViaPRight ==
    ASSUME NEW t \in [Slots -> F], Gathered,
           \A s \in Slots \ {target} : others[s] = t[s], pBlock = ComputeP(t)
    PROVE  ViaP = t[target]
<1>1. others = [u \in Slots \ {target} |-> t[u]]
  BY DEF Gathered
<1> QED
  BY <1>1, FromP DEF Gathered, ViaP

(* So is Q alone.                                                          *)
LEMMA ViaQRight ==
    ASSUME NEW t \in [Slots -> F], Gathered,
           \A s \in Slots \ {target} : others[s] = t[s], qBlock = ComputeQ(t)
    PROVE  ViaQ = t[target]
<1>1. others = [u \in Slots \ {target} |-> t[u]]
  BY DEF Gathered
<1> QED
  BY <1>1, FromQ DEF Gathered, ViaQ

(* Both are enough if only the partner is wrong.                           *)
LEMMA SolveTwoRight ==
    ASSUME NEW t \in [Slots -> F], Gathered, NEW w \in Slots \ {target},
           \A s \in Slots \ {target} : s # w => others[s] = t[s],
           pBlock = ComputeP(t), qBlock = ComputeQ(t)
    PROVE  SolveTwo(w) = t[target]
<1> DEFINE good == Without(others, {w})
           dP   == Plus(pBlock, Sum(good))
           dQ   == Plus(qBlock, Sum(Weighted(good)))
           x    == t[target]
           y    == t[w]
           cx   == Exp(target - 1)
           cy   == Exp(w - 1)
<1>0. target \in Slots
  BY DEF Gathered
<1>1. good = [u \in (Slots \ {target}) \ {w} |-> t[u]]
  BY DEF Gathered, Without
<1>2. dP = Plus(x, y) /\ dQ = Plus(Times(cx, x), Times(cy, y))
  <2> HIDE DEF good
  <2> QED
    BY <1>0, <1>1, TwoOut
<1>3. x \in F /\ y \in F /\ cx \in F /\ cy \in F /\ target \in Nat /\ w \in Nat
  BY <1>0, SlotsAssumption
<1>4. Times(cx, x) \in F /\ Times(cy, y) \in F
  BY <1>3, Cancel
<1>5. CASE target < w
  <2> DEFINE e == Exp(w - target)
             dB == Plus(Times(Inv(Plus(e, 1)), dP), Times(Inv(Plus(cx, cy)), dQ))
  <2>1. e \in F /\ cx # cy /\ cy = Times(e, cx)
    BY <1>0, <1>5, SlotsAssumption
  <2>2. dB = y
    <3> HIDE DEF x, y, cx, cy, e, dP, dQ
    <3> QED
      BY <1>2, <1>3, <2>1, SolveSecond
  <2>3. (w - 1) - (target - 1) = w - target
    BY <1>3
  <2>4. SolveTwo(w) = Plus(dB, dP)
    BY <1>5, <2>3 DEF SolveTwo
  <2>5. Plus(y, Plus(x, y)) = x
    <3> HIDE DEF x, y
    <3> QED
      BY <1>3, Cancel
  <2> QED
    BY <1>2, <2>2, <2>4, <2>5
<1>6. CASE ~(target < w)
  <2> DEFINE e == Exp(target - w)
             dB == Plus(Times(Inv(Plus(e, 1)), dP), Times(Inv(Plus(cy, cx)), dQ))
  <2>1. w < target
    BY <1>3, <1>6
  <2>2. e \in F /\ cy # cx /\ cx = Times(e, cy)
    BY <1>0, <2>1, SlotsAssumption
  <2>3. dP = Plus(y, x) /\ dQ = Plus(Times(cy, y), Times(cx, x))
    <3> HIDE DEF x, y, cx, cy, dP, dQ
    <3> QED
      BY <1>2, <1>3, <1>4, FieldAxioms
  <2>4. dB = x
    <3> HIDE DEF x, y, cx, cy, e, dP, dQ
    <3> QED
      BY <1>3, <2>2, <2>3, SolveSecond
  <2>5. (target - 1) - (w - 1) = target - w
    BY <1>3
  <2>6. SolveTwo(w) = dB
    BY <1>6, <2>5 DEF SolveTwo
  <2> QED
    BY <2>4, <2>6
<1> QED
  BY <1>5, <1>6

-----------------------------------------------------------------------------
(* The inductive invariant.                                                *)

(* The engine has the blocks, or had them and came to an end.              *)
Past == pc \in {"start", "tryP", "tryQ", "tryPQ"} \/ Finished

(* The other disks are read while nothing is written to the failing one.   *)
Shape ==
    /\ others \in [DOMAIN others -> F]
    /\ truth[target] = before[target]
    /\ pc = "done" <=> result # "none"
    /\ pc = "idle" => DOMAIN others = {} /\ write = NoWrite
    /\ Past \/ pc = "gatherQ" => DOMAIN others = Slots \ {target}
    /\ pc \notin {"tryPQ", "done"} => tried = {}

(* Without a racing write, what was gathered is what the disks hold.       *)
Unraced ==
    IF write = NoWrite
      THEN /\ \A s \in DOMAIN others : others[s] = data[s]
           /\ Past \/ pc = "gatherQ" => pBlock = IF hasP THEN p ELSE Absent
           /\ Past => qBlock = IF hasQ THEN q ELSE Absent
      ELSE write.diff # 0

(* What has been tried has not verified; a failure has tried everything.   *)
Failed == pc = "done" /\ result = "failed"
Rejected ==
    /\ pc \in {"tryP", "tryQ", "tryPQ"} \/ Failed => unreadable \/ data[target] # truth[target]
    /\ (pc \in {"tryQ", "tryPQ"} \/ Failed) /\ Present(pBlock) => ViaP # truth[target]
    /\ pc = "tryPQ" \/ Failed =>
         /\ Present(qBlock) => ViaQ # truth[target]
         /\ Present(pBlock) /\ Present(qBlock) => \A s \in tried : SolveTwo(s) # truth[target]
    /\ Failed /\ Present(pBlock) /\ Present(qBlock) => tried = DOMAIN others

(* Parity agrees with the corrupt block, and no write races.               *)
BakedIn ==
    /\ write = NoWrite /\ ~unreadable /\ data[target] # truth[target]
    /\ p = ComputeP(data) /\ q = ComputeQ(data)

(* Then nothing verifies, and each parity disk is found out in its turn.   *)
FoundOut ==
    Past /\ BakedIn =>
        /\ result \in {"none", "failed"}
        /\ pc \in {"tryQ", "tryPQ", "done"} => pReason = IF hasP THEN "baked_in" ELSE "absent"
        /\ pc \in {"tryPQ", "done"} => qReason = IF hasQ THEN "baked_in" ELSE "absent"

EInv == TypeOK /\ Shape /\ Unraced /\ Rejected /\ FoundOut

-----------------------------------------------------------------------------
(* Type correctness.                                                       *)

(* Parity of a stripe is a block.                                          *)
LEMMA ParityType ==
    ASSUME NEW d \in [Slots -> F]
    PROVE  ComputeP(d) \in F /\ ComputeQ(d) \in F
  BY Part DEF ComputeP, ComputeQ

(* Every part of the invariant holds of a stripe that is not yet read.     *)
LEMMA InitInv == Init => TypeOK /\ Shape /\ Unraced /\ Rejected /\ FoundOut
<1> SUFFICES ASSUME Init PROVE TypeOK /\ Shape /\ Unraced /\ Rejected /\ FoundOut
  OBVIOUS
<1>1. truth \in [Slots -> F] /\ data = truth /\ before = truth
  BY BoundsAssumption DEF Init
<1>2. p \in F /\ q \in F
  BY <1>1, ParityType DEF Init
<1>3. others = << >> /\ DOMAIN others = {}
  BY DEF Init
<1>4. others \in [DOMAIN others -> F]
  BY <1>3
<1>5. TypeOK
  BY <1>1, <1>2, <1>3, BoundsAssumption DEF Init, TypeOK, Reasons
<1>6. Shape
  BY <1>1, <1>3, <1>4 DEF Init, Shape, Past, Finished
<1> QED
  BY <1>3, <1>5, <1>6 DEF Init, Unraced, Rejected, FoundOut, Past, Finished, Failed

(* The type invariant is inductive.                                        *)
LEMMA TypeStep == TypeOK /\ [Next]_vars => TypeOK'
<1> SUFFICES ASSUME TypeOK, [Next]_vars PROVE TypeOK'
  OBVIOUS
<1> USE DEF TypeOK, Reasons, arrayVars, configVars, inputVars, reasonVars
<1>1. CASE Rot
  <2>1. data' \in [Slots -> F] /\ p' \in F /\ q' \in F
    BY <1>1 DEF Rot
  <2>2. rotten' \in 0..MaxRot
    BY <1>1, BoundsAssumption DEF Rot
  <2> QED
    BY <1>1, <2>1, <2>2 DEF Rot
<1>2. CASE Resync
  <2>1. p' \in F /\ q' \in F
    BY <1>2, ParityType DEF Resync
  <2> QED
    BY <1>2, <2>1 DEF Resync
<1>3. CASE WriteBegin
  <2>1. PICK s \in Slots \ {target} : \E d \in Diffs :
          /\ truth' = [truth EXCEPT ![s] = Plus(truth[s], d)]
          /\ write' = [slot |-> s, diff |-> d, left |-> {"data", "p", "q"}]
    BY <1>3 DEF WriteBegin
  <2>2. PICK d \in Diffs : /\ truth' = [truth EXCEPT ![s] = Plus(truth[s], d)]
                           /\ write' = [slot |-> s, diff |-> d, left |-> {"data", "p", "q"}]
    BY <2>1
  <2>3. d \in F /\ truth \in [Slots -> F]
    BY BoundsAssumption
  <2>4. Plus(truth[s], d) \in F
    BY <2>3, Cancel
  <2>5. truth' \in [Slots -> F]
    BY <2>2, <2>3, <2>4
  <2> QED
    BY <1>3, <2>2, <2>3, <2>5 DEF WriteBegin
<1>4. ASSUME NEW disk \in {"data", "p", "q"}, WriteReaches(disk)
      PROVE  TypeOK'
  <2>1. write \in [slot : Slots, diff : F, left : SUBSET {"data", "p", "q"}]
    BY <1>4 DEF WriteReaches, NoWrite
  <2>2. write' \in [slot : Slots, diff : F, left : SUBSET {"data", "p", "q"}]
    BY <1>4, <2>1 DEF WriteReaches
  <2>3. data' \in [Slots -> F]
    BY <1>4, <2>1 DEF WriteReaches
  <2>4. write.slot \in Slots /\ write.diff \in F /\ p \in F /\ q \in F
    BY <2>1
  <2>5. Exp(write.slot - 1) \in F
    BY <2>4, SlotsAssumption
  <2>6. p' \in F /\ q' \in F
    BY <1>4, <2>4, <2>5, Cancel DEF WriteReaches
  <2> QED
    BY <1>4, <2>2, <2>3, <2>6 DEF WriteReaches
<1>5. CASE Begin
  BY <1>5 DEF Begin
<1>6. CASE GatherData
  <2>1. PICK s \in Unread :
          others' = [t \in DOMAIN others \cup {s} |-> IF t = s THEN data[s] ELSE others[t]]
    BY <1>6 DEF GatherData
  <2>2. s \in Slots \ {target} /\ data[s] \in F
    BY DEF Unread
  <2>3. DOMAIN others' = DOMAIN others \cup {s}
    BY <2>1
  <2>4. \A t \in DOMAIN others' : others'[t] \in F
    BY <2>1, <2>2
  <2> QED
    BY <1>6, <2>2, <2>3, <2>4 DEF GatherData
<1>7. CASE GatherP
  BY <1>7 DEF GatherP
<1>8. CASE GatherQ
  BY <1>8 DEF GatherQ
<1>9. CASE GatherFails
  BY <1>9 DEF GatherFails
<1>10. CASE CheckSource
  BY <1>10 DEF CheckSource
<1>11. CASE TryP
  BY <1>11 DEF TryP
<1>12. CASE TryQ
  BY <1>12 DEF TryQ
<1>13. CASE TryPartner
  <2>1. tried' \subseteq DOMAIN others
    BY <1>13 DEF TryPartner, Untried
  <2> QED
    BY <1>13, <2>1 DEF TryPartner
<1>14. CASE AllFailed
  BY <1>14 DEF AllFailed
<1>15. CASE UNCHANGED vars
  BY <1>15 DEF vars
<1> QED
  BY <1>1, <1>2, <1>3, <1>4, <1>5, <1>6, <1>7, <1>8,
     <1>9, <1>10, <1>11, <1>12, <1>13, <1>14, <1>15
     DEF Next, Array, Gather, Recover

(* What the engine gathered and where it stands has its type.              *)
THEOREM TypeCorrect == Spec => []TypeOK
<1>1. Init => TypeOK
  BY InitInv
<1> QED
  BY <1>1, TypeStep, PTL DEF Spec

-----------------------------------------------------------------------------
(* The inductive invariant is preserved, part by part.                     *)

(* Where the engine stands, and what it has read by then.                  *)
LEMMA ShapeStep == TypeOK /\ Shape /\ [Next]_vars => Shape'
<1> SUFFICES ASSUME TypeOK, Shape, [Next]_vars PROVE Shape'
  OBVIOUS
<1> USE DEF Shape, Past, Finished, arrayVars, configVars, inputVars, reasonVars
<1>1. CASE Rot
  BY <1>1 DEF Rot
<1>2. CASE Resync
  BY <1>2 DEF Resync
<1>3. CASE WriteBegin
  <2>1. truth'[target] = truth[target]
    BY <1>3 DEF WriteBegin, TypeOK
  <2> QED
    BY <1>3, <2>1 DEF WriteBegin
<1>4. ASSUME NEW disk \in {"data", "p", "q"}, WriteReaches(disk)
      PROVE  Shape'
  BY <1>4 DEF WriteReaches
<1>5. CASE Begin
  BY <1>5 DEF Begin
<1>6. CASE GatherData
  <2>1. PICK s \in Unread :
          others' = [t \in DOMAIN others \cup {s} |-> IF t = s THEN data[s] ELSE others[t]]
    BY <1>6 DEF GatherData
  <2>2. data[s] \in F
    BY DEF Unread, TypeOK
  <2>3. DOMAIN others' = DOMAIN others \cup {s}
    BY <2>1
  <2>4. others' \in [DOMAIN others' -> F]
    BY <2>1, <2>2, <2>3
  <2> QED
    BY <1>6, <2>4 DEF GatherData
<1>7. CASE GatherP
  <2>1. DOMAIN others = Slots \ {target}
    BY <1>7 DEF GatherP, Unread, TypeOK
  <2> QED
    BY <1>7, <2>1 DEF GatherP
<1>8. CASE GatherQ
  BY <1>8 DEF GatherQ
<1>9. CASE GatherFails
  BY <1>9 DEF GatherFails
<1>10. CASE CheckSource
  BY <1>10 DEF CheckSource
<1>11. CASE TryP
  BY <1>11 DEF TryP
<1>12. CASE TryQ
  BY <1>12 DEF TryQ
<1>13. CASE TryPartner
  BY <1>13 DEF TryPartner
<1>14. CASE AllFailed
  BY <1>14 DEF AllFailed
<1>15. CASE UNCHANGED vars
  BY <1>15 DEF vars
<1> QED
  BY <1>1, <1>2, <1>3, <1>4, <1>5, <1>6, <1>7, <1>8,
     <1>9, <1>10, <1>11, <1>12, <1>13, <1>14, <1>15
     DEF Next, Array, Gather, Recover

(* What was gathered without a racing write is what the disks hold.        *)
LEMMA UnracedStep == TypeOK /\ Shape /\ Unraced /\ [Next]_vars => Unraced'
<1> SUFFICES ASSUME TypeOK, Shape, Unraced, [Next]_vars PROVE Unraced'
  OBVIOUS
<1> USE DEF Unraced, Past, Finished, arrayVars, configVars, inputVars, reasonVars
<1>1. CASE Rot
  BY <1>1 DEF Rot, Shape
<1>2. CASE Resync
  BY <1>2 DEF Resync, Shape
<1>3. CASE WriteBegin
  <2>1. write'.diff # 0
    BY <1>3, BoundsAssumption DEF WriteBegin
  <2>2. write' # NoWrite
    BY <2>1 DEF NoWrite
  <2> QED
    BY <2>1, <2>2
<1>4. ASSUME NEW disk \in {"data", "p", "q"}, WriteReaches(disk)
      PROVE  Unraced'
  <2>1. write # NoWrite /\ write.diff # 0
    BY <1>4 DEF WriteReaches, NoWrite
  <2>2. write \in [slot : Slots, diff : F, left : SUBSET {"data", "p", "q"}]
    BY <2>1 DEF TypeOK
  <2>3. write'.diff = write.diff
    BY <1>4, <2>2 DEF WriteReaches
  <2>4. write' # NoWrite
    BY <2>1, <2>3 DEF NoWrite
  <2> QED
    BY <2>1, <2>3, <2>4
<1>5. CASE Begin
  BY <1>5 DEF Begin
<1>6. CASE GatherData
  <2>1. PICK s \in Unread :
          others' = [t \in DOMAIN others \cup {s} |-> IF t = s THEN data[s] ELSE others[t]]
    BY <1>6 DEF GatherData
  <2> QED
    BY <1>6, <2>1 DEF GatherData
<1>7. CASE GatherP
  BY <1>7 DEF GatherP
<1>8. CASE GatherQ
  BY <1>8 DEF GatherQ
<1>9. CASE GatherFails
  BY <1>9 DEF GatherFails
<1>10. CASE CheckSource
  BY <1>10 DEF CheckSource
<1>11. CASE TryP
  BY <1>11 DEF TryP
<1>12. CASE TryQ
  BY <1>12 DEF TryQ
<1>13. CASE TryPartner
  BY <1>13 DEF TryPartner
<1>14. CASE AllFailed
  BY <1>14 DEF AllFailed
<1>15. CASE UNCHANGED vars
  BY <1>15 DEF vars
<1> QED
  BY <1>1, <1>2, <1>3, <1>4, <1>5, <1>6, <1>7, <1>8,
     <1>9, <1>10, <1>11, <1>12, <1>13, <1>14, <1>15
     DEF Next, Array, Gather, Recover

(* The engine's steps leave its blocks alone.                              *)
LEMMA SameBlocks ==
    ASSUME UNCHANGED <<configVars, inputVars>>
    PROVE  /\ ViaP' = ViaP /\ ViaQ' = ViaQ
           /\ \A s : SolveTwo(s)' = SolveTwo(s)
  BY DEF configVars, inputVars, ViaP, ViaQ, SolveTwo

(* A rebuilt block is a block.                                             *)
LEMMA RebuiltType ==
    ASSUME Gathered
    PROVE  /\ pBlock \in F => ViaP \in F
           /\ qBlock \in F => ViaQ \in F
<1>1. Sum(others) \in F /\ Sum(Weighted(others)) \in F
  BY Part DEF Gathered
<1>2. Exp(1 - target) \in F
  BY SlotsAssumption DEF Gathered
<1> QED
  BY <1>1, <1>2, Cancel DEF ViaP, ViaQ

(* Past the gathering, all other disks are there.                          *)
LEMMA GatheredPast == TypeOK /\ Shape /\ Past => Gathered
  BY DEF TypeOK, Shape, Gathered

(* What the engine leaves behind it did not verify.                        *)
LEMMA RejectedStep == TypeOK /\ Shape /\ Rejected /\ [Next]_vars => Rejected'
<1> SUFFICES ASSUME TypeOK, Shape, Rejected, [Next]_vars PROVE Rejected'
  OBVIOUS
<1> USE DEF Rejected, Failed, arrayVars, configVars, inputVars, reasonVars
<1>1. CASE Rot
  BY <1>1 DEF Rot
<1>2. CASE Resync
  BY <1>2 DEF Resync
<1>3. CASE WriteBegin
  BY <1>3 DEF WriteBegin
<1>4. ASSUME NEW disk \in {"data", "p", "q"}, WriteReaches(disk)
      PROVE  Rejected'
  BY <1>4 DEF WriteReaches
<1>5. CASE Begin
  BY <1>5 DEF Begin
<1>6. CASE GatherData
  BY <1>6 DEF GatherData
<1>7. CASE GatherP
  BY <1>7 DEF GatherP
<1>8. CASE GatherQ
  BY <1>8 DEF GatherQ
<1>9. CASE GatherFails
  BY <1>9 DEF GatherFails
<1>10. CASE CheckSource
  <2>1. pc' = "tryP" => unreadable \/ data[target] # truth[target]
    BY <1>10 DEF CheckSource, Verifies, Corrupt
  <2>2. pc' = "done" => result' = "not_corrupt"
    BY <1>10 DEF CheckSource
  <2> QED
    BY <1>10, <2>1, <2>2 DEF CheckSource
<1>11. CASE TryP
  <2>0. UNCHANGED <<configVars, inputVars>> /\ truth' = truth /\ data' = data
    BY <1>11 DEF TryP
  <2>1. ViaP' = ViaP
    BY <2>0, SameBlocks
  <2>2. Gathered
    BY <1>11, GatheredPast DEF TryP, Past
  <2>3. Present(pBlock) => pBlock \in F /\ ViaP \in F
    BY <2>2, RebuiltType DEF TypeOK, Present
  <2>4. data[target] \in F
    BY DEF TypeOK
  <2>5. unreadable \/ data[target] # truth[target]
    BY <1>11 DEF TryP
  <2>6. Present(pBlock) /\ ~unreadable /\ Plus(Corrupt, ViaP) = 0 => ViaP # truth[target]
    BY <2>3, <2>4, <2>5, ZeroSum DEF Corrupt
  <2>7. pc' = "tryQ" /\ Present(pBlock) => ViaP # truth[target]
    BY <1>11, <2>6 DEF TryP, Verifies
  <2>8. pc' = "tryQ" \/ (pc' = "done" /\ result' = "recovered")
    BY <1>11 DEF TryP
  <2>9. Present(pBlock)' = Present(pBlock)
    BY <2>0 DEF Present
  <2> QED
    BY <2>0, <2>1, <2>5, <2>7, <2>8, <2>9
<1>12. CASE TryQ
  <2>0. UNCHANGED <<configVars, inputVars>> /\ truth' = truth /\ data' = data /\ tried' = tried
    BY <1>12 DEF TryQ
  <2>1. ViaP' = ViaP /\ ViaQ' = ViaQ /\ \A s : SolveTwo(s)' = SolveTwo(s)
    BY <2>0, SameBlocks
  <2>2. tried = {}
    BY <1>12 DEF TryQ, Shape
  <2>3. unreadable \/ data[target] # truth[target]
    BY <1>12 DEF TryQ
  <2>4. Present(pBlock) => ViaP # truth[target]
    BY <1>12 DEF TryQ
  <2>5. pc' = "tryPQ" /\ Present(qBlock) => ViaQ # truth[target]
    BY <1>12, <2>3 DEF TryQ, Verifies, Corrupt
  <2>6. pc' = "tryPQ" \/ (pc' = "done" /\ result' = "recovered")
    BY <1>12 DEF TryQ
  <2>7. Present(pBlock)' = Present(pBlock) /\ Present(qBlock)' = Present(qBlock)
    BY <2>0 DEF Present
  <2> QED
    BY <2>0, <2>1, <2>2, <2>3, <2>4, <2>5, <2>6, <2>7
<1>13. CASE TryPartner
  <2>0. UNCHANGED <<configVars, inputVars>> /\ truth' = truth /\ data' = data /\ pc = "tryPQ"
    BY <1>13 DEF TryPartner
  <2>1. ViaP' = ViaP /\ ViaQ' = ViaQ /\ \A s : SolveTwo(s)' = SolveTwo(s)
    BY <2>0, SameBlocks
  <2>2. PICK s \in Untried : /\ tried' = tried \cup {s}
                             /\ IF Verifies(SolveTwo(s))
                                  THEN pc' = "done" /\ result' = "recovered"
                                  ELSE UNCHANGED <<pc, result>>
    BY <1>13 DEF TryPartner
  <2>3. Present(pBlock)' = Present(pBlock) /\ Present(qBlock)' = Present(qBlock)
    BY <2>0 DEF Present
  <2>4. CASE Verifies(SolveTwo(s))
    BY <2>2, <2>4
  <2>5. CASE ~Verifies(SolveTwo(s))
    <3>1. pc' = "tryPQ" /\ SolveTwo(s) # truth[target]
      BY <2>0, <2>2, <2>5 DEF Verifies
    <3> QED
      BY <2>0, <2>1, <2>2, <2>3, <3>1
  <2> QED
    BY <2>4, <2>5
<1>14. CASE AllFailed
  <2>0. /\ UNCHANGED <<configVars, inputVars>> /\ truth' = truth /\ data' = data
        /\ tried' = tried /\ pc = "tryPQ" /\ pc' = "done" /\ result' = "failed"
    BY <1>14 DEF AllFailed
  <2>1. ViaP' = ViaP /\ ViaQ' = ViaQ /\ \A s : SolveTwo(s)' = SolveTwo(s)
    BY <2>0, SameBlocks
  <2>2. Present(pBlock) /\ Present(qBlock) => tried = DOMAIN others
    BY <1>14 DEF AllFailed, Untried, TypeOK
  <2>3. Present(pBlock)' = Present(pBlock) /\ Present(qBlock)' = Present(qBlock)
    BY <2>0 DEF Present
  <2> QED
    BY <2>0, <2>1, <2>2, <2>3
<1>15. CASE UNCHANGED vars
  <2>1. UNCHANGED <<configVars, inputVars>>
    BY <1>15 DEF vars
  <2>2. ViaP' = ViaP /\ ViaQ' = ViaQ /\ \A s : SolveTwo(s)' = SolveTwo(s)
    BY <2>1, SameBlocks
  <2> QED
    BY <1>15, <2>2 DEF vars, Present
<1> QED
  BY <1>1, <1>2, <1>3, <1>4, <1>5, <1>6, <1>7, <1>8,
     <1>9, <1>10, <1>11, <1>12, <1>13, <1>14, <1>15
     DEF Next, Array, Gather, Recover

(* From parity that agrees with the corrupt block, the engine rebuilds the *)
(* corrupt block, whichever way it tries.                                  *)
LEMMA RebuildsCorrupt ==
    ASSUME TypeOK, Shape, Unraced, Past, BakedIn
    PROVE  /\ Present(pBlock) <=> hasP
           /\ Present(qBlock) <=> hasQ
           /\ hasP => ViaP = data[target] /\ Plus(data[target], ViaP) = 0
           /\ hasQ => ViaQ = data[target]
           /\ hasP /\ hasQ => \A s \in DOMAIN others : SolveTwo(s) = data[target]
<1>1. Gathered
  BY GatheredPast
<1>2. data \in [Slots -> F] /\ target \in Slots /\ p \in F /\ q \in F
  BY DEF TypeOK
<1>3. DOMAIN others = Slots \ {target} /\ \A s \in Slots \ {target} : others[s] = data[s]
  BY DEF Shape, Unraced, BakedIn
<1>4. /\ pBlock = IF hasP THEN p ELSE Absent
      /\ qBlock = IF hasQ THEN q ELSE Absent
  BY DEF Unraced, BakedIn
<1>5. p # Absent /\ q # Absent
  BY <1>2, FieldAxioms DEF Absent
<1>6. p = ComputeP(data) /\ q = ComputeQ(data)
  BY DEF BakedIn
<1>7. (Present(pBlock) <=> hasP) /\ (Present(qBlock) <=> hasQ)
  BY <1>4, <1>5 DEF Present, TypeOK
<1>8. ASSUME hasP PROVE ViaP = data[target] /\ Plus(data[target], ViaP) = 0
  <2>1. ViaP = data[target]
    BY <1>1, <1>2, <1>3, <1>4, <1>6, <1>8, ViaPRight
  <2> QED
    BY <1>2, <2>1, FieldAxioms
<1>9. ASSUME hasQ PROVE ViaQ = data[target]
  BY <1>1, <1>2, <1>3, <1>4, <1>6, <1>9, ViaQRight
<1>10. ASSUME hasP, hasQ, NEW s \in DOMAIN others PROVE SolveTwo(s) = data[target]
  BY <1>1, <1>2, <1>3, <1>4, <1>6, <1>10, SolveTwoRight
<1> QED
  BY <1>7, <1>8, <1>9, <1>10

(* The reasons follow the attempts.                                        *)
LEMMA FoundOutStep ==
    TypeOK /\ Shape /\ Unraced /\ FoundOut /\ [Next]_vars => FoundOut'
<1> SUFFICES ASSUME TypeOK, Shape, Unraced, FoundOut, [Next]_vars, Past', BakedIn'
             PROVE  /\ result' \in {"none", "failed"}
                    /\ pc' \in {"tryQ", "tryPQ", "done"} =>
                         pReason' = IF hasP' THEN "baked_in" ELSE "absent"
                    /\ pc' \in {"tryPQ", "done"} =>
                         qReason' = IF hasQ' THEN "baked_in" ELSE "absent"
  BY DEF FoundOut
<1> DEFINE Goal == /\ result' \in {"none", "failed"}
                   /\ pc' \in {"tryQ", "tryPQ", "done"} =>
                        pReason' = IF hasP' THEN "baked_in" ELSE "absent"
                   /\ pc' \in {"tryPQ", "done"} =>
                        qReason' = IF hasQ' THEN "baked_in" ELSE "absent"
<1>0. ASSUME Past, UNCHANGED <<arrayVars, configVars>>
      PROVE  /\ BakedIn /\ hasP' = hasP /\ hasQ' = hasQ
             /\ result \in {"none", "failed"}
             /\ pc \in {"tryQ", "tryPQ", "done"} =>
                   pReason = IF hasP THEN "baked_in" ELSE "absent"
             /\ pc \in {"tryPQ", "done"} =>
                   qReason = IF hasQ THEN "baked_in" ELSE "absent"
  <2>1. BakedIn /\ hasP' = hasP /\ hasQ' = hasQ
    BY <1>0 DEF BakedIn, arrayVars, configVars
  <2> QED
    BY <1>0, <2>1 DEF FoundOut
<1> USE DEF inputVars, reasonVars
<1>1. CASE Rot
  BY <1>1 DEF Rot, Past, Finished
<1>2. CASE Resync
  BY <1>2 DEF Resync, Past, Finished
<1>3. CASE WriteBegin
  BY <1>3 DEF WriteBegin, Past, Finished
<1>4. ASSUME NEW disk \in {"data", "p", "q"}, WriteReaches(disk)
      PROVE  Goal
  BY <1>4 DEF WriteReaches, Past, Finished
<1>5. CASE Begin
  BY <1>5 DEF Begin, Past, Finished
<1>6. CASE GatherData
  BY <1>6 DEF GatherData, Past, Finished
<1>7. CASE GatherP
  BY <1>7 DEF GatherP, Past, Finished
<1>8. CASE GatherQ
  BY <1>8 DEF GatherQ, Shape
<1>9. CASE GatherFails
  BY <1>9 DEF GatherFails, Past, Finished
<1>10. CASE CheckSource
  <2>1. Past /\ UNCHANGED <<arrayVars, configVars>>
    BY <1>10 DEF CheckSource, Past
  <2>2. ~unreadable /\ data[target] # truth[target]
    BY <1>0, <2>1 DEF BakedIn
  <2>3. pc' = "tryP" /\ result' = result
    BY <1>10, <2>2 DEF CheckSource, Verifies, Corrupt
  <2> QED
    BY <1>0, <2>1, <2>3
<1>11. CASE TryP
  <2>1. Past /\ UNCHANGED <<arrayVars, configVars>>
    BY <1>11 DEF TryP, Past
  <2>2. BakedIn /\ ~unreadable
    BY <1>0, <2>1 DEF BakedIn
  <2>3. /\ Present(pBlock) <=> hasP
        /\ hasP => Plus(data[target], ViaP) = 0
    BY <2>1, <2>2, RebuildsCorrupt
  <2>4. /\ pReason' = IF hasP THEN "baked_in" ELSE "absent"
        /\ pc' = "tryQ" /\ result' = result
    BY <1>11, <2>2, <2>3 DEF TryP, Corrupt
  <2> QED
    BY <1>0, <2>1, <2>4
<1>12. CASE TryQ
  <2>1. Past /\ UNCHANGED <<arrayVars, configVars>> /\ pc = "tryQ" /\ pReason' = pReason
    BY <1>12 DEF TryQ, Past
  <2>2. BakedIn /\ ~unreadable
    BY <1>0, <2>1 DEF BakedIn
  <2>3. /\ Present(qBlock) <=> hasQ
        /\ hasQ => ViaQ = data[target]
    BY <2>1, <2>2, RebuildsCorrupt
  <2>4. /\ qReason' = IF hasQ THEN "baked_in" ELSE "absent"
        /\ pc' = "tryPQ" /\ result' = result
    BY <1>12, <2>2, <2>3 DEF TryQ, Corrupt
  <2> QED
    BY <1>0, <2>1, <2>4
<1>13. CASE TryPartner
  <2>1. /\ Past /\ UNCHANGED <<arrayVars, configVars>> /\ pc = "tryPQ"
        /\ pReason' = pReason /\ qReason' = qReason
    BY <1>13 DEF TryPartner, Past
  <2>2. BakedIn /\ data[target] # truth[target]
    BY <1>0, <2>1 DEF BakedIn
  <2>3. /\ Present(pBlock) <=> hasP
        /\ Present(qBlock) <=> hasQ
        /\ hasP /\ hasQ => \A s \in DOMAIN others : SolveTwo(s) = data[target]
    BY <2>1, <2>2, RebuildsCorrupt
  <2>4. \A s \in Untried : ~Verifies(SolveTwo(s))
    BY <1>13, <2>2, <2>3 DEF TryPartner, Untried, Verifies
  <2>5. pc' = pc /\ result' = result
    BY <1>13, <2>4 DEF TryPartner
  <2> QED
    BY <1>0, <2>1, <2>5
<1>14. CASE AllFailed
  <2>1. /\ Past /\ UNCHANGED <<arrayVars, configVars>> /\ pc = "tryPQ"
        /\ pReason' = pReason /\ qReason' = qReason /\ result' = "failed"
    BY <1>14 DEF AllFailed, Past
  <2> QED
    BY <1>0, <2>1
<1>15. CASE UNCHANGED vars
  <2>1. Past /\ UNCHANGED <<arrayVars, configVars>>
    BY <1>15 DEF vars, Past, Finished
  <2> QED
    BY <1>0, <1>15, <2>1 DEF vars
<1> QED
  BY <1>1, <1>2, <1>3, <1>4, <1>5, <1>6, <1>7, <1>8,
     <1>9, <1>10, <1>11, <1>12, <1>13, <1>14, <1>15
     DEF Next, Array, Gather, Recover

-----------------------------------------------------------------------------
(* What the engine promises.                                               *)

(* The inductive invariant holds of every behaviour of the engine and the  *)
(* array around it.                                                        *)
THEOREM Invariance == Spec => []EInv
<1>1. Init => EInv
  BY InitInv DEF EInv
<1>2. EInv /\ [Next]_vars => EInv'
  BY TypeStep, ShapeStep, UnracedStep, RejectedStep, FoundOutStep DEF EInv
<1> QED
  BY <1>1, <1>2, PTL DEF Spec

(* An end that is neither a failure nor a failed gathering is a success.   *)
LEMMA Ends ==
    ASSUME EInv, Finished, result \notin {"recovered", "not_corrupt"}
    PROVE  Failed /\ Past /\ Gathered
<1>1. Past /\ Failed
  BY DEF EInv, TypeOK, Shape, Finished, Failed, Past
<1> QED
  BY <1>1, GatheredPast DEF EInv

(* The stripes of which recovery speaks agree on the failing block.        *)
LEMMA EitherStripe ==
    ASSUME EInv, NEW t \in {truth, before}
    PROVE  t \in [Slots -> F] /\ t[target] = truth[target]
  BY DEF EInv, TypeOK, Shape

(* With the other disks right, recover_block ends in success if one of the *)
(* parity disks is right: P is tried, and Q after it.                      *)
THEOREM OneParity == Spec => []OneParityEnough
<1>1. ASSUME EInv PROVE OneParityEnough
  <2> SUFFICES ASSUME Finished, NEW t \in {truth, before}, WrongOthers(t) = {},
                      PRight(t) \/ QRight(t), result \notin {"recovered", "not_corrupt"}
               PROVE  FALSE
    BY DEF OneParityEnough
  <2>1. Failed /\ Gathered
    BY <1>1, Ends
  <2>2. t \in [Slots -> F] /\ t[target] = truth[target]
    BY <1>1, EitherStripe
  <2>3. \A s \in Slots \ {target} : others[s] = t[s]
    BY <2>1 DEF WrongOthers, Gathered
  <2>4. CASE PRight(t)
    <3>1. ViaP = t[target]
      BY <2>1, <2>2, <2>3, <2>4, ViaPRight DEF PRight
    <3> QED
      BY <1>1, <2>1, <2>2, <2>4, <3>1 DEF EInv, Rejected, PRight
  <2>5. CASE QRight(t)
    <3>1. ViaQ = t[target]
      BY <2>1, <2>2, <2>3, <2>5, ViaQRight DEF QRight
    <3> QED
      BY <1>1, <2>1, <2>2, <2>5, <3>1 DEF EInv, Rejected, QRight
  <2> QED
    BY <2>4, <2>5
<1> QED
  BY <1>1, Invariance, PTL

(* A set of at most one element that is not empty has one element.         *)
LEMMA AtMostOne ==
    ASSUME NEW S, IsFiniteSet(S), Cardinality(S) <= 1, NEW w \in S
    PROVE  S = {w}
<1>1. IsFiniteSet(S \ {w}) /\ Cardinality(S \ {w}) = Cardinality(S) - 1
  BY FS_RemoveElement
<1>2. Cardinality(S) \in Nat /\ Cardinality(S \ {w}) \in Nat
  BY <1>1, FS_CardinalityType
<1>3. Cardinality(S \ {w}) = 0
  BY <1>1, <1>2
<1>4. S \ {w} = {}
  BY <1>1, <1>3, FS_EmptySet
<1> QED
  BY <1>4

(* With one other disk wrong, or read on the other side of a write, P and  *)
(* Q together rebuild the block: that disk is among the partners tried.    *)
THEOREM TwoParities == Spec => []TwoParitiesSolveTwo
<1>1. ASSUME EInv PROVE TwoParitiesSolveTwo
  <2> SUFFICES ASSUME Finished, NEW t \in {truth, before}, Cardinality(WrongOthers(t)) <= 1,
                      PRight(t), QRight(t), result \notin {"recovered", "not_corrupt"}
               PROVE  FALSE
    BY DEF TwoParitiesSolveTwo
  <2>1. Failed /\ Gathered
    BY <1>1, Ends
  <2>2. t \in [Slots -> F] /\ t[target] = truth[target]
    BY <1>1, EitherStripe
  <2>3. tried = DOMAIN others /\ DOMAIN others = Slots \ {target}
    BY <1>1, <2>1 DEF EInv, Rejected, PRight, QRight, Gathered
  <2>4. CASE WrongOthers(t) = {}
    <3>1. \A s \in Slots \ {target} : others[s] = t[s]
      BY <2>3, <2>4 DEF WrongOthers
    <3>2. ViaP = t[target]
      BY <2>1, <2>2, <3>1, ViaPRight DEF PRight
    <3> QED
      BY <1>1, <2>1, <2>2, <3>2 DEF EInv, Rejected, PRight
  <2>5. CASE WrongOthers(t) # {}
    <3>1. PICK w \in WrongOthers(t) : TRUE
      BY <2>5
    <3>2. WrongOthers(t) \subseteq Slots /\ IsFiniteSet(WrongOthers(t))
      BY <2>3, SlotsAssumption, FS_Subset DEF WrongOthers
    <3>3. WrongOthers(t) = {w}
      BY <3>2, AtMostOne
    <3>4. w \in Slots \ {target} /\ \A s \in Slots \ {target} : s # w => others[s] = t[s]
      BY <2>3, <3>3 DEF WrongOthers
    <3>5. SolveTwo(w) = t[target]
      BY <2>1, <2>2, <3>4, SolveTwoRight DEF PRight, QRight
    <3> QED
      BY <1>1, <2>1, <2>2, <2>3, <3>4, <3>5 DEF EInv, Rejected, PRight, QRight
  <2> QED
    BY <2>4, <2>5
<1> QED
  BY <1>1, Invariance, PTL

(* Parity recomputed from the corrupt block: nothing verifies, and both    *)
(* reasons say baked in.                                                   *)
THEOREM BakedInRecognised == Spec => []BakedInTold
<1>1. ASSUME EInv PROVE BakedInTold
  <2> SUFFICES ASSUME Finished, BakedIn
               PROVE  /\ result = "failed"
                      /\ pReason = IF hasP THEN "baked_in" ELSE "absent"
                      /\ qReason = IF hasQ THEN "baked_in" ELSE "absent"
    BY DEF BakedInTold, BakedIn
  <2> QED
    BY <1>1 DEF EInv, FoundOut, Past, Finished, Shape
<1> QED
  BY <1>1, Invariance, PTL

=============================================================================
