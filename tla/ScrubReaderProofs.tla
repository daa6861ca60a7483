-------------------------- MODULE ScrubReaderProofs --------------------------
(***************************************************************************)
(* Proofs about ScrubReader, for every device, any depth of the pipeline,  *)
(* any length of a run and any isolation budget: a scrub that returns Ok   *)
(* has checked every sector, none is checked twice, what is reported is    *)
(* what is wrong, and a failing read is narrowed down to the very sectors. *)
(***************************************************************************)
EXTENDS ScrubReader, FiniteSetTheorems, SequenceTheorems, WellFoundedInduction, TLAPS

-----------------------------------------------------------------------------
(* Smallest elements.                                                      *)

(* A set of naturals that is not empty has a smallest element.             *)
LEMMA Smallest ==
    ASSUME NEW T \in SUBSET Nat, T # {}
    PROVE  \E x \in T : \A y \in T : x <= y
<1>1. PICK x \in T : \A y \in T : ~(<<y, x>> \in OpToRel(<, Nat))
  BY NatLessThanWellFounded, WFMin
<1>2. \A y \in T : ~(y < x)
  BY <1>1 DEF OpToRel
<1>3. \A y \in T : x <= y
  BY <1>2
<1> QED
  BY <1>3

(* The next checksum of a stream is in the stream, and before the others.  *)
LEMMA MinOfStream ==
    ASSUME NEW T \in SUBSET Nat, T # {}
    PROVE  Min(T) \in T /\ \A y \in T : Min(T) <= y
  BY Smallest DEF Min

-----------------------------------------------------------------------------
(* Splitting a piece.                                                      *)

(* Where part i of a piece begins, counted from the piece's beginning.     *)
Begin(base, rem, i) == i * base + (IF i < rem THEN i ELSE rem)

(* Products with a natural grow with the other factor.                     *)
LEMMA Grows ==
    ASSUME NEW a \in Nat, NEW b \in Nat, NEW c \in Nat, a <= b
    PROVE  a * c <= b * c
<1>1. PICK d \in Nat : b = a + d
  <2>1. b - a \in Nat /\ b = a + (b - a)
    OBVIOUS
  <2> QED
    BY <2>1
<1>2. b * c = a * c + d * c
  BY <1>1
<1>3. d * c \in Nat /\ a * c \in Nat
  OBVIOUS
<1> QED
  BY <1>2, <1>3

(* The parts of a split piece: none is empty, none reaches out of it, and  *)
(* each of its sectors is in one of them.                                  *)
LEMMA SplitParts ==
    ASSUME NEW f \in Nat, NEW n \in Nat \ {0}
    PROVE  /\ Split(Piece(f, n)) \subseteq [first : Nat, len : Nat \ {0}]
           /\ UNION {Indices(p) : p \in Split(Piece(f, n))} = f .. (f + n - 1)
<1> DEFINE k    == IF n < Splits THEN n ELSE Splits
           base == n \div k
           rem  == n % k
           len(i) == base + (IF i < rem THEN 1 ELSE 0)
           at(i)  == Begin(base, rem, i)
           part(i) == Piece(f + i * base + (IF i < rem THEN i ELSE rem), len(i))
<1>1. Splits \in Nat \ {0} /\ k \in Nat \ {0} /\ k <= n
  BY ScrubAssumption
<1>2. Split(Piece(f, n)) = {part(i) : i \in 0..(k - 1)}
  BY DEF Split, Piece
<1>3. base \in Nat /\ rem \in 0..(k - 1) /\ n = k * base + rem
  <2> HIDE DEF k
  <2> QED
    BY <1>1
<1>4. base # 0
  <2> SUFFICES ASSUME base = 0 PROVE FALSE
    OBVIOUS
  <2>1. n = rem
    <3> HIDE DEF k, rem, base
    <3>1. k * 0 = 0
      BY <1>1
    <3> QED
      BY <1>1, <1>3, <3>1
  <2> HIDE DEF k, rem
  <2> QED
    BY <1>1, <1>3, <2>1
<1> HIDE DEF k, base, rem
<1>5. at(0) = 0 /\ at(k) = n
  BY <1>1, <1>3 DEF Begin
<1>6. ASSUME NEW i \in 0..(k - 1)
      PROVE  /\ at(i) \in Nat /\ len(i) \in Nat \ {0}
             /\ at(i + 1) = at(i) + len(i) /\ at(i + 1) \in Nat
             /\ at(i + 1) <= n
  <2>1. (i + 1) * base = i * base + base /\ i * base \in Nat /\ i + 1 \in Nat /\ i + 1 <= k
    BY <1>1, <1>3
  <2>2. (i + 1) * base <= k * base
    BY <1>1, <1>3, <2>1, Grows
  <2> QED
    BY <1>1, <1>3, <1>4, <2>1, <2>2 DEF Begin
<1>7. \A i \in 0..(k - 1) : Indices(part(i)) = (f + at(i)) .. (f + at(i) + len(i) - 1)
  <2> TAKE i \in 0..(k - 1)
  <2>1. part(i).first = f + at(i) /\ part(i).len = len(i)
    BY <1>1, <1>3, <1>6 DEF Piece, Begin
  <2> QED
    BY <2>1 DEF Indices
<1>8. \A i \in 0..(k - 1) : part(i) \in [first : Nat, len : Nat \ {0}]
  <2> TAKE i \in 0..(k - 1)
  <2>1. i * base \in Nat /\ rem \in Nat
    BY <1>1, <1>3
  <2>2. f + i * base + (IF i < rem THEN i ELSE rem) \in Nat /\ len(i) \in Nat \ {0}
    BY <1>6, <2>1
  <2> QED
    BY <2>2 DEF Piece
<1>9. \A i \in 0..(k - 1) : Indices(part(i)) \subseteq f .. (f + n - 1)
  BY <1>6, <1>7
<1>10. ASSUME NEW x \in f .. (f + n - 1)
       PROVE  \E i \in 0..(k - 1) : x \in Indices(part(i))
  <2> DEFINE T == {i \in 0..(k - 1) : x < f + at(i + 1)}
  <2>1. k - 1 \in T
    BY <1>1, <1>5
  <2>2. PICK i \in T : \A j \in T : i <= j
    <3>1. T \in SUBSET Nat
      BY <1>1
    <3> QED
      BY <2>1, <3>1, Smallest
  <2>3. i \in 0..(k - 1) /\ x < f + at(i + 1)
    OBVIOUS
  <2>4. f + at(i) <= x
    <3>1. CASE i = 0
      BY <1>5, <3>1
    <3>2. CASE i # 0
      <4>1. i - 1 \in 0..(k - 1) /\ i - 1 \notin T /\ (i - 1) + 1 = i
        BY <1>1, <2>2, <3>2
      <4>2. ~(x < f + at(i))
        BY <4>1
      <4> QED
        BY <1>6, <4>2
    <3> QED
      BY <3>1, <3>2
  <2>5. x \in (f + at(i)) .. (f + at(i) + len(i) - 1)
    BY <1>6, <2>3, <2>4
  <2> QED
    BY <1>7, <2>3, <2>5
<1> HIDE DEF part
<1>11. Split(Piece(f, n)) \subseteq [first : Nat, len : Nat \ {0}]
  BY <1>2, <1>8
<1>12. UNION {Indices(p) : p \in Split(Piece(f, n))} = f .. (f + n - 1)
  BY <1>2, <1>9, <1>10
<1> QED
  BY <1>11, <1>12

-----------------------------------------------------------------------------
(* The pipeline as one queue.                                              *)

Pieces == [first : Nat, len : Nat \ {0}]
Runs   == [ext : Nat, phys : Int, entries : Seq(Nat)]
Jobs   == [ext : Nat, phys : Int, entries : Seq(Nat), pieces : SUBSET Pieces, budget : 0..Budget,
           good : SUBSET Nat, bad : SUBSET Nat, alone : SUBSET Nat]

(* The reader has a run in hand; if it panicked, for good.                 *)
Busy == rPc \in {"read", "panicked"}
Held == IF Busy THEN 1 ELSE 0

(* What is under way, the oldest first: answers, the run in hand, commands. *)
UnderWay == Len(rsps) + Held + Len(cmds)
Item(k)  == IF k <= Len(rsps) THEN rsps[k]
            ELSE IF k <= Len(rsps) + Held THEN job
            ELSE cmds[k - Len(rsps) - Held]
AsRun(c) == [ext |-> c.ext, phys |-> c.phys, entries |-> c.entries]
Pipe     == [k \in 1..UnderWay |-> AsRun(Item(k))]

-----------------------------------------------------------------------------
(* The inductive invariant of both modes: what the queues hold.            *)

(* Logical sectors of a data extent that have a checksum.                  *)
OfExtent(x) == IF x \in 1..Len(Layout) /\ Layout[x].kind = "data"
               THEN Sectors(Layout[x]) \cap UNION CsumLeaves ELSE {}

(* A run is not empty, and all its sectors are of its extent.              *)
Belongs(c) ==
    /\ c.entries # << >>
    /\ \A i \in 1..Len(c.entries) : c.entries[i] \in OfExtent(c.ext)

(* Each sector of a run is in a piece still to be read, was read, or was   *)
(* given up; while the budget lasts only what failed alone is given up.    *)
Left(c)    == UNION {Indices(p) : p \in c.pieces}
CutUp(c)   == /\ c.good \cup c.bad \cup Left(c) = 1..Len(c.entries)
              /\ c.alone \subseteq c.bad
              /\ c.budget > 0 => c.bad = c.alone
Waiting    == stream \cup {run[i] : i \in 1..Len(run)}

QueuesOK ==
    /\ cmds \in Seq(Runs) /\ rsps \in Seq(Jobs)
    /\ \A k \in 1..Len(cmds) : Belongs(cmds[k])
    /\ \A k \in 1..Len(rsps) : Belongs(rsps[k]) /\ CutUp(rsps[k]) /\ rsps[k].pieces = {}
    /\ IF Busy THEN job \in Jobs /\ Belongs(job) /\ CutUp(job) ELSE job = NoJob
    /\ Waiting \subseteq OfExtent(ext)
    /\ inflight = UnderWay

(* Where the main thread stands.                                           *)
MainOK ==
    /\ mainPc = "flush" => run # << >>
    /\ mainPc = "push" => stream # {}
    /\ mainPc = "extent" => stream = {}
    /\ mainPc \in {"extent", "stream", "push", "flush"} => inflight < Depth
    /\ mainPc = "recv" => inflight > 0
    /\ mainPc = "ok" => ~failed

TInv == TypeOK /\ QueuesOK /\ MainOK /\ TruncationTold

-----------------------------------------------------------------------------
(* What the extents and the queues give.                                   *)

(* The sectors of an extent are sectors of the device that the scrub is    *)
(* about.                                                                  *)
LEMMA ExtentSectors ==
    ASSUME NEW x, NEW s \in OfExtent(x)
    PROVE  /\ x \in 1..Len(Layout) /\ s \in Nat /\ s \in UNION CsumLeaves
           /\ PhysIn(Layout[x], s) \in Targets /\ PhysIn(Layout[x], s) \in Int
           /\ Layout[x].phys <= PhysIn(Layout[x], s)
           /\ PhysIn(Layout[x], s) < Layout[x].phys + Layout[x].len
<1>1. x \in 1..Len(Layout) /\ Layout[x].kind = "data" /\ s \in Sectors(Layout[x]) \cap UNION CsumLeaves
  BY DEF OfExtent
<1>2. /\ Layout[x] \in [kind : {"data", "other"}, logical : Nat, phys : Nat, len : Nat]
      /\ UNION CsumLeaves \subseteq Nat
  <2>1. Layout[x] \in [kind : {"data", "other"}, logical : Nat, phys : Nat, len : Nat]
    <3> DEFINE E == [kind : {"data", "other"}, logical : Nat, phys : Nat, len : Nat]
    <3>1. Layout \in Seq(E)
      BY ScrubAssumption
    <3> HIDE DEF E
    <3>2. Layout[x] \in E
      BY <1>1, <3>1
    <3> QED
      BY <3>2 DEF E
  <2>2. \A l \in CsumLeaves : l \subseteq Nat
    BY ScrubAssumption
  <2> QED
    BY <2>1, <2>2
<1>3. s \in Nat /\ Layout[x].logical <= s /\ s < Layout[x].logical + Layout[x].len
  BY <1>1, <1>2 DEF Sectors
<1>4. /\ PhysIn(Layout[x], s) \in Int
      /\ Layout[x].phys <= PhysIn(Layout[x], s)
      /\ PhysIn(Layout[x], s) < Layout[x].phys + Layout[x].len
  BY <1>2, <1>3 DEF PhysIn
<1>5. Layout[x] \in DataExtents
  BY <1>1 DEF DataExtents, Extents
<1>6. PhysIn(Layout[x], s) \in Targets
  BY <1>1, <1>5 DEF Targets, Covered
<1> QED
  BY <1>1, <1>3, <1>4, <1>6

(* The first of a queue, and what is left of it.                           *)
LEMMA Dequeue ==
    ASSUME NEW S, NEW q \in Seq(S), q # << >>
    PROVE  /\ Len(q) \in Nat /\ Len(q) > 0
           /\ Head(q) = q[1] /\ q[1] \in S
           /\ Tail(q) \in Seq(S) /\ Len(Tail(q)) = Len(q) - 1
           /\ \A k \in 1..(Len(q) - 1) : Tail(q)[k] = q[k + 1]
  OBVIOUS

(* A queue with one more at its end.                                       *)
LEMMA Enqueue ==
    ASSUME NEW S, NEW q \in Seq(S), NEW c \in S
    PROVE  /\ Append(q, c) \in Seq(S) /\ Len(Append(q, c)) = Len(q) + 1
           /\ \A k \in 1..Len(q) : Append(q, c)[k] = q[k]
           /\ Append(q, c)[Len(q) + 1] = c
  OBVIOUS

(* What an answer makes of the counters has their types.                   *)
LEMMA ProcessType ==
    ASSUME TypeOK, NEW r \in Jobs, Belongs(r), CutUp(r), r.pieces = {}, Process(r)
    PROVE  /\ checked' \in [Targets -> Nat] /\ unread' \subseteq Targets
           /\ reported' \subseteq Targets /\ truncated' \subseteq Targets
           /\ probed' \subseteq Targets
           /\ TruncationTold => TruncationTold'
<1> DEFINE at(I)  == {PhysIn(Layout[r.ext], r.entries[i]) : i \in I}
           wrong  == at({i \in r.good : ~Matches(r, i)})
           both   == r.good \cup r.bad
           of(p)  == {i \in both : PhysIn(Layout[r.ext], r.entries[i]) = p}
<1>1. both = 1..Len(r.entries) /\ Len(r.entries) \in Nat
  BY DEF CutUp, Left, Jobs
<1>2. IsFiniteSet(both)
  <2>1. IsFiniteSet(1..Len(r.entries))
    BY <1>1, FS_Interval
  <2> QED
    BY <1>1, <2>1
<1>3. \A p : Cardinality(of(p)) \in Nat
  <2> TAKE p
  <2>1. of(p) \subseteq both
    OBVIOUS
  <2>2. IsFiniteSet(of(p))
    BY <1>2, <2>1, FS_Subset
  <2> QED
    BY <2>2, FS_CardinalityType
<1>4. \A i \in both : PhysIn(Layout[r.ext], r.entries[i]) \in Targets
  BY <1>1, ExtentSectors DEF Belongs
<1>5. at(r.bad) \subseteq Targets /\ wrong \subseteq Targets
  BY <1>4
<1>6. checked' = [p \in Targets |-> checked[p] + Cardinality(of(p))]
  BY DEF Process
<1>7. checked' \in [Targets -> Nat]
  <2> HIDE DEF of
  <2> QED
    BY <1>3, <1>6 DEF TypeOK
<1>8. /\ unread' = unread \cup at(r.bad) /\ probed' = probed \cup at(r.alone)
      /\ truncated' = truncated \cup (IF Truncated(r) THEN at(both) ELSE {})
  BY DEF Process
<1>9. \/ reported' = reported \cup wrong \cup at(r.bad)
      \/ \E conf \in SUBSET wrong : reported' = reported \cup conf
  BY DEF Process
<1>10. unread' \subseteq Targets
  <2> HIDE DEF at
  <2> QED
    BY <1>5, <1>8 DEF TypeOK
<1>11. reported' \subseteq Targets
  <2> HIDE DEF at, wrong
  <2> QED
    BY <1>5, <1>9 DEF TypeOK
<1>12. r.alone \subseteq both /\ (r.bad \subseteq r.alone \/ Truncated(r))
  BY <1>1 DEF CutUp, Jobs, Truncated
<1>13. at(both) \subseteq Targets /\ at(r.alone) \subseteq at(both) /\ at(r.bad) \subseteq at(both)
       /\ (at(r.bad) \subseteq at(r.alone) \/ Truncated(r))
  BY <1>4, <1>12
<1>14. truncated' \subseteq Targets /\ probed' \subseteq Targets
  <2> HIDE DEF at, both
  <2> QED
    BY <1>8, <1>13 DEF TypeOK
<1>15. TruncationTold => TruncationTold'
  <2> HIDE DEF at, both
  <2> QED
    BY <1>8, <1>13 DEF TruncationTold
<1> QED
  BY <1>7, <1>10, <1>11, <1>14, <1>15

-----------------------------------------------------------------------------
(* Isolation of one run.                                                   *)

(* The piece that comes next is one of the pieces.                         *)
LEMMA NextIsPiece ==
    ASSUME job \in Jobs, job.pieces # {}
    PROVE  NextPiece \in job.pieces /\ NextPiece \in Pieces
<1> DEFINE T == {p.first : p \in job.pieces}
<1>1. job.pieces \subseteq Pieces
  BY DEF Jobs
<1>2. T \in SUBSET Nat /\ T # {}
  BY <1>1 DEF Pieces
<1>3. PICK x \in T : \A y \in T : x <= y
  BY <1>2, Smallest
<1>4. \E p \in job.pieces : \A q \in job.pieces : p.first <= q.first
  BY <1>3
<1>5. NextPiece \in job.pieces
  BY <1>4 DEF NextPiece
<1> QED
  BY <1>1, <1>5

(* Reading a piece, or giving it up, leaves the run cut up.                *)
LEMMA StillCutUp ==
    ASSUME job \in Jobs, Belongs(job), CutUp(job), ReadOk \/ ReadFails \/ GiveUp
    PROVE  /\ job' \in Jobs /\ Belongs(job') /\ CutUp(job')
           /\ AsRun(job') = AsRun(job)
<1> DEFINE n    == NextPiece
           rest == job.pieces \ {n}
<1>0. job.pieces # {}
  BY DEF ReadOk, ReadFails, GiveUp
<1>1. n \in job.pieces /\ n \in Pieces /\ rest \subseteq Pieces
  BY <1>0, NextIsPiece DEF Jobs
<1>2. n.first \in Nat /\ n.len \in Nat \ {0} /\ n = Piece(n.first, n.len)
  BY <1>1 DEF Pieces, Piece
<1>3. Indices(n) \subseteq Nat /\ Left(job) = Indices(n) \cup (UNION {Indices(p) : p \in rest})
  BY <1>1, <1>2 DEF Indices, Left
<1>4. /\ Split(n) \subseteq Pieces
      /\ UNION {Indices(p) : p \in Split(n)} = Indices(n)
  BY <1>2, SplitParts DEF Pieces, Indices
<1> HIDE DEF n
<1>5. CASE ReadOk
  <2>1. job' = [job EXCEPT !.pieces = rest, !.good = job.good \cup Indices(n)]
    BY <1>5 DEF ReadOk, n
  <2>2. job' \in Jobs
    BY <1>1, <1>3, <2>1 DEF Jobs
  <2>3. /\ job'.pieces = rest /\ job'.good = job.good \cup Indices(n) /\ job'.bad = job.bad
        /\ job'.budget = job.budget /\ job'.alone = job.alone /\ job'.entries = job.entries
        /\ job'.ext = job.ext /\ job'.phys = job.phys
    BY <2>1 DEF Jobs
  <2>4. CutUp(job')
    BY <1>3, <2>3 DEF CutUp, Left
  <2> QED
    BY <2>2, <2>3, <2>4 DEF Belongs, AsRun
<1>6. CASE GiveUp
  <2>1. job' = [job EXCEPT !.pieces = rest, !.bad = job.bad \cup Indices(n)] /\ job.budget = 0
    BY <1>6 DEF GiveUp, n
  <2>2. job' \in Jobs
    BY <1>1, <1>3, <2>1 DEF Jobs
  <2>3. /\ job'.pieces = rest /\ job'.bad = job.bad \cup Indices(n) /\ job'.good = job.good
        /\ job'.budget = job.budget /\ job'.alone = job.alone /\ job'.entries = job.entries
        /\ job'.ext = job.ext /\ job'.phys = job.phys
    BY <2>1 DEF Jobs
  <2>4. CutUp(job')
    BY <1>3, <2>1, <2>3 DEF CutUp, Left
  <2> QED
    BY <2>2, <2>3, <2>4 DEF Belongs, AsRun
<1>7. CASE ReadFails
  <2> DEFINE give == n.len = 1 \/ job.budget = 1
             pcs  == IF give THEN rest ELSE rest \cup Split(n)
             bad  == IF give THEN job.bad \cup Indices(n) ELSE job.bad
             aln  == IF n.len = 1 THEN job.alone \cup {n.first} ELSE job.alone
  <2>1. /\ job' = [job EXCEPT !.budget = job.budget - 1, !.alone = aln, !.pieces = pcs, !.bad = bad]
        /\ job.budget > 0
    BY <1>7 DEF ReadFails, n
  <2>2. /\ job.budget \in 0..Budget /\ job.budget - 1 \in 0..Budget
        /\ aln \subseteq Nat /\ pcs \subseteq Pieces /\ bad \subseteq Nat
    <3>1. job.budget \in 0..Budget /\ job.budget - 1 \in 0..Budget
      BY <2>1, ScrubAssumption DEF Jobs
    <3>2. job.alone \subseteq Nat /\ job.bad \subseteq Nat
      BY DEF Jobs
    <3>3. aln \subseteq Nat
      BY <1>2, <3>2
    <3>4. pcs \subseteq Pieces /\ bad \subseteq Nat
      BY <1>1, <1>3, <1>4, <3>2
    <3> QED
      BY <3>1, <3>3, <3>4
  <2> HIDE DEF give
  <2>3. job' \in Jobs
    <3> HIDE DEF pcs, bad, aln
    <3> QED
      BY <2>1, <2>2 DEF Jobs
  <2>4. /\ job'.pieces = pcs /\ job'.bad = bad /\ job'.good = job.good
        /\ job'.budget = job.budget - 1 /\ job'.alone = aln /\ job'.entries = job.entries
        /\ job'.ext = job.ext /\ job'.phys = job.phys
    <3> HIDE DEF pcs, bad, aln
    <3> QED
      BY <2>1 DEF Jobs
  <2>5. bad \cup Left(job') = job.bad \cup Left(job)
    <3>1. CASE give
      BY <1>3, <2>4, <3>1 DEF Left
    <3>2. CASE ~give
      <4>1. Left(job') = (UNION {Indices(p) : p \in rest})
                            \cup (UNION {Indices(p) : p \in Split(n)})
        BY <2>4, <3>2 DEF Left
      <4> QED
        BY <1>3, <1>4, <3>2, <4>1
    <3> QED
      BY <3>1, <3>2
  <2>6. job'.budget > 0 => bad = aln
    <3> SUFFICES ASSUME job'.budget > 0 PROVE bad = aln
      OBVIOUS
    <3>1. job.budget # 1 /\ job.bad = job.alone
      BY <2>1, <2>2, <2>4 DEF CutUp
    <3>2. CASE n.len = 1
      <4>1. Indices(n) = {n.first}
        BY <1>2, <3>2 DEF Indices
      <4> QED
        BY <3>1, <3>2, <4>1 DEF give
    <3>3. CASE n.len # 1
      BY <3>1, <3>3 DEF give
    <3> QED
      BY <3>2, <3>3
  <2>7. aln \subseteq bad
    <3>1. n.len = 1 => n.first \in Indices(n)
      BY <1>2 DEF Indices
    <3> QED
      BY <3>1 DEF CutUp, give
  <2>8. CutUp(job')
    <3> HIDE DEF pcs, bad, aln
    <3> QED
      BY <2>4, <2>5, <2>6, <2>7 DEF CutUp
  <2> QED
    BY <2>3, <2>4, <2>8 DEF Belongs, AsRun
<1> QED
  BY <1>5, <1>6, <1>7

-----------------------------------------------------------------------------
(* Types, and what the queues hold, in both modes.                         *)

(* The numbers of commands and answers.                                    *)
LEMMA Counts ==
    ASSUME QueuesOK
    PROVE  Len(cmds) \in Nat /\ Len(rsps) \in Nat /\ Held \in {0, 1} /\ UnderWay \in Nat
  BY DEF QueuesOK, Held, UnderWay

(* Sectors that wait are numbers.                                          *)
LEMMA WaitingType ==
    ASSUME TypeOK
    PROVE  /\ stream \in SUBSET Nat /\ run \in Seq(Nat) /\ Len(run) \in Nat
           /\ run # << >> => 1 \in 1..Len(run)
<1> DEFINE S == UNION CsumLeaves
<1>1. S \subseteq Nat
  <2>1. \A l \in CsumLeaves : l \subseteq Nat
    BY ScrubAssumption
  <2> QED
    BY <2>1
<1>2. run \in Seq(S) /\ stream \subseteq S
  BY DEF TypeOK
<1> HIDE DEF S
<1>3. run \in Seq(Nat)
  BY <1>1, <1>2, SeqMonotonic
<1> QED
  BY <1>1, <1>2, <1>3

(* A checksum pushed onto the run leaves the stream; it still waits.       *)
LEMMA PushKeeps ==
    ASSUME TypeOK, MainOK, PushCsum
    PROVE  /\ Waiting' = Waiting /\ Min(stream) \in stream
           /\ Len(run') = Len(run) + 1 /\ run'[Len(run) + 1] = Min(stream)
           /\ \A k \in 1..Len(run) : run'[k] = run[k]
<1> DEFINE m == Min(stream)
<1>1. m \in stream
  BY MinOfStream, WaitingType DEF PushCsum, MainOK
<1>2. run \in Seq(Nat) /\ m \in Nat
  BY <1>1, WaitingType
<1>3. run' = Append(run, m) /\ stream' = stream \ {m}
  BY DEF PushCsum
<1> HIDE DEF m
<1>4. /\ Len(run') = Len(run) + 1 /\ Len(run) \in Nat
      /\ \A k \in 1..Len(run) : run'[k] = run[k]
      /\ run'[Len(run) + 1] = m
  BY <1>2, <1>3, Enqueue
<1>5. {run'[i] : i \in 1..Len(run')} = {run[i] : i \in 1..Len(run)} \cup {m}
  BY <1>4
<1>6. Waiting' = Waiting
  BY <1>1, <1>3, <1>5 DEF Waiting
<1> QED
  BY <1>1, <1>4, <1>6 DEF m

(* The invariant of both modes holds at the start.                         *)
LEMMA TInvInit == Init => TInv
<1> SUFFICES ASSUME Init PROVE TInv
  OBVIOUS
<1>1. disk \in [DOMAIN Content -> Nat]
  BY ScrubAssumption DEF Init
<1>2. Len(Layout) \in Nat /\ Depth \in Nat \ {0} /\ Budget \in Nat \ {0}
  BY ScrubAssumption
<1>3. TypeOK
  <2>1. job.budget \in 0..Budget /\ job.good \cup job.bad \subseteq 1..Len(job.entries)
    BY <1>2 DEF Init, NoJob
  <2>2. Len(cmds) <= Depth /\ Len(rsps) <= Depth /\ run \in Seq(UNION CsumLeaves)
    BY <1>2 DEF Init
  <2>3. checked \in [Targets -> Nat] /\ ext \in 0..Len(Layout) /\ inflight \in 0..Depth
    BY <1>2 DEF Init
  <2> QED
    BY <1>1, <2>1, <2>2, <2>3 DEF Init, TypeOK
<1>4. QueuesOK
  BY DEF Init, QueuesOK, Busy, Held, UnderWay, Waiting
<1> QED
  BY <1>2, <1>3, <1>4 DEF TInv, Init, MainOK, TruncationTold

(* An answer taken back is a whole run, all of it read or given up.        *)
LEMMA Answer ==
    ASSUME QueuesOK, rsps # << >>
    PROVE  LET r == Head(rsps) IN
           r \in Jobs /\ Belongs(r) /\ CutUp(r) /\ r.pieces = {} /\ r = rsps[1]
<1>1. rsps \in Seq(Jobs)
  BY DEF QueuesOK
<1>2. Head(rsps) = rsps[1] /\ rsps[1] \in Jobs /\ 1 \in 1..Len(rsps)
  BY <1>1, Dequeue
<1> QED
  BY <1>2 DEF QueuesOK

(* Every step of either thread keeps the types.                            *)
LEMMA TypeStep == TInv /\ [Next]_vars => TypeOK'
<1> SUFFICES ASSUME TInv, [Next]_vars PROVE TypeOK'
  OBVIOUS
<1>0. /\ TypeOK /\ QueuesOK /\ MainOK
      /\ Depth \in Nat \ {0} /\ Len(Layout) \in Nat /\ Len(cmds) \in Nat /\ Len(rsps) \in Nat
  BY Counts, ScrubAssumption DEF TInv
<1>a. ASSUME Receive
      PROVE  /\ checked' \in [Targets -> Nat] /\ unread' \subseteq Targets
             /\ reported' \subseteq Targets /\ truncated' \subseteq Targets
             /\ probed' \subseteq Targets
             /\ Len(rsps') <= Depth /\ failed' = failed /\ inflight' \in 0..Depth
  <2>1. rsps # << >> /\ rsps' = Tail(rsps) /\ inflight' = inflight - 1 /\ failed' = failed
    BY <1>a DEF Receive
  <2>2. /\ checked' \in [Targets -> Nat] /\ unread' \subseteq Targets
        /\ reported' \subseteq Targets /\ truncated' \subseteq Targets
        /\ probed' \subseteq Targets
    BY <1>0, <1>a, <2>1, Answer, ProcessType DEF Receive
  <2>3. rsps \in Seq(Jobs)
    BY <1>0 DEF QueuesOK
  <2>4. Len(rsps) > 0 /\ Len(rsps') = Len(rsps) - 1
    BY <2>1, <2>3, Dequeue
  <2>5. inflight \in 0..Depth /\ inflight > 0 /\ Len(rsps) <= Depth
    BY <1>0, <2>4, Counts DEF TypeOK, QueuesOK, UnderWay
  <2> QED
    BY <1>0, <2>1, <2>2, <2>4, <2>5
<1> USE <1>0 DEF TypeOK, mainVars, chanVars, readVars, outVars
<1>1. CASE NextExtent
  <2>1. ext' \in 0..Len(Layout) /\ run' = << >>
    BY <1>1 DEF NextExtent
  <2>2. stream' \subseteq UNION CsumLeaves /\ gaps' \subseteq CsumLeaves /\ mainPc' \in {"extent", "stream"}
    BY <1>1 DEF NextExtent, CsumRange
  <2> QED
    BY <1>1, <2>1, <2>2 DEF NextExtent
<1>2. CASE EmitCsum
  BY <1>2 DEF EmitCsum
<1>3. CASE PushCsum
  <2>1. Min(stream) \in stream
    <3>1. stream # {} /\ stream \subseteq Nat
      BY <1>3, ScrubAssumption DEF PushCsum, MainOK
    <3> QED
      BY <3>1, MinOfStream
  <2>2. run' \in Seq(UNION CsumLeaves)
    <3> DEFINE m == Min(stream)
               S == UNION CsumLeaves
    <3>1. m \in S /\ run' = Append(run, m) /\ run \in Seq(S)
      BY <1>3, <2>1 DEF PushCsum
    <3> HIDE DEF m, S
    <3>2. run' \in Seq(S)
      BY <3>1
    <3> QED
      BY <3>2 DEF S
  <2> QED
    BY <1>3, <2>2 DEF PushCsum
<1>4. CASE EndExtent
  BY <1>4 DEF EndExtent
<1>5. CASE SendRun
  <2>1. CASE ReaderGone
    BY <1>5, <2>1 DEF SendRun
  <2>2. CASE ~ReaderGone
    <3>1. Len(cmds) < Depth /\ cmds' = Append(cmds, ReadCmd(ext, run)) /\ inflight' = inflight + 1
      BY <1>5, <2>2 DEF SendRun
    <3>2. Len(cmds') = Len(cmds) + 1
      BY <3>1 DEF QueuesOK
    <3>3. inflight < Depth
      BY <1>5 DEF SendRun, MainOK
    <3> QED
      BY <1>5, <2>2, <3>1, <3>2, <3>3 DEF SendRun, AfterFlush
  <2> QED
    BY <2>1, <2>2
<1>6. CASE RecvResponse
  <2>1. CASE Receive
    BY <1>6, <2>1, <1>a DEF RecvResponse, AfterFlush
  <2>2. CASE ReceiveError
    BY <1>6, <2>2 DEF RecvResponse, ReceiveError, AfterFlush
  <2> QED
    BY <1>6, <2>1, <2>2 DEF RecvResponse
<1>7. CASE CloseCommands
  BY <1>7 DEF CloseCommands
<1>8. CASE Drain
  <2>1. CASE Receive
    BY <1>8, <2>1, <1>a DEF Drain
  <2>2. CASE ReceiveError
    BY <1>8, <2>2 DEF Drain, ReceiveError
  <2> QED
    BY <1>8, <2>1, <2>2 DEF Drain
<1>9. CASE Drained
  BY <1>9 DEF Drained
<1>10. CASE JoinReader
  BY <1>10 DEF JoinReader
<1>11. CASE ReaderRecv
  <2>1. cmds \in Seq(Runs) /\ cmds # << >> /\ cmds' = Tail(cmds)
    BY <1>11 DEF ReaderRecv, QueuesOK
  <2>2. Len(cmds') = Len(cmds) - 1
    BY <2>1, Dequeue
  <2>3. job'.budget \in 0..Budget /\ job'.good \cup job'.bad \subseteq 1..Len(job'.entries)
    BY <1>11, ScrubAssumption DEF ReaderRecv
  <2> QED
    BY <1>11, <2>2, <2>3 DEF ReaderRecv
<1>12. CASE ReaderEnd
  BY <1>12 DEF ReaderEnd
<1>13. CASE ReadOk
  <2>1. job \in Jobs /\ Belongs(job) /\ CutUp(job)
    BY <1>13 DEF ReadOk, QueuesOK, Busy
  <2>2. job' \in Jobs /\ CutUp(job')
    BY <1>13, <2>1, StillCutUp
  <2>3. job'.budget \in 0..Budget /\ job'.good \cup job'.bad \subseteq 1..Len(job'.entries)
    BY <2>2 DEF Jobs, CutUp
  <2> QED
    BY <1>13, <2>3 DEF ReadOk
<1>14. CASE ReadFails
  <2>1. job \in Jobs /\ Belongs(job) /\ CutUp(job)
    BY <1>14 DEF ReadFails, QueuesOK, Busy
  <2>2. job' \in Jobs /\ CutUp(job')
    BY <1>14, <2>1, StillCutUp
  <2>3. job'.budget \in 0..Budget /\ job'.good \cup job'.bad \subseteq 1..Len(job'.entries)
    BY <2>2 DEF Jobs, CutUp
  <2> QED
    BY <1>14, <2>3 DEF ReadFails
<1>15. CASE GiveUp
  <2>1. job \in Jobs /\ Belongs(job) /\ CutUp(job)
    BY <1>15 DEF GiveUp, QueuesOK, Busy
  <2>2. job' \in Jobs /\ CutUp(job')
    BY <1>15, <2>1, StillCutUp
  <2>3. job'.budget \in 0..Budget /\ job'.good \cup job'.bad \subseteq 1..Len(job'.entries)
    BY <2>2 DEF Jobs, CutUp
  <2> QED
    BY <1>15, <2>3 DEF GiveUp
<1>16. CASE ReaderSend
  <2>1. job \in Jobs /\ rsps \in Seq(Jobs) /\ rsps' = Append(rsps, job) /\ Len(rsps) < Depth
    BY <1>16 DEF ReaderSend, QueuesOK, Busy
  <2>2. Len(rsps') = Len(rsps) + 1
    BY <2>1, Enqueue
  <2>3. job'.budget \in 0..Budget /\ job'.good \cup job'.bad \subseteq 1..Len(job'.entries)
    BY <1>16, ScrubAssumption DEF ReaderSend, NoJob
  <2> QED
    BY <1>16, <2>1, <2>2, <2>3 DEF ReaderSend
<1>17. CASE ReaderPanics
  BY <1>17 DEF ReaderPanics
<1>18. CASE UNCHANGED vars
  BY <1>18 DEF vars
<1> QED
  BY <1>1, <1>2, <1>3, <1>4, <1>5, <1>6, <1>7, <1>8, <1>9,
     <1>10, <1>11, <1>12, <1>13, <1>14, <1>15, <1>16, <1>17, <1>18
     DEF Next, MainStep, ReaderStep

(* The queues hold whole runs, each of its own extent.                     *)
LEMMA QueuesStep == TInv /\ [Next]_vars => QueuesOK'
<1> SUFFICES ASSUME TInv, [Next]_vars PROVE QueuesOK'
  OBVIOUS
<1>0. /\ QueuesOK /\ MainOK /\ TypeOK
      /\ Len(cmds) \in Nat /\ Len(rsps) \in Nat /\ Held \in {0, 1} /\ UnderWay \in Nat
  BY Counts DEF TInv
<1>a. ASSUME UNCHANGED <<cmds, rsps, rPc, job, inflight>>, Waiting' \subseteq OfExtent(ext')
      PROVE  QueuesOK'
  BY <1>0, <1>a DEF QueuesOK, Busy, Held, UnderWay
<1>b. ASSUME Receive, UNCHANGED <<cmds, rPc, job, ext, stream, run>>
      PROVE  QueuesOK'
  <2>1. rsps \in Seq(Jobs) /\ rsps # << >> /\ rsps' = Tail(rsps) /\ inflight' = inflight - 1
    BY <1>0, <1>b DEF Receive, QueuesOK
  <2>2. /\ rsps' \in Seq(Jobs) /\ Len(rsps') = Len(rsps) - 1
        /\ \A k \in 1..Len(rsps') : rsps'[k] = rsps[k + 1] /\ k + 1 \in 1..Len(rsps)
    BY <1>0, <2>1, Dequeue
  <2>3. \A k \in 1..Len(rsps') : Belongs(rsps'[k]) /\ CutUp(rsps'[k]) /\ rsps'[k].pieces = {}
    BY <1>0, <2>2 DEF QueuesOK
  <2>4. UnderWay' = UnderWay - 1
    BY <1>0, <1>b, <2>2 DEF UnderWay, Held, Busy
  <2>5. Waiting' = Waiting /\ Busy' = Busy
    BY <1>b DEF Waiting, Busy
  <2> QED
    BY <1>0, <1>b, <2>1, <2>2, <2>3, <2>4, <2>5 DEF QueuesOK
<1> USE <1>0 DEF mainVars, chanVars, readVars, outVars
<1>1. CASE NextExtent
  <2>1. run' = << >> /\ ext' = ext + 1 /\ ext' \in 1..Len(Layout)
    BY <1>1 DEF NextExtent, TypeOK
  <2>2. Waiting' = stream'
    BY <2>1 DEF Waiting
  <2>3. CASE Layout[ext'].kind # "data"
    <3>1. stream' = {}
      BY <1>1, <2>3 DEF NextExtent, MainOK
    <3> QED
      BY <1>1, <1>a, <2>2, <3>1 DEF NextExtent
  <2>4. CASE Layout[ext'].kind = "data"
    <3>1. PICK lost : stream' = CsumRange(Layout[ext'], lost)
      BY <1>1, <2>4 DEF NextExtent
    <3>2. stream' \subseteq OfExtent(ext')
      BY <2>1, <2>4, <3>1 DEF CsumRange, OfExtent
    <3> QED
      BY <1>1, <1>a, <2>2, <3>2 DEF NextExtent
  <2> QED
    BY <2>3, <2>4
<1>2. CASE EmitCsum
  BY <1>2, <1>a DEF EmitCsum, QueuesOK, Waiting
<1>3. CASE PushCsum
  <2>1. Waiting' = Waiting
    BY <1>3, PushKeeps
  <2> QED
    BY <1>3, <1>a, <2>1 DEF PushCsum, QueuesOK
<1>4. CASE EndExtent
  BY <1>4, <1>a DEF EndExtent, QueuesOK, Waiting
<1>5. CASE SendRun
  <2>0. Waiting' \subseteq OfExtent(ext')
    BY <1>5 DEF SendRun, Waiting, QueuesOK
  <2>1. CASE ReaderGone
    BY <1>5, <2>0, <2>1, <1>a DEF SendRun
  <2>2. CASE ~ReaderGone
    <3> DEFINE c == ReadCmd(ext, run)
    <3>1. /\ cmds' = Append(cmds, c) /\ inflight' = inflight + 1
          /\ UNCHANGED <<rsps, rPc, job>> /\ run # << >>
      BY <1>5, <2>2 DEF SendRun, MainOK
    <3>2. \A i \in 1..Len(run) : run[i] \in OfExtent(ext)
      BY DEF QueuesOK, Waiting
    <3>3. run \in Seq(Nat) /\ 1 \in 1..Len(run)
      BY <3>1, WaitingType
    <3>4. ext \in Nat /\ PhysIn(Layout[ext], run[1]) \in Int
      <4>1. PhysIn(Layout[ext], run[1]) \in Int
        BY <3>2, <3>3, ExtentSectors
      <4> QED
        BY <4>1, ScrubAssumption DEF TypeOK
    <3>5. c \in Runs /\ Belongs(c)
      BY <3>1, <3>2, <3>3, <3>4 DEF ReadCmd, Runs, Belongs
    <3> HIDE DEF c
    <3>6. cmds \in Seq(Runs)
      BY DEF QueuesOK
    <3>7. /\ cmds' \in Seq(Runs) /\ Len(cmds') = Len(cmds) + 1
          /\ \A k \in 1..Len(cmds) : cmds'[k] = cmds[k]
          /\ cmds'[Len(cmds) + 1] = c
      BY <3>1, <3>5, <3>6, Enqueue
    <3>8. \A k \in 1..Len(cmds') : Belongs(cmds'[k])
      BY <3>5, <3>7 DEF QueuesOK
    <3>9. UnderWay' = UnderWay + 1
      <4>1. Held' = Held /\ Len(rsps') = Len(rsps)
        BY <3>1 DEF Held, Busy
      <4> QED
        BY <3>7, <4>1 DEF UnderWay
    <3> QED
      BY <2>0, <3>1, <3>7, <3>8, <3>9 DEF QueuesOK, Busy
  <2> QED
    BY <2>1, <2>2
<1>6. CASE RecvResponse
  <2>1. CASE Receive
    BY <1>6, <2>1, <1>b DEF RecvResponse
  <2>2. CASE ReceiveError
    BY <1>6, <2>2, <1>a DEF RecvResponse, ReceiveError, QueuesOK, Waiting
  <2> QED
    BY <1>6, <2>1, <2>2 DEF RecvResponse
<1>7. CASE CloseCommands
  BY <1>7, <1>a DEF CloseCommands, QueuesOK, Waiting
<1>8. CASE Drain
  <2>1. CASE Receive
    BY <1>8, <2>1, <1>b DEF Drain
  <2>2. CASE ReceiveError
    BY <1>8, <2>2, <1>a DEF Drain, ReceiveError, QueuesOK, Waiting
  <2> QED
    BY <1>8, <2>1, <2>2 DEF Drain
<1>9. CASE Drained
  BY <1>9, <1>a DEF Drained, QueuesOK, Waiting
<1>10. CASE JoinReader
  BY <1>10, <1>a DEF JoinReader, QueuesOK, Waiting
<1>11. CASE ReaderRecv
  <2>1. cmds \in Seq(Runs) /\ cmds # << >> /\ cmds' = Tail(cmds)
    BY <1>11 DEF ReaderRecv, QueuesOK
  <2> DEFINE c == Head(cmds)
             n == Len(c.entries)
  <2>2. /\ c = cmds[1] /\ c \in Runs /\ 1 \in 1..Len(cmds)
        /\ cmds' \in Seq(Runs) /\ Len(cmds') = Len(cmds) - 1
        /\ \A k \in 1..Len(cmds') : cmds'[k] = cmds[k + 1] /\ k + 1 \in 1..Len(cmds)
    BY <2>1, Dequeue
  <2>3. Belongs(c)
    BY <2>2 DEF QueuesOK
  <2>4. c.entries \in Seq(Nat) /\ c.ext \in Nat /\ c.phys \in Int /\ n \in Nat \ {0}
    BY <2>2, <2>3 DEF Runs, Belongs
  <2> HIDE DEF c
  <2>5. job' = [ext |-> c.ext, phys |-> c.phys, entries |-> c.entries, pieces |-> {Piece(1, n)},
                budget |-> Budget, good |-> {}, bad |-> {}, alone |-> {}]
    BY <1>11 DEF ReaderRecv, c
  <2>6. Piece(1, n) \in Pieces /\ Indices(Piece(1, n)) = 1..n
    BY <2>4 DEF Pieces, Piece, Indices
  <2>7. Budget \in 0..Budget
    BY ScrubAssumption
  <2>8. job' \in Jobs
    <3> HIDE DEF n
    <3> QED
      BY <2>4, <2>5, <2>6, <2>7 DEF Jobs
  <2>9. /\ job'.entries = c.entries /\ job'.ext = c.ext /\ job'.pieces = {Piece(1, n)}
        /\ job'.good = {} /\ job'.bad = {} /\ job'.alone = {}
    BY <2>5
  <2>10. Belongs(job') /\ CutUp(job')
    <3>1. Left(job') = 1..n
      BY <2>6, <2>9 DEF Left
    <3> QED
      BY <2>3, <2>9, <3>1 DEF Belongs, CutUp
  <2>11. ~Busy /\ Busy' /\ UnderWay' = UnderWay
    <3>1. ~Busy /\ Busy' /\ rsps' = rsps
      BY <1>11 DEF ReaderRecv, Busy
    <3> QED
      BY <2>2, <3>1 DEF UnderWay, Held
  <2>12. Waiting' = Waiting /\ rsps' = rsps /\ ext' = ext /\ inflight' = inflight
    BY <1>11 DEF ReaderRecv, Waiting
  <2>13. \A k \in 1..Len(cmds') : Belongs(cmds'[k])
    BY <2>2 DEF QueuesOK
  <2> QED
    BY <2>2, <2>8, <2>10, <2>11, <2>12, <2>13 DEF QueuesOK
<1>12. CASE ReaderEnd
  BY <1>12, ScrubAssumption DEF ReaderEnd, QueuesOK, Busy, Held, UnderWay, Waiting
<1>13. CASE ReadOk
  <2>1. job \in Jobs /\ Belongs(job) /\ CutUp(job)
    BY <1>13 DEF ReadOk, QueuesOK, Busy
  <2>2. job' \in Jobs /\ Belongs(job') /\ CutUp(job')
    BY <1>13, <2>1, StillCutUp
  <2>3. /\ UNCHANGED <<cmds, rsps, inflight, ext>> /\ Waiting' = Waiting
        /\ Busy /\ Busy' /\ UnderWay' = UnderWay
    BY <1>13 DEF ReadOk, Busy, Held, UnderWay, Waiting
  <2> QED
    BY <2>2, <2>3 DEF QueuesOK
<1>14. CASE ReadFails
  <2>1. job \in Jobs /\ Belongs(job) /\ CutUp(job)
    BY <1>14 DEF ReadFails, QueuesOK, Busy
  <2>2. job' \in Jobs /\ Belongs(job') /\ CutUp(job')
    BY <1>14, <2>1, StillCutUp
  <2>3. /\ UNCHANGED <<cmds, rsps, inflight, ext>> /\ Waiting' = Waiting
        /\ Busy /\ Busy' /\ UnderWay' = UnderWay
    BY <1>14 DEF ReadFails, Busy, Held, UnderWay, Waiting
  <2> QED
    BY <2>2, <2>3 DEF QueuesOK
<1>15. CASE GiveUp
  <2>1. job \in Jobs /\ Belongs(job) /\ CutUp(job)
    BY <1>15 DEF GiveUp, QueuesOK, Busy
  <2>2. job' \in Jobs /\ Belongs(job') /\ CutUp(job')
    BY <1>15, <2>1, StillCutUp
  <2>3. /\ UNCHANGED <<cmds, rsps, inflight, ext>> /\ Waiting' = Waiting
        /\ Busy /\ Busy' /\ UnderWay' = UnderWay
    BY <1>15 DEF GiveUp, Busy, Held, UnderWay, Waiting
  <2> QED
    BY <2>2, <2>3 DEF QueuesOK
<1>16. CASE ReaderSend
  <2>1. /\ job \in Jobs /\ Belongs(job) /\ CutUp(job) /\ job.pieces = {}
        /\ rsps \in Seq(Jobs) /\ rsps' = Append(rsps, job)
    BY <1>16 DEF ReaderSend, QueuesOK, Busy
  <2>2. /\ rsps' \in Seq(Jobs) /\ Len(rsps') = Len(rsps) + 1
        /\ \A k \in 1..Len(rsps) : rsps'[k] = rsps[k]
        /\ rsps'[Len(rsps) + 1] = job
    BY <2>1, Enqueue
  <2>3. \A k \in 1..Len(rsps') : Belongs(rsps'[k]) /\ CutUp(rsps'[k]) /\ rsps'[k].pieces = {}
    BY <2>1, <2>2 DEF QueuesOK
  <2>4. Busy /\ ~Busy' /\ cmds' = cmds /\ job' = NoJob
    BY <1>16 DEF ReaderSend, Busy
  <2>5. UnderWay' = UnderWay
    BY <2>2, <2>4 DEF UnderWay, Held
  <2>6. Waiting' = Waiting /\ ext' = ext /\ inflight' = inflight
    BY <1>16 DEF ReaderSend, Waiting
  <2> QED
    BY <2>2, <2>3, <2>4, <2>5, <2>6 DEF QueuesOK
<1>17. CASE ReaderPanics
  BY <1>17 DEF ReaderPanics, QueuesOK, Busy, Held, UnderWay, Waiting
<1>18. CASE UNCHANGED vars
  BY <1>18, <1>a DEF vars, QueuesOK, Waiting
<1> QED
  BY <1>1, <1>2, <1>3, <1>4, <1>5, <1>6, <1>7, <1>8, <1>9,
     <1>10, <1>11, <1>12, <1>13, <1>14, <1>15, <1>16, <1>17, <1>18
     DEF Next, MainStep, ReaderStep

(* Where the main thread stands, and how much is under way by then.        *)
LEMMA MainOKStep == TInv /\ [Next]_vars => MainOK'
<1> SUFFICES ASSUME TInv, [Next]_vars PROVE MainOK'
  OBVIOUS
<1>0. MainOK /\ TypeOK /\ Depth \in Nat \ {0}
  BY ScrubAssumption DEF TInv
<1> USE <1>0 DEF TypeOK, MainOK, mainVars, chanVars, readVars, outVars
<1>1. CASE NextExtent
  BY <1>1 DEF NextExtent
<1>2. CASE EmitCsum
  BY <1>2 DEF EmitCsum, Breaks
<1>3. CASE PushCsum
  BY <1>3 DEF PushCsum
<1>4. CASE EndExtent
  BY <1>4 DEF EndExtent
<1>5. CASE SendRun
  BY <1>5 DEF SendRun, Receive, ReceiveError, AfterFlush
<1>6. CASE RecvResponse
  BY <1>6 DEF RecvResponse, Receive, ReceiveError, AfterFlush
<1>7. CASE CloseCommands
  BY <1>7 DEF CloseCommands
<1>8. CASE Drain
  BY <1>8 DEF Drain, Receive, ReceiveError, AfterFlush
<1>9. CASE Drained
  BY <1>9 DEF Drained
<1>10. CASE JoinReader
  BY <1>10 DEF JoinReader
<1>11. CASE ReaderRecv
  BY <1>11 DEF ReaderRecv
<1>12. CASE ReaderEnd
  BY <1>12 DEF ReaderEnd
<1>13. CASE ReadOk
  BY <1>13 DEF ReadOk
<1>14. CASE ReadFails
  BY <1>14 DEF ReadFails
<1>15. CASE GiveUp
  BY <1>15 DEF GiveUp
<1>16. CASE ReaderSend
  BY <1>16 DEF ReaderSend
<1>17. CASE ReaderPanics
  BY <1>17 DEF ReaderPanics
<1>18. CASE UNCHANGED vars
  BY <1>18 DEF vars
<1> QED
  BY <1>1, <1>2, <1>3, <1>4, <1>5, <1>6, <1>7, <1>8, <1>9,
     <1>10, <1>11, <1>12, <1>13, <1>14, <1>15, <1>16, <1>17, <1>18
     DEF Next, MainStep, ReaderStep

(* Whatever is counted as unreadable came with an answer, which says why.  *)
LEMMA ToldStep == TInv /\ [Next]_vars => TruncationTold'
<1> SUFFICES ASSUME TInv, [Next]_vars PROVE TruncationTold'
  OBVIOUS
<1>0. TypeOK /\ QueuesOK /\ TruncationTold
  BY DEF TInv
<1>q. ASSUME UNCHANGED outVars PROVE TruncationTold'
  BY <1>0, <1>q DEF TruncationTold, outVars
<1>r. ASSUME Receive PROVE TruncationTold'
  BY <1>0, <1>r, Answer, ProcessType DEF Receive
<1>1. CASE RecvResponse \/ Drain
  BY <1>1, <1>q, <1>r DEF RecvResponse, Drain, ReceiveError
<1>2. CASE NextExtent \/ EmitCsum \/ PushCsum \/ EndExtent \/ SendRun \/ CloseCommands \/ Drained
           \/ JoinReader
  BY <1>2, <1>q DEF NextExtent, EmitCsum, PushCsum, EndExtent, SendRun, CloseCommands, Drained,
                    JoinReader
<1>3. CASE ReaderStep \/ ReaderPanics
  BY <1>3, <1>q DEF ReaderStep, ReaderRecv, ReaderEnd, ReadOk, ReadFails, GiveUp, ReaderSend,
                    ReaderPanics
<1>4. CASE UNCHANGED vars
  BY <1>4, <1>q DEF vars
<1> QED
  BY <1>1, <1>2, <1>3, <1>4 DEF Next, MainStep

(* The invariant of both modes always holds.                               *)
THEOREM TypeInvariance == Spec => []TInv
<1>1. TInv /\ [Next]_vars => TInv'
  BY TypeStep, QueuesStep, MainOKStep, ToldStep DEF TInv
<1> QED
  BY <1>1, TInvInit, PTL DEF Spec

(* The variables of both threads and the channels have their types; the    *)
(* channels never hold more than Depth.                                    *)
THEOREM TypeCorrect == Spec => []TypeOK
<1>1. TInv => TypeOK
  BY DEF TInv
<1> QED
  BY <1>1, TypeInvariance, PTL

(* A sector is counted as unreadable only after a read of it alone failed, *)
(* or in a run counted as truncated.                                       *)
THEOREM Isolation == Spec => []TruncationTold
<1>1. TInv => TruncationTold
  BY DEF TInv
<1> QED
  BY <1>1, TypeInvariance, PTL

-----------------------------------------------------------------------------
(* The inductive invariant of the pipeline.                                *)

(* Where the sectors of a run and of an extent are on the device.          *)
Cells(c)  == {PhysIn(Layout[c.ext], c.entries[i]) : i \in 1..Len(c.entries)}
Places(x) == {PhysIn(Layout[x], s) : s \in OfExtent(x)}

(* The walk has passed a sector's extent; its run is under way; it waits   *)
(* for its run to be sent.                                                 *)
Walked  == UNION {Places(x) : x \in 1..ext}
Flying  == UNION {Cells(Pipe[k]) : k \in 1..inflight}
Pending == {PhysIn(Layout[ext], s) : s \in Waiting}

(* A run is of neighbours, in order, and starts where its first entry is.  *)
Straight(entries) == \A i \in 1..Len(entries) : entries[i] = entries[1] + (i - 1)
InPlace(c) == Straight(c.entries) /\ c.phys = PhysIn(Layout[c.ext], c.entries[1])

(* The runs under way are of extents walked so far and share no sector.    *)
PipeOK ==
    /\ \A k \in 1..inflight : InPlace(Pipe[k]) /\ Cells(Pipe[k]) \subseteq Walked
    /\ \A k \in 1..inflight : \A l \in 1..inflight :
          k # l => Cells(Pipe[k]) \cap Cells(Pipe[l]) = {}

(* The run being gathered continues in the stream; nothing is left to wait *)
(* between extents, nor at the end unless the pipeline failed.             *)
RunOK ==
    /\ Straight(run)
    /\ \A i \in 1..Len(run) : run[i] \notin stream
    /\ mainPc = "push" /\ run # << >> => Min(stream) = run[Len(run)] + 1
    /\ mainPc = "extent" => Waiting = {}
    /\ mainPc = "recv" => run = << >>
    /\ mainPc = "close" => failed
    /\ mainPc \in {"drain", "join", "ok"} /\ ~failed => ext = Len(Layout) /\ Waiting = {}
    /\ mainPc \in {"join", "ok"} /\ ~failed => inflight = 0

(* A sector is counted when its answer is processed, not before.           *)
CountOK ==
    /\ \A p \in Targets : checked[p] <= 1
    /\ \A p \in Targets : checked[p] > 0 => p \in Walked /\ p \notin Flying /\ p \notin Pending
    /\ Flying \cap Pending = {}

(* Unless the pipeline failed, a sector the walk has passed is counted, in *)
(* a gap, under way or waiting.                                            *)
NoneLost ==
    ~failed => \A p \in Walked : checked[p] = 1 \/ p \in Covered(gaps) \cup Flying \cup Pending

(* What is reported is wrong; in batch mode all that is wrong is reported. *)
ReportOK ==
    /\ \A p \in reported : ~Sound(p) \/ p \in unread
    /\ batch => /\ unread \subseteq reported
                /\ \A p \in Targets : checked[p] > 0 /\ ~Sound(p) => p \in reported

PInv == TInv /\ mode = "pipelined" /\ PipeOK /\ RunOK /\ CountOK /\ NoneLost /\ ReportOK

-----------------------------------------------------------------------------
(* Places on the device.                                                   *)

(* No sector of the device is in two extents.                              *)
LEMMA Apart ==
    ASSUME NEW x, NEW y, x # y
    PROVE  Places(x) \cap Places(y) = {}
<1> SUFFICES ASSUME NEW p \in Places(x), p \in Places(y) PROVE FALSE
  OBVIOUS
<1>1. PICK s \in OfExtent(x) : p = PhysIn(Layout[x], s)
  BY DEF Places
<1>2. PICK t \in OfExtent(y) : p = PhysIn(Layout[y], t)
  BY DEF Places
<1>3. /\ x \in 1..Len(Layout) /\ p \in Int
      /\ Layout[x].phys <= p /\ p < Layout[x].phys + Layout[x].len
  BY <1>1, ExtentSectors
<1>4. /\ y \in 1..Len(Layout)
      /\ Layout[y].phys <= p /\ p < Layout[y].phys + Layout[y].len
  BY <1>2, ExtentSectors
<1>5. \A z \in 1..Len(Layout) : Layout[z].phys \in Nat /\ Layout[z].len \in Nat
  <2> DEFINE E == [kind : {"data", "other"}, logical : Nat, phys : Nat, len : Nat]
  <2>1. Layout \in Seq(E)
    BY ScrubAssumption
  <2>2. \A c \in E : c.phys \in Nat /\ c.len \in Nat
    OBVIOUS
  <2> HIDE DEF E
  <2>3. \A z \in 1..Len(Layout) : Layout[z] \in E
    BY <2>1
  <2> QED
    BY <2>2, <2>3
<1>6. \/ Layout[x].phys + Layout[x].len <= Layout[y].phys
      \/ Layout[y].phys + Layout[y].len <= Layout[x].phys
  BY <1>3, <1>4, LayoutAssumption
<1>7. /\ Layout[x].phys \in Nat /\ Layout[x].len \in Nat
      /\ Layout[y].phys \in Nat /\ Layout[y].len \in Nat
  BY <1>3, <1>4, <1>5
<1>8. \A a, b, c, d \in Nat : \A q \in Int :
         a <= q /\ q < a + b /\ c <= q /\ q < c + d => ~(a + b <= c) /\ ~(c + d <= a)
  OBVIOUS
<1> QED
  BY <1>3, <1>4, <1>6, <1>7, <1>8, Zenon

(* The sectors of the extents are those the scrub is about.                *)
LEMMA AllPlaces ==
    /\ \A x : Places(x) \subseteq Targets
    /\ \A p \in Targets : \E x \in 1..Len(Layout) : p \in Places(x)
<1>1. \A x : Places(x) \subseteq Targets
  BY ExtentSectors DEF Places
<1>2. ASSUME NEW p \in Targets PROVE \E x \in 1..Len(Layout) : p \in Places(x)
  <2>1. PICK e \in DataExtents : p \in {PhysIn(e, s) : s \in Sectors(e) \cap UNION CsumLeaves}
    BY DEF Targets, Covered
  <2>2. PICK x \in 1..Len(Layout) : e = Layout[x] /\ e.kind = "data"
    BY DEF DataExtents, Extents
  <2>3. OfExtent(x) = Sectors(e) \cap UNION CsumLeaves
    BY <2>2 DEF OfExtent
  <2> QED
    BY <2>1, <2>2, <2>3 DEF Places
<1> QED
  BY <1>1, <1>2

(* Two sectors of an extent are at two places, at the same distance.       *)
LEMMA Distinct ==
    ASSUME NEW x, NEW s \in OfExtent(x), NEW t \in OfExtent(x)
    PROVE  /\ PhysIn(Layout[x], s) - PhysIn(Layout[x], t) = s - t
           /\ s # t => PhysIn(Layout[x], s) # PhysIn(Layout[x], t)
<1>1. x \in 1..Len(Layout) /\ s \in Nat /\ t \in Nat
  BY ExtentSectors
<1>2. Layout[x].phys \in Nat /\ Layout[x].logical \in Nat
  <2> DEFINE E == [kind : {"data", "other"}, logical : Nat, phys : Nat, len : Nat]
  <2>1. Layout \in Seq(E)
    BY ScrubAssumption
  <2>2. \A c \in E : c.phys \in Nat /\ c.logical \in Nat
    OBVIOUS
  <2> HIDE DEF E
  <2>3. Layout[x] \in E
    BY <1>1, <2>1
  <2> QED
    BY <2>2, <2>3
<1> QED
  BY <1>1, <1>2 DEF PhysIn

(* The cells of a run are places of its extent.                            *)
LEMMA CellsOfRun ==
    ASSUME NEW c, Belongs(c)
    PROVE  Cells(c) \subseteq Places(c.ext) /\ Cells(c) \subseteq Targets
<1>1. Cells(c) \subseteq Places(c.ext)
  BY DEF Belongs, Cells, Places
<1> QED
  BY <1>1, AllPlaces

(* An answer counts each sector of its run once and no other, and its      *)
(* sectors are compared with their own checksums.                          *)
LEMMA ProcessCounts ==
    ASSUME TypeOK, NEW r \in Jobs, Belongs(r), CutUp(r), r.pieces = {}, InPlace(r), Process(r)
    PROVE  /\ \A p \in Targets : checked'[p] = checked[p] + (IF p \in Cells(r) THEN 1 ELSE 0)
           /\ \A i \in 1..Len(r.entries) :
                 Matches(r, i) <=> Sound(PhysIn(Layout[r.ext], r.entries[i]))
<1> DEFINE n     == Len(r.entries)
           pl(i) == PhysIn(Layout[r.ext], r.entries[i])
           of(p) == {i \in r.good \cup r.bad : PhysIn(Layout[r.ext], r.entries[i]) = p}
<1>1. n \in Nat /\ r.entries \in Seq(Nat) /\ r.phys \in Int
  BY DEF Jobs
<1>2. r.good \cup r.bad = 1..n
  BY DEF CutUp, Left
<1>3. \A i \in 1..n : r.entries[i] \in OfExtent(r.ext) /\ r.entries[i] = r.entries[1] + (i - 1)
  BY DEF Belongs, InPlace, Straight
<1>4. \A i \in 1..n : \A j \in 1..n : i # j => pl(i) # pl(j)
  <2> TAKE i \in 1..n
  <2> TAKE j \in 1..n
  <2> HAVE i # j
  <2>1. r.entries[i] = r.entries[1] + (i - 1) /\ r.entries[j] = r.entries[1] + (j - 1)
    BY <1>3
  <2>2. r.entries[1] \in Nat /\ i \in Int /\ j \in Int
    BY <1>1
  <2>3. r.entries[i] # r.entries[j]
    BY <2>1, <2>2
  <2> QED
    BY <1>3, <2>3, Distinct
<1>5. \A p : p \in Cells(r) <=> \E i \in 1..n : pl(i) = p
  BY DEF Cells
<1>6. ASSUME NEW p \in Targets
      PROVE  Cardinality(of(p)) = IF p \in Cells(r) THEN 1 ELSE 0
  <2>1. CASE p \in Cells(r)
    <3>1. PICK i \in 1..n : pl(i) = p
      BY <1>5, <2>1
    <3>2. of(p) = {i}
      BY <1>2, <1>4, <3>1
    <3> QED
      BY <2>1, <3>2, FS_Singleton
  <2>2. CASE p \notin Cells(r)
    <3>1. of(p) = {}
      BY <1>2, <1>5, <2>2
    <3> QED
      BY <2>2, <3>1, FS_EmptySet
  <2> QED
    BY <2>1, <2>2
<1>7. \A p \in Targets : checked'[p] = checked[p] + Cardinality(of(p))
  BY DEF Process
<1>8. ASSUME NEW i \in 1..n
      PROVE  Matches(r, i) <=> Sound(pl(i))
  <2>1. 1 \in 1..n
    BY <1>1
  <2>2. pl(i) - pl(1) = r.entries[i] - r.entries[1]
    BY <1>3, <2>1, Distinct
  <2>3. pl(i) \in Int /\ pl(1) \in Int /\ r.entries[1] \in Nat
    BY <1>3, <2>1, ExtentSectors
  <2>4. r.phys = pl(1) /\ r.entries[i] = r.entries[1] + (i - 1)
    BY <1>3 DEF InPlace
  <2>5. r.phys + i - 1 = pl(i)
    <3> HIDE DEF pl
    <3> QED
      BY <1>1, <2>2, <2>3, <2>4
  <2> QED
    BY <2>5 DEF Matches, Sound
<1> HIDE DEF of
<1>9. \A p \in Targets : checked'[p] = checked[p] + (IF p \in Cells(r) THEN 1 ELSE 0)
  BY <1>6, <1>7
<1> QED
  BY <1>8, <1>9

-----------------------------------------------------------------------------
(* How steps change the pipeline.                                          *)

(* The reader moves runs along and forgets none: the pipeline, seen as one *)
(* queue, stays as it is.                                                  *)
LEMMA ReaderKeeps ==
    ASSUME TInv, ReaderStep \/ ReaderPanics
    PROVE  Pipe' = Pipe /\ UNCHANGED <<mode, batch, disk, mainVars, outVars, gaps>>
<1>0. QueuesOK /\ Len(cmds) \in Nat /\ Len(rsps) \in Nat
  BY Counts DEF TInv
<1> USE <1>0
<1>1. CASE ReaderRecv
  <2>1. cmds \in Seq(Runs) /\ cmds # << >> /\ cmds' = Tail(cmds)
    BY <1>1 DEF ReaderRecv, QueuesOK
  <2>2. /\ Head(cmds) = cmds[1] /\ 1 \in 1..Len(cmds) /\ Len(cmds') = Len(cmds) - 1
        /\ \A k \in 1..Len(cmds') : cmds'[k] = cmds[k + 1]
    BY <2>1, Dequeue
  <2>3. rsps' = rsps /\ Held = 0 /\ Held' = 1
    BY <1>1 DEF ReaderRecv, Held, Busy
  <2>4. UnderWay' = UnderWay
    BY <2>2, <2>3 DEF UnderWay
  <2>5. AsRun(job') = AsRun(cmds[1])
    BY <1>1, <2>2 DEF ReaderRecv, AsRun
  <2>6. ASSUME NEW k \in 1..UnderWay PROVE AsRun(Item(k)') = AsRun(Item(k))
    <3>1. CASE k <= Len(rsps)
      BY <2>3, <3>1 DEF Item
    <3>2. CASE k = Len(rsps) + 1
      <4>1. Item(k)' = job' /\ Item(k) = cmds[1]
        BY <2>3, <3>2 DEF Item
      <4> QED
        BY <2>5, <4>1
    <3>3. CASE k > Len(rsps) + 1
      <4>1. k - Len(rsps) - 1 \in 1..Len(cmds') /\ (k - Len(rsps) - 1) + 1 = k - Len(rsps)
        BY <2>2, <2>3, <3>3 DEF UnderWay
      <4>2. Item(k)' = cmds'[k - Len(rsps) - 1] /\ Item(k) = cmds[k - Len(rsps)]
        BY <2>3, <3>3 DEF Item
      <4> QED
        BY <2>2, <4>1, <4>2
    <3> QED
      BY <3>1, <3>2, <3>3 DEF UnderWay
  <2>7. Pipe' = Pipe
    BY <2>4, <2>6 DEF Pipe, AsRun
  <2> QED
    BY <1>1, <2>7 DEF ReaderRecv
<1>2. CASE ReaderSend
  <2>1. job \in Jobs /\ rsps \in Seq(Jobs) /\ rsps' = Append(rsps, job)
    BY <1>2 DEF ReaderSend, QueuesOK, Busy
  <2>2. /\ Len(rsps') = Len(rsps) + 1 /\ rsps'[Len(rsps) + 1] = job
        /\ \A k \in 1..Len(rsps) : rsps'[k] = rsps[k]
    BY <2>1, Enqueue
  <2>3. cmds' = cmds /\ Held = 1 /\ Held' = 0
    BY <1>2 DEF ReaderSend, Held, Busy
  <2>4. UnderWay' = UnderWay
    BY <2>2, <2>3 DEF UnderWay
  <2>5. ASSUME NEW k \in 1..UnderWay PROVE Item(k)' = Item(k)
    <3>1. CASE k <= Len(rsps)
      BY <2>2, <3>1 DEF Item
    <3>2. CASE k = Len(rsps) + 1
      BY <2>2, <2>3, <3>2 DEF Item
    <3>3. CASE k > Len(rsps) + 1
      <4>1. Item(k)' = cmds[k - (Len(rsps) + 1) - 0] /\ Item(k) = cmds[k - Len(rsps) - 1]
        BY <2>2, <2>3, <3>3 DEF Item
      <4> QED
        BY <4>1
    <3> QED
      BY <3>1, <3>2, <3>3 DEF UnderWay
  <2>6. Pipe' = Pipe
    BY <2>4, <2>5 DEF Pipe, AsRun
  <2> QED
    BY <1>2, <2>6 DEF ReaderSend
<1>3. CASE ReadOk \/ ReadFails \/ GiveUp
  <2>1. job \in Jobs /\ Belongs(job) /\ CutUp(job)
    BY <1>3 DEF ReadOk, ReadFails, GiveUp, QueuesOK, Busy
  <2>2. AsRun(job') = AsRun(job)
    BY <1>3, <2>1, StillCutUp
  <2>3. UNCHANGED <<cmds, rsps, rPc>>
    BY <1>3 DEF ReadOk, ReadFails, GiveUp, chanVars
  <2>4. UnderWay' = UnderWay /\ Held' = Held
    BY <2>3 DEF UnderWay, Held, Busy
  <2>5. \A k \in 1..UnderWay : AsRun(Item(k)') = AsRun(Item(k))
    BY <2>2, <2>3, <2>4 DEF Item
  <2>6. Pipe' = Pipe
    BY <2>4, <2>5 DEF Pipe, AsRun
  <2> QED
    BY <1>3, <2>6 DEF ReadOk, ReadFails, GiveUp
<1>4. CASE ReaderEnd \/ ReaderPanics
  <2>1. UNCHANGED <<cmds, rsps, job>> /\ Held' = Held
    BY <1>4 DEF ReaderEnd, ReaderPanics, Held, Busy, chanVars
  <2>2. Pipe' = Pipe
    BY <2>1 DEF Pipe, Item, AsRun, UnderWay
  <2> QED
    BY <1>4, <2>2 DEF ReaderEnd, ReaderPanics
<1> QED
  BY <1>1, <1>2, <1>3, <1>4 DEF ReaderStep

(* A run that is sent joins the pipeline's end.                            *)
LEMMA SendGrows ==
    ASSUME TInv, SendRun, ~ReaderGone
    PROVE  /\ inflight' = inflight + 1 /\ inflight \in Nat
           /\ \A k \in 1..inflight : Pipe'[k] = Pipe[k]
           /\ Pipe'[inflight + 1] = ReadCmd(ext, run)
<1> DEFINE c == ReadCmd(ext, run)
<1>0. /\ QueuesOK /\ Len(cmds) \in Nat /\ Len(rsps) \in Nat /\ Held \in {0, 1}
      /\ inflight = UnderWay /\ UnderWay \in Nat
  BY Counts DEF TInv, QueuesOK
<1>1. cmds' = Append(cmds, c) /\ inflight' = inflight + 1 /\ UNCHANGED <<rsps, rPc, job>>
  BY DEF SendRun, readVars
<1>2. cmds \in Seq(Runs) /\ cmds' \in Seq(Runs)
  BY <1>0, QueuesStep DEF QueuesOK, Next, MainStep
<1>3. c = AsRun(c)
  BY DEF ReadCmd, AsRun
<1> HIDE DEF c
<1>4. /\ Len(cmds') = Len(cmds) + 1 /\ cmds'[Len(cmds) + 1] = c
      /\ \A k \in 1..Len(cmds) : cmds'[k] = cmds[k]
  BY <1>1, <1>2
<1>5. Held' = Held /\ rsps' = rsps /\ job' = job
  BY <1>1 DEF Held, Busy
<1>6. UnderWay' = UnderWay + 1
  BY <1>0, <1>1, <1>4, <1>5 DEF UnderWay
<1>7. ASSUME NEW k \in 1..UnderWay PROVE Item(k)' = Item(k)
  <2>1. CASE k <= Len(rsps) + Held
    BY <1>0, <1>5, <2>1 DEF Item
  <2>2. CASE k > Len(rsps) + Held
    <3>1. k - Len(rsps) - Held \in 1..Len(cmds)
      BY <1>0, <2>2 DEF UnderWay
    <3>2. Item(k)' = cmds'[k - Len(rsps) - Held] /\ Item(k) = cmds[k - Len(rsps) - Held]
      BY <1>0, <1>5, <2>2 DEF Item
    <3> QED
      BY <1>4, <3>1, <3>2
  <2> QED
    BY <1>0, <2>1, <2>2
<1>8. PICK n \in Nat : n = UnderWay + 1
  BY <1>0
<1>9. Item(n)' = c
  <2>1. n - Len(rsps) - Held = Len(cmds) + 1 /\ n > Len(rsps) + Held
    BY <1>0, <1>8 DEF UnderWay
  <2>2. Item(n)' = cmds'[n - Len(rsps) - Held]
    BY <1>0, <1>5, <2>1 DEF Item
  <2> QED
    BY <1>4, <2>1, <2>2
<1>10. /\ \A k \in 1..UnderWay : Pipe'[k] = AsRun(Item(k)') /\ Pipe[k] = AsRun(Item(k))
       /\ Pipe'[n] = AsRun(Item(n)')
  BY <1>0, <1>6, <1>8 DEF Pipe, AsRun
<1>11. \A k \in 1..UnderWay : Pipe'[k] = Pipe[k]
  BY <1>7, <1>10
<1>12. Pipe'[n] = c
  BY <1>3, <1>9, <1>10
<1> QED
  BY <1>0, <1>1, <1>8, <1>11, <1>12 DEF c

(* An answer taken back was the pipeline's first.                          *)
LEMMA ReceiveShifts ==
    ASSUME TInv, Receive, UNCHANGED <<cmds, rPc, job>>
    PROVE  /\ inflight' = inflight - 1 /\ inflight \in Nat \ {0}
           /\ \A k \in 1..(inflight - 1) : Pipe'[k] = Pipe[k + 1]
           /\ Pipe[1] = AsRun(Head(rsps))
<1>0. /\ QueuesOK /\ Len(cmds) \in Nat /\ Len(rsps) \in Nat /\ Held \in {0, 1}
      /\ inflight = UnderWay /\ UnderWay \in Nat
  BY Counts DEF TInv, QueuesOK
<1>1. /\ rsps \in Seq(Jobs) /\ rsps # << >> /\ rsps' = Tail(rsps)
      /\ inflight' = inflight - 1
  BY <1>0 DEF Receive, QueuesOK
<1>2. /\ Len(rsps) > 0 /\ Len(rsps') = Len(rsps) - 1 /\ Head(rsps) = rsps[1]
      /\ \A k \in 1..(Len(rsps) - 1) : rsps'[k] = rsps[k + 1]
  BY <1>1, Dequeue
<1>3. Held' = Held /\ UnderWay' = UnderWay - 1 /\ UnderWay > 0
  BY <1>0, <1>2 DEF Held, Busy, UnderWay
<1>4. ASSUME NEW k \in 1..(UnderWay - 1) PROVE Item(k)' = Item(k + 1)
  <2>1. CASE k < Len(rsps)
    BY <1>0, <1>2, <2>1 DEF Item
  <2>2. CASE k >= Len(rsps) /\ k < Len(rsps) + Held
    BY <1>0, <1>2, <1>3, <2>2 DEF Item
  <2>3. CASE k >= Len(rsps) + Held
    <3>1. Item(k)' = cmds[k - (Len(rsps) - 1) - Held] /\ Item(k + 1) = cmds[(k + 1) - Len(rsps) - Held]
      BY <1>0, <1>2, <1>3, <2>3 DEF Item
    <3>2. k - (Len(rsps) - 1) - Held = (k + 1) - Len(rsps) - Held
      BY <1>0
    <3> QED
      BY <3>1, <3>2
  <2> QED
    BY <1>0, <2>1, <2>2, <2>3
<1>5. Item(1) = Head(rsps)
  BY <1>0, <1>2 DEF Item
<1>6. /\ \A k \in 1..(UnderWay - 1) : Pipe'[k] = AsRun(Item(k)') /\ Pipe[k + 1] = AsRun(Item(k + 1))
      /\ Pipe[1] = AsRun(Item(1))
  BY <1>0, <1>3 DEF Pipe, AsRun
<1> QED
  BY <1>0, <1>1, <1>3, <1>4, <1>5, <1>6

-----------------------------------------------------------------------------
(* The pipeline's invariant holds.                                         *)

(* Nothing is walked, under way or waiting at the start.                   *)
LEMMA PInvInit == Init /\ mode = "pipelined" => PInv
<1> SUFFICES ASSUME Init, mode = "pipelined" PROVE PInv
  OBVIOUS
<1>1. TInv
  BY TInvInit
<1>2. ext = 0 /\ inflight = 0 /\ run = << >> /\ Waiting = {} /\ stream = {}
  BY DEF Init, Waiting
<1>3. Walked = {} /\ Flying = {} /\ Pending = {}
  BY <1>2 DEF Walked, Flying, Pending
<1>4. PipeOK /\ RunOK
  BY <1>2 DEF Init, PipeOK, RunOK, Straight
<1>5. CountOK /\ NoneLost /\ ReportOK
  BY <1>3 DEF Init, CountOK, NoneLost, ReportOK
<1> QED
  BY <1>1, <1>4, <1>5 DEF PInv

(* A step that leaves alone what is walked, under way and waiting.         *)
LEMMA SameView ==
    ASSUME PInv, Pipe' = Pipe, Waiting' = Waiting, failed => failed',
           UNCHANGED <<batch, disk, ext, inflight, checked, unread, reported, gaps>>
    PROVE  PipeOK' /\ CountOK' /\ NoneLost' /\ ReportOK'
<1>1. Walked' = Walked /\ Flying' = Flying /\ Pending' = Pending
  BY DEF Walked, Flying, Pending
<1>2. PipeOK'
  BY <1>1 DEF PInv, PipeOK
<1>3. CountOK'
  BY <1>1 DEF PInv, CountOK
<1>4. NoneLost'
  BY <1>1 DEF PInv, NoneLost
<1>5. ReportOK'
  BY DEF PInv, ReportOK, Sound
<1> QED
  BY <1>2, <1>3, <1>4, <1>5

(* The reader thread changes neither the pipeline nor what is counted.     *)
LEMMA ReaderInv ==
    ASSUME PInv, ReaderStep \/ ReaderPanics
    PROVE  PipeOK' /\ RunOK' /\ CountOK' /\ NoneLost' /\ ReportOK'
<1>1. Pipe' = Pipe /\ UNCHANGED <<mode, batch, disk, mainVars, outVars, gaps>>
  BY ReaderKeeps DEF PInv
<1>2. Waiting' = Waiting
  BY <1>1 DEF Waiting, mainVars
<1>3. RunOK'
  BY <1>1, <1>2 DEF PInv, RunOK, mainVars
<1>4. PipeOK' /\ CountOK' /\ NoneLost' /\ ReportOK'
  BY <1>1, <1>2, SameView DEF mainVars, outVars
<1> QED
  BY <1>3, <1>4

(* The next extent's sectors are at places no run came from so far; each   *)
(* has its checksum in the stream or in a leaf counted as a gap.           *)
LEMMA NextExtentInv ==
    ASSUME PInv, NextExtent
    PROVE  PipeOK' /\ RunOK' /\ CountOK' /\ NoneLost' /\ ReportOK'
<1>0. TypeOK /\ MainOK /\ PipeOK /\ RunOK /\ CountOK /\ NoneLost /\ ReportOK
  BY DEF PInv, TInv
<1>1. /\ ext \in Nat /\ ext' = ext + 1 /\ run' = << >> /\ Waiting = {}
      /\ ext' \in 1..Len(Layout) /\ stream = {}
  <2>1. ext \in 0..Len(Layout) /\ Len(Layout) \in Nat
    BY <1>0, ScrubAssumption DEF TypeOK
  <2>2. mainPc = "extent" /\ ext < Len(Layout) /\ ext' = ext + 1 /\ run' = << >>
    BY DEF NextExtent
  <2>3. Waiting = {} /\ stream = {}
    BY <1>0, <2>2 DEF RunOK, MainOK
  <2> QED
    BY <2>1, <2>2, <2>3
<1>2. UNCHANGED <<batch, disk, inflight, failed, checked, unread, reported>> /\ Pipe' = Pipe
  BY DEF NextExtent, chanVars, readVars, outVars, Pipe, UnderWay, Item, Held, Busy
<1>3. Walked' = Walked \cup Places(ext + 1) /\ Walked \cap Places(ext + 1) = {}
  <2>1. 1..(ext + 1) = (1..ext) \cup {ext + 1}
    BY <1>1
  <2>2. Walked' = UNION {Places(x) : x \in 1..(ext + 1)}
    BY <1>1 DEF Walked, Places, OfExtent
  <2>3. \A x \in 1..ext : Places(x) \cap Places(ext + 1) = {}
    BY <1>1, Apart
  <2> QED
    BY <2>1, <2>2, <2>3 DEF Walked
<1>4. Flying' = Flying /\ Flying \subseteq Walked /\ Pending = {}
  BY <1>0, <1>1, <1>2 DEF Flying, PipeOK, Pending
<1>5. /\ Waiting' = stream' /\ stream' \subseteq OfExtent(ext + 1)
      /\ Pending' = {PhysIn(Layout[ext + 1], s) : s \in stream'}
      /\ gaps \subseteq gaps'
      /\ \A s \in OfExtent(ext + 1) :
            s \in stream' \/ PhysIn(Layout[ext + 1], s) \in Covered(gaps')
  <2>1. Waiting' = stream'
    BY <1>1 DEF Waiting
  <2>2. CASE Layout[ext + 1].kind # "data"
    <3>1. stream' = {} /\ gaps' = gaps /\ OfExtent(ext + 1) = {}
      BY <1>1, <2>2 DEF NextExtent, OfExtent
    <3> QED
      BY <1>1, <2>1, <3>1 DEF Pending
  <2>3. CASE Layout[ext + 1].kind = "data"
    <3> DEFINE e == Layout[ext + 1]
    <3>1. PICK lost : /\ stream' = Sectors(e) \cap UNION (CsumLeaves \ lost)
                      /\ gaps' = gaps \cup lost
      BY <1>1, <2>3 DEF NextExtent, CsumRange
    <3>2. OfExtent(ext + 1) = Sectors(e) \cap UNION CsumLeaves /\ e \in DataExtents
      BY <1>1, <2>3 DEF OfExtent, DataExtents, Extents
    <3> HIDE DEF e
    <3>3. stream' \subseteq OfExtent(ext + 1)
      BY <3>1, <3>2
    <3>4. ASSUME NEW s \in OfExtent(ext + 1), s \notin stream'
          PROVE  PhysIn(e, s) \in Covered(gaps')
      <4>1. s \in Sectors(e) /\ s \in UNION gaps'
        BY <3>1, <3>2, <3>4
      <4> QED
        BY <3>2, <4>1 DEF Covered
    <3> QED
      BY <1>1, <2>1, <3>1, <3>3, <3>4 DEF Pending, e
  <2> QED
    BY <2>2, <2>3
<1>6. Pending' \subseteq Places(ext + 1)
  BY <1>5 DEF Places
<1>7. PipeOK'
  BY <1>0, <1>2, <1>3 DEF PipeOK
<1>8. RunOK'
  <2>1. mainPc' = "extent" => stream' = {}
    BY <1>1 DEF NextExtent
  <2>2. mainPc' \in {"extent", "stream"}
    BY DEF NextExtent
  <2> QED
    BY <1>1, <1>5, <2>1, <2>2 DEF RunOK, Straight
<1>9. CountOK'
  BY <1>0, <1>2, <1>3, <1>4, <1>6 DEF CountOK
<1>10. NoneLost'
  <2>1. Covered(gaps) \subseteq Covered(gaps')
    BY <1>5 DEF Covered
  <2>2. \A p \in Places(ext + 1) : p \in Covered(gaps') \cup Pending'
    BY <1>5 DEF Places
  <2> QED
    BY <1>0, <1>2, <1>3, <1>4, <2>1, <2>2 DEF NoneLost
<1>11. ReportOK'
  BY <1>0, <1>2 DEF ReportOK, Sound
<1> QED
  BY <1>7, <1>8, <1>9, <1>10, <1>11

(* The steps of the main thread between its other ones.                    *)
LEMMA QuietInv ==
    ASSUME PInv, EmitCsum \/ EndExtent \/ CloseCommands \/ Drained \/ JoinReader \/ UNCHANGED vars
    PROVE  PipeOK' /\ RunOK' /\ CountOK' /\ NoneLost' /\ ReportOK'
<1>0. TypeOK /\ RunOK
  BY DEF PInv, TInv
<1>1. /\ UNCHANGED <<batch, disk, ext, stream, run, inflight, checked, unread, reported, gaps>>
      /\ UNCHANGED <<cmds, rsps, rPc, job>>
  BY DEF EmitCsum, EndExtent, CloseCommands, Drained, JoinReader, vars, mainVars, chanVars,
         readVars, outVars
<1>f. failed => failed'
  BY DEF EmitCsum, EndExtent, CloseCommands, Drained, JoinReader, vars, mainVars
<1>2. Pipe' = Pipe /\ Waiting' = Waiting
  BY <1>1 DEF Pipe, Item, AsRun, UnderWay, Held, Busy, Waiting
<1>3. PipeOK' /\ CountOK' /\ NoneLost' /\ ReportOK'
  BY <1>1, <1>2, <1>f, SameView
<1>4. Straight(run)' /\ \A i \in 1..Len(run') : run'[i] \notin stream'
  BY <1>0, <1>1 DEF RunOK, Straight
<1>5. CASE EmitCsum
  <2>1. mainPc' = "push" /\ run # << >> => Min(stream) = run[Len(run)] + 1
    BY <1>5 DEF EmitCsum, Breaks
  <2>2. mainPc' \in {"push", "flush"}
    BY <1>5 DEF EmitCsum
  <2> QED
    BY <1>1, <1>3, <1>4, <2>1, <2>2 DEF RunOK
<1>6. CASE EndExtent
  <2>1. mainPc' \in {"extent", "flush"} /\ (mainPc' = "extent" => run = << >> /\ stream = {})
    BY <1>6 DEF EndExtent
  <2>2. mainPc' = "extent" => Waiting' = {}
    BY <1>2, <2>1 DEF Waiting
  <2> QED
    BY <1>3, <1>4, <2>1, <2>2 DEF RunOK
<1>7. CASE CloseCommands
  <2>1. mainPc' = "drain" /\ failed' = failed
    BY <1>7 DEF CloseCommands
  <2>2. ~failed => ext = Len(Layout) /\ Waiting = {}
    BY <1>0, <1>7 DEF CloseCommands, RunOK
  <2> QED
    BY <1>1, <1>2, <1>3, <1>4, <2>1, <2>2 DEF RunOK
<1>8. CASE Drained
  <2>1. mainPc = "drain" /\ mainPc' = "join" /\ inflight = 0 /\ failed' = failed
    BY <1>8 DEF Drained
  <2> QED
    BY <1>0, <1>1, <1>2, <1>3, <1>4, <2>1 DEF RunOK
<1>9. CASE JoinReader
  <2>1. mainPc = "join" /\ mainPc' \in {"ok", "err"}
    BY <1>9 DEF JoinReader
  <2> QED
    BY <1>0, <1>1, <1>2, <1>3, <1>4, <1>f, <2>1 DEF RunOK
<1>10. CASE UNCHANGED vars
  BY <1>0, <1>2, <1>3, <1>4, <1>10 DEF RunOK, vars, mainVars
<1> QED
  BY <1>5, <1>6, <1>7, <1>8, <1>9, <1>10

(* A checksum that is pushed continues the run.                            *)
LEMMA PushInv ==
    ASSUME PInv, PushCsum
    PROVE  PipeOK' /\ RunOK' /\ CountOK' /\ NoneLost' /\ ReportOK'
<1>0. TypeOK /\ MainOK /\ RunOK
  BY DEF PInv, TInv
<1>1. /\ Waiting' = Waiting /\ Min(stream) \in stream
      /\ Len(run') = Len(run) + 1 /\ run'[Len(run) + 1] = Min(stream)
      /\ \A k \in 1..Len(run) : run'[k] = run[k]
  BY <1>0, PushKeeps
<1>2. /\ UNCHANGED <<batch, disk, ext, inflight, failed, checked, unread, reported, gaps>>
      /\ UNCHANGED <<cmds, rsps, rPc, job>>
      /\ mainPc = "push" /\ mainPc' = "stream" /\ stream' = stream \ {Min(stream)}
  BY DEF PushCsum, chanVars, readVars, outVars
<1>3. Pipe' = Pipe
  BY <1>2 DEF Pipe, Item, AsRun, UnderWay, Held, Busy
<1>4. PipeOK' /\ CountOK' /\ NoneLost' /\ ReportOK'
  BY <1>1, <1>2, <1>3, SameView
<1>5. run \in Seq(Nat) /\ Len(run) \in Nat /\ stream \in SUBSET Nat
  BY <1>0, WaitingType
<1>6. Straight(run')
  <2>1. CASE run = << >>
    <3>1. Len(run) = 0
      BY <2>1
    <3>2. Len(run) + 1 = 1
      BY <3>1
    <3>3. Len(run') = 1 /\ run'[1] = Min(stream) /\ Min(stream) \in Nat
      BY <1>1, <1>5, <3>2
    <3> QED
      BY <3>3 DEF Straight
  <2>2. CASE run # << >>
    <3>1. 1 \in 1..Len(run) /\ Len(run) \in 1..Len(run) /\ run[1] \in Nat
      BY <1>5, <2>2
    <3>2. run'[Len(run) + 1] = run[Len(run)] + 1
      BY <1>0, <1>1, <1>2, <2>2 DEF RunOK
    <3>3. run[Len(run)] = run[1] + (Len(run) - 1)
      BY <1>0, <3>1 DEF RunOK, Straight
    <3>4. \A i \in 1..Len(run) : run'[i] = run'[1] + (i - 1)
      BY <1>0, <1>1, <3>1 DEF RunOK, Straight
    <3>5. run'[Len(run) + 1] = run'[1] + ((Len(run) + 1) - 1)
      BY <1>1, <1>5, <3>1, <3>2, <3>3
    <3> QED
      BY <1>1, <1>5, <3>4, <3>5 DEF Straight
  <2> QED
    BY <2>1, <2>2
<1>7. \A i \in 1..Len(run') : run'[i] \notin stream'
  BY <1>0, <1>1, <1>2, <1>5 DEF RunOK
<1>8. RunOK'
  BY <1>2, <1>6, <1>7 DEF RunOK
<1> QED
  BY <1>4, <1>8

(* The run that is sent is under way from then on and no longer waits.     *)
LEMMA SendInv ==
    ASSUME PInv, SendRun
    PROVE  PipeOK' /\ RunOK' /\ CountOK' /\ NoneLost' /\ ReportOK'
<1>0. TypeOK /\ MainOK /\ QueuesOK /\ PipeOK /\ RunOK /\ CountOK /\ NoneLost /\ ReportOK
  BY DEF PInv, TInv
<1>1. /\ UNCHANGED <<batch, disk, ext, stream, checked, unread, reported, gaps>>
      /\ run' = << >> /\ mainPc = "flush"
  BY DEF PInv, SendRun, outVars
<1>2. Waiting' = stream /\ Waiting = stream \cup {run[i] : i \in 1..Len(run)}
  BY <1>1 DEF Waiting
<1>3. Pending' = {PhysIn(Layout[ext], s) : s \in stream} /\ Walked' = Walked
  BY <1>1, <1>2 DEF Pending, Walked
<1>4. Pending' \subseteq Pending
  BY <1>2, <1>3 DEF Pending
<1>5. Straight(run)' /\ \A i \in 1..Len(run') : run'[i] \notin stream'
  BY <1>1 DEF Straight
<1>6. ReportOK'
  BY <1>0, <1>1 DEF ReportOK, Sound
<1>7. CASE ReaderGone
  <2>1. failed' = TRUE /\ mainPc' = "close" /\ UNCHANGED <<cmds, inflight, rsps, rPc, job>>
    BY <1>7 DEF SendRun, readVars
  <2>2. Pipe' = Pipe
    BY <2>1 DEF Pipe, Item, AsRun, UnderWay, Held, Busy
  <2>3. Flying' = Flying
    BY <2>1, <2>2 DEF Flying
  <2>4. PipeOK'
    BY <1>0, <1>3, <2>1, <2>2 DEF PipeOK
  <2>5. RunOK'
    BY <1>1, <1>5, <2>1 DEF RunOK
  <2>6. CountOK' /\ NoneLost'
    BY <1>0, <1>1, <1>3, <1>4, <2>1, <2>3 DEF CountOK, NoneLost
  <2> QED
    BY <1>6, <2>4, <2>5, <2>6
<1>8. CASE ~ReaderGone
  <2> DEFINE c == ReadCmd(ext, run)
  <2>1. /\ inflight' = inflight + 1 /\ inflight \in Nat
        /\ \A k \in 1..inflight : Pipe'[k] = Pipe[k]
        /\ Pipe'[inflight + 1] = c
    BY <1>8, SendGrows DEF PInv
  <2>2. /\ c.ext = ext /\ c.entries = run /\ c.phys = PhysIn(Layout[ext], run[1])
        /\ failed' = failed /\ mainPc' \in {"recv", AfterFlush}
    BY <1>8 DEF SendRun, ReadCmd, PInv
  <2> HIDE DEF c
  <2>3. \A s \in Waiting : s \in OfExtent(ext)
    BY <1>0 DEF QueuesOK
  <2>4. /\ Cells(c) = {PhysIn(Layout[ext], run[i]) : i \in 1..Len(run)}
        /\ Pending = Pending' \cup Cells(c)
    <3>1. Cells(c) = {PhysIn(Layout[ext], run[i]) : i \in 1..Len(run)}
      BY <2>2 DEF Cells
    <3>2. Pending = {PhysIn(Layout[ext], s) : s \in stream \cup {run[i] : i \in 1..Len(run)}}
      BY <1>2 DEF Pending
    <3>3. Pending \subseteq Pending' \cup Cells(c)
      BY <1>3, <3>1, <3>2
    <3>4. Cells(c) \subseteq Pending
      BY <3>1, <3>2
    <3> QED
      BY <1>4, <3>1, <3>3, <3>4
  <2>5. Pending' \cap Cells(c) = {}
    <3> SUFFICES ASSUME NEW s \in stream, NEW i \in 1..Len(run),
                        PhysIn(Layout[ext], s) = PhysIn(Layout[ext], run[i])
                 PROVE  FALSE
      BY <1>3, <2>4
    <3>1. s # run[i] /\ s \in OfExtent(ext) /\ run[i] \in OfExtent(ext)
      BY <1>0, <1>2, <2>3 DEF RunOK
    <3> QED
      BY <3>1, Distinct
  <2>6. Cells(c) \subseteq Walked
    <3>1. Cells(c) \subseteq Places(ext)
      BY <1>2, <2>3, <2>4 DEF Places
    <3>2. \A p \in Cells(c) : ext \in 1..ext
      <4> SUFFICES ASSUME NEW p \in Cells(c) PROVE ext \in 1..ext
        OBVIOUS
      <4>1. PICK s \in OfExtent(ext) : p = PhysIn(Layout[ext], s)
        BY <3>1 DEF Places
      <4>2. ext \in 1..Len(Layout)
        BY <4>1, ExtentSectors
      <4> QED
        BY <4>2
    <3> QED
      BY <3>1, <3>2 DEF Walked
  <2>7. 1..inflight' = (1..inflight) \cup {inflight + 1}
    BY <2>1
  <2>8. Flying' = Flying \cup Cells(c)
    <3>1. Flying' = UNION {Cells(Pipe'[k]) : k \in 1..inflight'}
      BY DEF Flying, Cells
    <3> QED
      BY <2>1, <2>7, <3>1 DEF Flying
  <2>9. Flying \cap Cells(c) = {}
    BY <1>0, <2>4 DEF CountOK
  <2>10. PipeOK'
    <3>1. InPlace(c)
      BY <1>0, <2>2 DEF InPlace, RunOK
    <3>2. \A k \in 1..inflight' : InPlace(Pipe'[k]) /\ Cells(Pipe'[k]) \subseteq Walked
      BY <1>0, <2>1, <2>6, <2>7, <3>1 DEF PipeOK
    <3>3. \A k \in 1..inflight : Cells(Pipe'[k]) = Cells(Pipe[k]) /\ Cells(Pipe[k]) \cap Cells(c) = {}
      BY <2>1, <2>9 DEF Flying
    <3>4. ASSUME NEW k \in 1..inflight', NEW l \in 1..inflight', k # l
          PROVE  Cells(Pipe'[k]) \cap Cells(Pipe'[l]) = {}
      <4>1. CASE k \in 1..inflight /\ l \in 1..inflight
        BY <1>0, <3>3, <3>4, <4>1 DEF PipeOK
      <4>2. CASE k = inflight + 1
        <5>1. l \in 1..inflight
          BY <2>7, <3>4, <4>2
        <5> QED
          BY <2>1, <3>3, <4>2, <5>1
      <4>3. CASE l = inflight + 1
        <5>1. k \in 1..inflight
          BY <2>7, <3>4, <4>3
        <5> QED
          BY <2>1, <3>3, <4>3, <5>1
      <4> QED
        BY <2>7, <4>1, <4>2, <4>3
    <3>5. /\ \A k : (InPlace(Pipe[k]))' = InPlace(Pipe'[k])
          /\ \A k : (Cells(Pipe[k]))' = Cells(Pipe'[k])
      BY DEF InPlace, Cells, Straight
    <3> QED
      BY <1>3, <3>2, <3>4, <3>5 DEF PipeOK
  <2>11. RunOK'
    <3>1. (AfterFlush = "extent" /\ stream = {}) \/ AfterFlush = "push"
      BY DEF AfterFlush
    <3> QED
      BY <1>1, <1>2, <1>5, <2>2, <3>1 DEF RunOK
  <2>12. CountOK'
    BY <1>0, <1>1, <1>3, <1>4, <2>4, <2>5, <2>8 DEF CountOK
  <2>13. NoneLost'
    BY <1>0, <1>1, <1>3, <2>2, <2>4, <2>8 DEF NoneLost
  <2> QED
    BY <1>6, <2>10, <2>11, <2>12, <2>13
<1> QED
  BY <1>7, <1>8

(* An answer is processed: its sectors are counted, and reported if wrong, *)
(* and are under way no more.                                              *)
LEMMA ReceiveInv ==
    ASSUME PInv, Receive,
           UNCHANGED <<mode, batch, disk, ext, stream, run, cmds, closed, readVars, gaps>>
    PROVE  PipeOK' /\ CountOK' /\ NoneLost' /\ ReportOK'
<1> DEFINE r == Head(rsps)
<1>0. /\ TInv /\ TypeOK /\ QueuesOK
      /\ PipeOK /\ CountOK /\ NoneLost /\ ReportOK
  BY DEF PInv, TInv
<1>1. r \in Jobs /\ Belongs(r) /\ CutUp(r) /\ r.pieces = {} /\ Process(r)
  BY <1>0, Answer DEF Receive
<1>2. /\ inflight' = inflight - 1 /\ inflight \in Nat \ {0}
      /\ \A k \in 1..(inflight - 1) : Pipe'[k] = Pipe[k + 1]
      /\ Pipe[1] = AsRun(r)
  BY <1>0, ReceiveShifts DEF readVars
<1> HIDE DEF r
<1>3. Walked' = Walked /\ Pending' = Pending
  BY DEF Walked, Pending, Waiting
<1>4. Cells(Pipe[1]) = Cells(r) /\ (InPlace(Pipe[1]) <=> InPlace(r))
  BY <1>2 DEF Cells, InPlace, AsRun
<1>5. 1 \in 1..inflight /\ \A k \in 1..inflight' : k + 1 \in 1..inflight /\ k + 1 # 1
  BY <1>2
<1>6. InPlace(r) /\ Cells(r) \subseteq Walked /\ Cells(r) \subseteq Targets /\ Cells(r) \subseteq Flying
  BY <1>0, <1>1, <1>4, <1>5, CellsOfRun DEF PipeOK, Flying
<1>7. /\ Flying' = UNION {Cells(Pipe[k + 1]) : k \in 1..inflight'}
      /\ Flying = Flying' \cup Cells(r)
      /\ Flying' \cap Cells(r) = {}
  <2>1. Flying' = UNION {Cells(Pipe'[k]) : k \in 1..inflight'}
    BY DEF Flying, Cells
  <2>2. Flying' = UNION {Cells(Pipe[k + 1]) : k \in 1..inflight'}
    BY <1>2, <2>1
  <2>3. \A k \in 1..inflight : k = 1 \/ (k - 1 \in 1..inflight' /\ (k - 1) + 1 = k)
    BY <1>2
  <2>4. Flying \subseteq Flying' \cup Cells(r)
    <3> SUFFICES ASSUME NEW k \in 1..inflight PROVE Cells(Pipe[k]) \subseteq Flying' \cup Cells(r)
      BY DEF Flying
    <3>1. CASE k = 1
      BY <1>4, <3>1
    <3>2. CASE k # 1
      BY <2>2, <2>3, <3>2
    <3> QED
      BY <3>1, <3>2
  <2>5. Flying' \subseteq Flying
    BY <1>5, <2>2 DEF Flying
  <2>6. Flying' \cap Cells(r) = {}
    BY <1>0, <1>4, <1>5, <2>2 DEF PipeOK
  <2> QED
    BY <1>6, <2>2, <2>4, <2>5, <2>6
<1>8. /\ \A p \in Targets : checked'[p] = checked[p] + (IF p \in Cells(r) THEN 1 ELSE 0)
      /\ \A i \in 1..Len(r.entries) :
            Matches(r, i) <=> Sound(PhysIn(Layout[r.ext], r.entries[i]))
  BY <1>0, <1>1, <1>6, ProcessCounts
<1>9. \A p \in Targets : checked[p] \in Nat
  BY <1>0 DEF TypeOK
<1>10. \A p \in Cells(r) : p \in Targets /\ checked[p] = 0 /\ checked'[p] = 1
  BY <1>0, <1>6, <1>8, <1>9 DEF CountOK
<1>11. \A p \in Targets : p \notin Cells(r) => checked'[p] = checked[p]
  BY <1>8, <1>9
<1>12. PipeOK'
  <2>1. \A k \in 1..inflight' : Pipe'[k] = Pipe[k + 1]
    BY <1>2
  <2>2. \A k \in 1..inflight' : InPlace(Pipe'[k]) /\ Cells(Pipe'[k]) \subseteq Walked
    BY <1>0, <1>5, <2>1 DEF PipeOK
  <2>3. ASSUME NEW k \in 1..inflight', NEW l \in 1..inflight', k # l
        PROVE  Cells(Pipe'[k]) \cap Cells(Pipe'[l]) = {}
    <3>1. k + 1 \in 1..inflight /\ l + 1 \in 1..inflight /\ k + 1 # l + 1
      BY <1>5, <2>3
    <3> QED
      BY <1>0, <2>1, <3>1 DEF PipeOK
  <2>4. /\ \A k : (InPlace(Pipe[k]))' = InPlace(Pipe'[k])
        /\ \A k : (Cells(Pipe[k]))' = Cells(Pipe'[k])
    BY DEF InPlace, Cells, Straight
  <2> QED
    BY <1>3, <2>2, <2>3, <2>4 DEF PipeOK
<1>13. CountOK'
  <2>1. \A p \in Targets : checked'[p] <= 1
    BY <1>0, <1>10, <1>11 DEF CountOK
  <2>2. ASSUME NEW p \in Targets, checked'[p] > 0
        PROVE  p \in Walked /\ p \notin Flying' /\ p \notin Pending
    <3>1. CASE p \in Cells(r)
      BY <1>0, <1>6, <1>7, <3>1 DEF CountOK
    <3>2. CASE p \notin Cells(r)
      BY <1>0, <1>7, <1>11, <2>2, <3>2 DEF CountOK
    <3> QED
      BY <3>1, <3>2
  <2>3. Flying' \cap Pending = {}
    BY <1>0, <1>7 DEF CountOK
  <2> QED
    BY <1>3, <2>1, <2>2, <2>3 DEF CountOK
<1>14. NoneLost'
  <2> SUFFICES ASSUME ~failed', NEW p \in Walked
               PROVE  checked'[p] = 1 \/ p \in Covered(gaps) \cup Flying' \cup Pending
    <3>1. Covered(gaps)' = Covered(gaps)
      BY DEF Covered
    <3> QED
      BY <1>3, <3>1 DEF NoneLost
  <2>1. failed' = failed
    BY DEF Receive
  <2>2. p \in Targets
    BY AllPlaces DEF Walked
  <2>3. CASE p \in Cells(r)
    BY <1>10, <2>3
  <2>4. CASE p \notin Cells(r)
    BY <1>0, <1>7, <1>11, <2>1, <2>2, <2>4 DEF NoneLost
  <2> QED
    BY <2>3, <2>4
<1>15. ReportOK'
  <2> DEFINE at(I)  == {PhysIn(Layout[r.ext], r.entries[i]) : i \in I}
             wrong  == at({i \in r.good : ~Matches(r, i)})
  <2>1. /\ unread' = unread \cup at(r.bad)
        /\ batch => reported' = reported \cup wrong \cup at(r.bad)
        /\ ~batch => \E conf \in SUBSET wrong : reported' = reported \cup conf
    BY <1>1 DEF Process
  <2>2. r.good \cup r.bad = 1..Len(r.entries)
    BY <1>1 DEF CutUp, Left
  <2>3. \A p \in wrong : ~Sound(p)
    BY <1>8, <2>2
  <2>4. \A p \in Cells(r) : ~Sound(p) => p \in wrong \/ p \in at(r.bad)
    BY <1>8, <2>2 DEF Cells
  <2>5. \A p : Sound(p)' = Sound(p)
    BY DEF Sound
  <2> HIDE DEF at, wrong
  <2>6. reported' \subseteq reported \cup wrong \cup at(r.bad)
    BY <2>1
  <2>7. \A p \in reported' : ~Sound(p) \/ p \in unread'
    BY <1>0, <2>1, <2>3, <2>6 DEF ReportOK
  <2>8. ASSUME batch
        PROVE  /\ unread' \subseteq reported'
               /\ \A p \in Targets : checked'[p] > 0 /\ ~Sound(p) => p \in reported'
    <3>1. unread' \subseteq reported'
      BY <1>0, <2>1, <2>8 DEF ReportOK
    <3>2. ASSUME NEW p \in Targets, checked'[p] > 0, ~Sound(p)
          PROVE  p \in reported'
      <4>1. CASE p \in Cells(r)
        BY <2>1, <2>4, <2>8, <3>2, <4>1
      <4>2. CASE p \notin Cells(r)
        BY <1>0, <1>11, <2>1, <2>8, <3>2, <4>2 DEF ReportOK
      <4> QED
        BY <4>1, <4>2
    <3> QED
      BY <3>1, <3>2
  <2> QED
    BY <2>5, <2>7, <2>8 DEF ReportOK
<1> QED
  BY <1>12, <1>13, <1>14, <1>15

(* Every step of either thread preserves the pipeline's invariant.         *)
LEMMA PipelineStep == PInv /\ [Next]_vars => PInv'
<1> SUFFICES ASSUME PInv, [Next]_vars PROVE PInv'
  OBVIOUS
<1>0. TInv /\ MainOK /\ TypeOK /\ RunOK
  BY DEF PInv, TInv
<1>1. TInv'
  BY <1>0, TypeStep, QueuesStep, MainOKStep, ToldStep DEF TInv
<1>2. mode' = "pipelined"
  BY DEF PInv, Next, MainStep, ReaderStep, NextExtent, EmitCsum, PushCsum, EndExtent, SendRun,
         RecvResponse, CloseCommands, Drain, Drained, JoinReader, ReaderRecv, ReaderEnd, ReadOk,
         ReadFails, GiveUp, ReaderSend, ReaderPanics, vars
<1> SUFFICES PipeOK' /\ RunOK' /\ CountOK' /\ NoneLost' /\ ReportOK'
  BY <1>1, <1>2 DEF PInv
<1>3. ASSUME ReceiveError, UNCHANGED <<mode, batch, disk, ext, stream, run, cmds, closed, readVars, gaps>>
      PROVE  /\ PipeOK' /\ CountOK' /\ NoneLost' /\ ReportOK'
             /\ failed' = TRUE /\ inflight' = inflight /\ Waiting' = Waiting
  <2>1. /\ failed' = TRUE
        /\ UNCHANGED <<batch, disk, ext, stream, run, inflight, checked, unread, reported, gaps>>
        /\ UNCHANGED <<cmds, rsps, rPc, job>>
    BY <1>3 DEF ReceiveError, readVars, outVars
  <2>2. Pipe' = Pipe /\ Waiting' = Waiting
    BY <2>1 DEF Pipe, Item, AsRun, UnderWay, Held, Busy, Waiting
  <2> QED
    BY <2>1, <2>2, SameView
<1>4. ASSUME UNCHANGED <<stream, run>>
      PROVE  Straight(run)' /\ (\A i \in 1..Len(run') : run'[i] \notin stream') /\ Waiting' = Waiting
  BY <1>0, <1>4 DEF RunOK, Straight, Waiting
<1>5. CASE RecvResponse
  <2>1. /\ mainPc = "recv" /\ run = << >>
        /\ UNCHANGED <<mode, batch, disk, ext, stream, run, cmds, closed, readVars, gaps>>
    BY <1>0, <1>5 DEF RecvResponse, RunOK
  <2>2. CASE Receive /\ mainPc' = AfterFlush
    <3>1. PipeOK' /\ CountOK' /\ NoneLost' /\ ReportOK'
      BY <2>1, <2>2, ReceiveInv
    <3>2. (AfterFlush = "extent" /\ stream = {}) \/ AfterFlush = "push"
      BY DEF AfterFlush
    <3>3. AfterFlush = "extent" => Waiting = {}
      BY <2>1, <3>2 DEF Waiting
    <3>4. RunOK'
      BY <1>4, <2>1, <2>2, <3>2, <3>3 DEF RunOK
    <3> QED
      BY <3>1, <3>4
  <2>3. CASE ReceiveError /\ mainPc' = "close"
    <3>1. /\ PipeOK' /\ CountOK' /\ NoneLost' /\ ReportOK'
          /\ failed' = TRUE
      BY <1>3, <2>1, <2>3
    <3>2. RunOK'
      BY <1>4, <2>1, <2>3, <3>1 DEF RunOK
    <3> QED
      BY <3>1, <3>2
  <2> QED
    BY <1>5, <2>2, <2>3 DEF RecvResponse
<1>6. CASE Drain
  <2>1. /\ mainPc = "drain" /\ inflight > 0
        /\ UNCHANGED <<mode, batch, disk, ext, stream, run, cmds, closed, readVars, gaps>>
    BY <1>6 DEF Drain
  <2>2. CASE Receive /\ mainPc' = mainPc
    <3>1. PipeOK' /\ CountOK' /\ NoneLost' /\ ReportOK'
      BY <2>1, <2>2, ReceiveInv
    <3>2. failed' = failed
      BY <2>2 DEF Receive
    <3>3. RunOK'
      BY <1>0, <1>4, <2>1, <2>2, <3>2 DEF RunOK
    <3> QED
      BY <3>1, <3>3
  <2>3. CASE ReceiveError /\ mainPc' = "join"
    <3>1. /\ PipeOK' /\ CountOK' /\ NoneLost' /\ ReportOK'
          /\ failed' = TRUE
      BY <1>3, <2>1, <2>3
    <3>2. RunOK'
      BY <1>4, <2>1, <2>3, <3>1 DEF RunOK
    <3> QED
      BY <3>1, <3>2
  <2> QED
    BY <1>6, <2>2, <2>3 DEF Drain
<1>7. CASE NextExtent
  BY <1>7, NextExtentInv
<1>8. CASE PushCsum
  BY <1>8, PushInv
<1>9. CASE SendRun
  BY <1>9, SendInv
<1>10. CASE EmitCsum \/ EndExtent \/ CloseCommands \/ Drained \/ JoinReader \/ UNCHANGED vars
  BY <1>10, QuietInv
<1>11. CASE ReaderStep \/ ReaderPanics
  BY <1>11, ReaderInv
<1> QED
  BY <1>5, <1>6, <1>7, <1>8, <1>9, <1>10, <1>11 DEF Next, MainStep

(* With a reader thread the pipeline's invariant always holds.             *)
THEOREM PipelineInvariance == Spec /\ mode = "pipelined" => []PInv
  BY PInvInit, PipelineStep, PTL DEF Spec

(* With a reader thread no sector is counted twice, however runs are cut   *)
(* and pieces split, for any number of runs under way.                     *)
THEOREM NoneTwice == Spec /\ mode = "pipelined" => []CheckedOnce
<1>1. PInv => CheckedOnce
  BY DEF PInv, CountOK, CheckedOnce
<1> QED
  BY <1>1, PipelineInvariance, PTL

(* A pipelined scrub that returns Ok has checked every sector that has a   *)
(* checksum, but those it counted as gaps: also if its reader dies.        *)
THEOREM Complete == Spec /\ mode = "pipelined" => []OkIsComplete
<1>1. ASSUME PInv, mainPc = "ok", NEW p \in Targets
      PROVE  checked[p] = 1 \/ p \in Covered(gaps)
  <2>1. ~failed /\ ext = Len(Layout) /\ Waiting = {} /\ inflight = 0
    BY <1>1 DEF PInv, TInv, MainOK, RunOK
  <2>2. p \in Walked
    BY <2>1, AllPlaces DEF Walked
  <2>3. Flying = {} /\ Pending = {}
    BY <2>1 DEF Flying, Pending
  <2> QED
    BY <1>1, <2>1, <2>2, <2>3 DEF PInv, NoneLost
<1>2. PInv => OkIsComplete
  BY <1>1 DEF OkIsComplete
<1> QED
  BY <1>2, PipelineInvariance, PTL

(* What a pipelined scrub hands to recovery is wrong, and in batch mode it *)
(* is all that is wrong: each sector is compared with its own checksum.    *)
THEOREM ReportsAreExact == Spec /\ mode = "pipelined" => []ReportsExact
<1>1. PInv => ReportsExact
  BY DEF PInv, ReportOK, ReportsExact
<1> QED
  BY <1>1, PipelineInvariance, PTL

=============================================================================
