----------------------------- MODULE ParityEngine -----------------------------
(***************************************************************************)
(* Rebuilding one block from the parity of its stripe: gather_stripe       *)
(* (array/stripe.rs) reads the other disks and the parity disks one after  *)
(* the other, and recover_block (recovery/engine.rs) tries P alone, Q      *)
(* alone, and both for two unknown disks with every other disk as the      *)
(* partner; the checksum decides. Around it, the array: sectors rot,       *)
(* parity is recomputed from rotten data, and other disks are written.     *)
(*                                                                         *)
(* The engine works byte by byte, so a block is one element of the field.  *)
(***************************************************************************)
EXTENDS Integers, FiniteSets

CONSTANTS F,                 \* the field's elements
          Plus(_, _), Times(_, _), Inv(_),
          Exp(_),            \* powers of the generator
          Sum(_),            \* the sum of the values of a function
          Slots,             \* the data disks, numbered from 1
          Stripes,           \* the stripes that recovery may start from (TLC)
          Diffs,             \* by what a write changes a block (TLC)
          MaxRot             \* bound on blocks that rot (TLC)

(* The field: of characteristic 2, with a generator whose powers tell the  *)
(* slots apart; Sum takes one value after the other.                       *)
ASSUME FieldAxioms ==
    /\ {0, 1} \subseteq F /\ F \subseteq Nat
    /\ \A a \in F : Plus(a, a) = 0 /\ Plus(a, 0) = a /\ Times(1, a) = a /\ Times(0, a) = 0
    /\ \A a \in F : a # 0 => Inv(a) \in F /\ Times(Inv(a), a) = 1
    /\ \A a \in F : \A b \in F : /\ Plus(a, b) \in F /\ Plus(a, b) = Plus(b, a)
                                 /\ Times(a, b) \in F /\ Times(a, b) = Times(b, a)
    /\ \A a \in F : \A b \in F : \A c \in F :
          /\ Plus(Plus(a, b), c) = Plus(a, Plus(b, c))
          /\ Times(Times(a, b), c) = Times(a, Times(b, c))
          /\ Times(a, Plus(b, c)) = Plus(Times(a, b), Times(a, c))

ASSUME SlotsAssumption ==
    /\ Slots # {} /\ Slots \subseteq Nat \ {0} /\ IsFiniteSet(Slots)
    /\ \A s \in Slots : /\ Exp(s - 1) \in F /\ Exp(1 - s) \in F
                        /\ Times(Exp(1 - s), Exp(s - 1)) = 1
    /\ \A s \in Slots : \A t \in Slots :
          s < t => /\ Exp(t - s) \in F
                   /\ Exp(s - 1) # Exp(t - 1) /\ Exp(t - 1) = Times(Exp(t - s), Exp(s - 1))

ASSUME SumAssumption ==
    \A S \in SUBSET Slots : \A f \in [S -> F] :
        /\ Sum(f) \in F
        /\ \A s \in S : Sum(f) = Plus(f[s], Sum([t \in S \ {s} |-> f[t]]))

ASSUME BoundsAssumption ==
    Stripes \subseteq [Slots -> F] /\ Diffs \subseteq F \ {0} /\ MaxRot \in Nat

VARIABLES
    truth,      \* what each data disk should hold at this offset
    before,     \* what it should have held when the gathering began
    data,       \* what it holds
    p, q,       \* what the parity disks hold
    hasP, hasQ, \* the array has them
    target, unreadable,
    rotten,     \* how many blocks have rotted
    write,      \* a write of another disk: what it changes, where it has to go still
    pc, others, pBlock, qBlock, pReason, qReason, tried, result

arrayVars  == <<truth, before, data, p, q, rotten, write>>
configVars == <<hasP, hasQ, target, unreadable>>
inputVars  == <<others, pBlock, qBlock>>
reasonVars == <<pReason, qReason, tried>>
vars == <<arrayVars, configVars, pc, inputVars, reasonVars, result>>

Absent  == -1
Present(x) == x # Absent

(* P and Q of the blocks of a stripe (array/parity.rs).                    *)
Without(d, S)  == [s \in DOMAIN d \ S |-> d[s]]
Weighted(d)    == [s \in DOMAIN d |-> Times(Exp(s - 1), d[s])]
ComputeP(d)    == Sum(d)
ComputeQ(d)    == Sum(Weighted(d))

-----------------------------------------------------------------------------
(* The array.                                                              *)

(* A block of a data or a parity disk changes by itself.                   *)
Rot ==
    /\ pc = "idle"
    /\ rotten < MaxRot
    /\ rotten' = rotten + 1
    /\ \E v \in F :
         \/ /\ \E s \in Slots : v # data[s] /\ data' = [data EXCEPT ![s] = v]
            /\ UNCHANGED <<p, q>>
         \/ v # p /\ p' = v /\ UNCHANGED <<data, q>>
         \/ v # q /\ q' = v /\ UNCHANGED <<data, p>>
    /\ UNCHANGED <<truth, before, write, configVars, pc, inputVars, reasonVars, result>>

(* A correcting parity check recomputes P and Q from what the disks hold.  *)
Resync ==
    /\ pc = "idle"
    /\ p' = ComputeP(data)
    /\ q' = ComputeQ(data)
    /\ UNCHANGED <<truth, before, data, rotten, write, configVars, pc, inputVars, reasonVars,
                   result>>

(* Another disk's block is written through the array while the stripe is   *)
(* gathered. The array driver sends the change to the data disk and to     *)
(* both parity disks, and they take it in any order.                       *)
NoWrite == [slot |-> 1, diff |-> 0, left |-> {}]

WriteBegin ==
    /\ pc \in {"gather", "gatherQ"}
    /\ write = NoWrite
    /\ \E s \in Slots \ {target} : \E d \in Diffs :
         /\ truth' = [truth EXCEPT ![s] = Plus(truth[s], d)]
         /\ write' = [slot |-> s, diff |-> d, left |-> {"data", "p", "q"}]
    /\ UNCHANGED <<before, data, p, q, rotten, configVars, pc, inputVars, reasonVars, result>>

WriteReaches(disk) ==
    /\ pc \in {"gather", "gatherQ"}
    /\ disk \in write.left
    /\ write' = [write EXCEPT !.left = @ \ {disk}]
    /\ data' = IF disk = "data" THEN [data EXCEPT ![write.slot] = truth[write.slot]] ELSE data
    /\ p' = IF disk = "p" THEN Plus(p, write.diff) ELSE p
    /\ q' = IF disk = "q" THEN Plus(q, Times(Exp(write.slot - 1), write.diff)) ELSE q
    /\ UNCHANGED <<truth, before, rotten, configVars, pc, inputVars, reasonVars, result>>

-----------------------------------------------------------------------------
(* gather_stripe.                                                          *)

Begin ==
    /\ pc = "idle"
    /\ pc' = "gather"
    /\ UNCHANGED <<arrayVars, configVars, inputVars, reasonVars, result>>

(* The other data disks in order of their slots, then P, then Q.           *)
Unread == Slots \ ({target} \cup DOMAIN others)

(* Mutant: the failing disk's own block is gathered with the others.       *)
GatherDataOwnToo ==
    /\ pc = "gather"
    /\ \E s \in Slots \ DOMAIN others :
         /\ \A t \in Slots \ DOMAIN others : s <= t
         /\ others' = [t \in DOMAIN others \cup {s} |-> IF t = s THEN data[s] ELSE others[t]]
    /\ UNCHANGED <<arrayVars, configVars, pc, pBlock, qBlock, reasonVars, result>>

GatherData ==
    /\ pc = "gather"
    /\ \E s \in Unread :
         /\ \A t \in Unread : s <= t
         /\ others' = [t \in DOMAIN others \cup {s} |-> IF t = s THEN data[s] ELSE others[t]]
    /\ UNCHANGED <<arrayVars, configVars, pc, pBlock, qBlock, reasonVars, result>>

GatherP ==
    /\ pc = "gather"
    /\ Unread = {}
    /\ pBlock' = IF hasP THEN p ELSE Absent
    /\ pc' = "gatherQ"
    /\ UNCHANGED <<arrayVars, configVars, others, qBlock, reasonVars, result>>

GatherQ ==
    /\ pc = "gatherQ"
    /\ qBlock' = IF hasQ THEN q ELSE Absent
    /\ pc' = "start"
    /\ UNCHANGED <<arrayVars, configVars, others, pBlock, reasonVars, result>>

(* Any disk that cannot be read ends the attempt.                          *)
GatherFails ==
    /\ pc \in {"gather", "gatherQ"}
    /\ result' = "gather_failed"
    /\ pc' = "done"
    /\ UNCHANGED <<arrayVars, configVars, inputVars, reasonVars>>

-----------------------------------------------------------------------------
(* recover_block.                                                          *)

(* The bytes of the failing block: a placeholder if it cannot be read.     *)
Corrupt == IF unreadable THEN 0 ELSE data[target]

(* The stored checksum matches.                                            *)
Verifies(block) == block = truth[target]

ViaP == Plus(Sum(others), pBlock)
ViaQ == Times(Exp(1 - target), Plus(qBlock, Sum(Weighted(others))))

(* Mutant: the block of the lower column is returned in either case.       *)
SolveTwoLower(partner) ==
    LET a    == IF target < partner THEN target - 1 ELSE partner - 1
        b    == IF target < partner THEN partner - 1 ELSE target - 1
        good == Without(others, {partner})
        dP   == Plus(pBlock, Sum(good))
        dQ   == Plus(qBlock, Sum(Weighted(good)))
        dB   == Plus(Times(Inv(Plus(Exp(b - a), 1)), dP), Times(Inv(Plus(Exp(a), Exp(b))), dQ))
    IN  Plus(dB, dP)

(* solve_two_disk: the failing block, taking the partner for unknown too.  *)
(* a < b are the exponents of the two columns.                             *)
SolveTwo(partner) ==
    LET a    == IF target < partner THEN target - 1 ELSE partner - 1
        b    == IF target < partner THEN partner - 1 ELSE target - 1
        good == Without(others, {partner})
        dP   == Plus(pBlock, Sum(good))
        dQ   == Plus(qBlock, Sum(Weighted(good)))
        dB   == Plus(Times(Inv(Plus(Exp(b - a), 1)), dP), Times(Inv(Plus(Exp(a), Exp(b))), dQ))
    IN  IF target < partner THEN Plus(dB, dP) ELSE dB

(* A block that verifies needs no recovery, unless it is a placeholder.    *)
CheckSource ==
    /\ pc = "start"
    /\ IF ~unreadable /\ Verifies(Corrupt)
         THEN pc' = "done" /\ result' = "not_corrupt"
         ELSE pc' = "tryP" /\ UNCHANGED result
    /\ UNCHANGED <<arrayVars, configVars, inputVars, reasonVars>>

(* Mutant: a placeholder is taken for the bytes of the block.              *)
TryPPlaceholder ==
    /\ pc = "tryP"
    /\ LET baked == Present(pBlock) /\ Plus(Corrupt, ViaP) = 0
           good  == Present(pBlock) /\ ~baked /\ Verifies(ViaP)
       IN  /\ pReason' = IF ~Present(pBlock) THEN "absent"
                         ELSE IF baked THEN "baked_in"
                         ELSE IF good THEN "none" ELSE "mismatch"
           /\ pc' = IF good THEN "done" ELSE "tryQ"
           /\ result' = IF good THEN "recovered" ELSE result
    /\ UNCHANGED <<arrayVars, configVars, inputVars, qReason, tried>>

(* P alone, unless it was computed from the corrupt bytes.                 *)
TryP ==
    /\ pc = "tryP"
    /\ LET baked == Present(pBlock) /\ ~unreadable /\ Plus(Corrupt, ViaP) = 0
           good  == Present(pBlock) /\ ~baked /\ Verifies(ViaP)
       IN  /\ pReason' = IF ~Present(pBlock) THEN "absent"
                         ELSE IF baked THEN "baked_in"
                         ELSE IF good THEN "none" ELSE "mismatch"
           /\ pc' = IF good THEN "done" ELSE "tryQ"
           /\ result' = IF good THEN "recovered" ELSE result
    /\ UNCHANGED <<arrayVars, configVars, inputVars, qReason, tried>>

(* Mutant: Q is never found to have been computed from the corrupt bytes.  *)
TryQUnsuspecting ==
    /\ pc = "tryQ"
    /\ LET good == Present(qBlock) /\ Verifies(ViaQ)
       IN  /\ qReason' = IF ~Present(qBlock) THEN "absent"
                         ELSE IF good THEN "none" ELSE "mismatch"
           /\ pc' = IF good THEN "done" ELSE "tryPQ"
           /\ result' = IF good THEN "recovered" ELSE result
    /\ UNCHANGED <<arrayVars, configVars, inputVars, pReason, tried>>

TryQ ==
    /\ pc = "tryQ"
    /\ LET baked == Present(qBlock) /\ ~unreadable /\ ViaQ = Corrupt
           good  == Present(qBlock) /\ ~baked /\ Verifies(ViaQ)
       IN  /\ qReason' = IF ~Present(qBlock) THEN "absent"
                         ELSE IF baked THEN "baked_in"
                         ELSE IF good THEN "none" ELSE "mismatch"
           /\ pc' = IF good THEN "done" ELSE "tryPQ"
           /\ result' = IF good THEN "recovered" ELSE result
    /\ UNCHANGED <<arrayVars, configVars, inputVars, pReason, tried>>

(* Both, with the next disk for a partner.                                 *)
Untried == DOMAIN others \ tried

TryPartner ==
    /\ pc = "tryPQ"
    /\ Present(pBlock) /\ Present(qBlock)
    /\ \E s \in Untried :
         /\ \A t \in Untried : s <= t
         /\ tried' = tried \cup {s}
         /\ IF Verifies(SolveTwo(s))
              THEN pc' = "done" /\ result' = "recovered"
              ELSE UNCHANGED <<pc, result>>
    /\ UNCHANGED <<arrayVars, configVars, inputVars, pReason, qReason>>

AllFailed ==
    /\ pc = "tryPQ"
    /\ ~(Present(pBlock) /\ Present(qBlock)) \/ Untried = {}
    /\ pc' = "done"
    /\ result' = "failed"
    /\ UNCHANGED <<arrayVars, configVars, inputVars, reasonVars>>

-----------------------------------------------------------------------------
Init ==
    /\ truth \in Stripes
    /\ before = truth
    /\ data = truth
    /\ p = ComputeP(truth)
    /\ q = ComputeQ(truth)
    /\ hasP \in BOOLEAN
    /\ hasQ \in BOOLEAN
    /\ target \in Slots
    /\ unreadable \in BOOLEAN
    /\ rotten = 0
    /\ write = NoWrite
    /\ pc = "idle"
    /\ others = << >>
    /\ pBlock = Absent
    /\ qBlock = Absent
    /\ pReason = "none"
    /\ qReason = "none"
    /\ tried = {}
    /\ result = "none"

Array   == Rot \/ Resync \/ WriteBegin \/ \E disk \in {"data", "p", "q"} : WriteReaches(disk)
Gather  == Begin \/ GatherData \/ GatherP \/ GatherQ \/ GatherFails
Recover == CheckSource \/ TryP \/ TryQ \/ TryPartner \/ AllFailed

Next == Array \/ Gather \/ Recover

Spec == Init /\ [][Next]_vars

-----------------------------------------------------------------------------
(* Properties.                                                             *)

(* Type invariant.                                                         *)
Reasons == {"none", "absent", "baked_in", "mismatch"}
TypeOK ==
    /\ {truth, before, data} \subseteq [Slots -> F]
    /\ {p, q} \subseteq F
    /\ {hasP, hasQ, unreadable} \subseteq BOOLEAN
    /\ target \in Slots
    /\ rotten \in 0..MaxRot
    /\ write = NoWrite \/ write \in [slot : Slots, diff : F, left : SUBSET {"data", "p", "q"}]
    /\ pc \in {"idle", "gather", "gatherQ", "start", "tryP", "tryQ", "tryPQ", "done"}
    /\ DOMAIN others \subseteq Slots \ {target}
    /\ \A s \in DOMAIN others : others[s] \in F
    /\ {pBlock, qBlock} \subseteq F \cup {Absent}
    /\ {pReason, qReason} \subseteq Reasons
    /\ tried \subseteq DOMAIN others
    /\ result \in {"none", "not_corrupt", "recovered", "failed", "gather_failed"}

(* What the engine was given, against a stripe t: t is what the disks      *)
(* should hold, before or after the write that raced the gathering.        *)
Finished       == pc = "done" /\ result # "gather_failed"
WrongOthers(t) == {s \in DOMAIN others : others[s] # t[s]}
PRight(t)      == Present(pBlock) /\ pBlock = ComputeP(t)
QRight(t)      == Present(qBlock) /\ qBlock = ComputeQ(t)

(* If the other disks are right, one right parity disk is enough to rebuild *)
(* the block, whichever it is, and also when the other one has rotted or    *)
(* the block is unreadable and only a placeholder is at hand.               *)
OneParityEnough ==
    Finished =>
        \A t \in {truth, before} :
            WrongOthers(t) = {} /\ (PRight(t) \/ QRight(t)) =>
                result \in {"recovered", "not_corrupt"}

(* If one more data disk is wrong, silently, or was read on the other side  *)
(* of a racing write than the parity disks were, both parity disks together *)
(* rebuild the block, wherever in the array the two disks are.              *)
TwoParitiesSolveTwo ==
    Finished =>
        \A t \in {truth, before} :
            Cardinality(WrongOthers(t)) <= 1 /\ PRight(t) /\ QRight(t) =>
                result \in {"recovered", "not_corrupt"}

(* Parity that was recomputed from the corrupt block rebuilds nothing, and *)
(* the failure says so for each parity disk there is.                      *)
BakedInTold ==
    /\ Finished /\ write = NoWrite /\ ~unreadable /\ data[target] # truth[target]
    /\ p = ComputeP(data) /\ q = ComputeQ(data)
    => /\ result = "failed"
       /\ pReason = IF hasP THEN "baked_in" ELSE "absent"
       /\ qReason = IF hasQ THEN "baked_in" ELSE "absent"

=============================================================================
