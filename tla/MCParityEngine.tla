---------------------------- MODULE MCParityEngine ----------------------------
(* ParityEngine over a small field built by the code of gf.rs, and checks  *)
(* of the real field.                                                      *)
EXTENDS ParityEngine, GaloisField

Byte == INSTANCE GaloisField WITH W <- 8, Red <- 29

\* The tables of the real field: every byte has its inverse, 2 generates all
\* bytes but zero (its order is 255), and the powers that the disks of an
\* array use are powers of 2.
ASSUME ByteInverses  == \A x \in 1..255 : Byte!GfMul(x, Byte!GfInv(x)) = 1
ASSUME ByteGenerator == Byte!GfPow(2, 255) = 1 /\ \A e \in {15, 51, 85} : Byte!GfPow(2, e) # 1
ASSUME BytePowers    == \A e \in 0..30 : /\ Byte!GfExp(e) = Byte!GfPow(2, e)
                                        /\ Byte!GfExp(e) = Byte!GfInv(Byte!GfPow(2, 255 - e))

\* The tables of the small field, as the code keeps them.
MulTable    == [x \in Elements |-> [y \in Elements |-> GfMul(x, y)]]
InvTable    == [x \in Elements |-> GfInv(x)]
MCTimes(x, y) == MulTable[x][y]
MCInv(x)    == InvTable[x]

\* A stripe with a zero block, which an unreadable block is mistaken for most
\* easily.
MCStripes   == {<<1, 0, 3>>}

=============================================================================
