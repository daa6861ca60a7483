---------------------------- MODULE MCScrubReader ----------------------------
(* A small device for ScrubReader: data extents with other ones before and *)
(* between. The first is longer than a run and has a hole; the last two    *)
(* are the copies of a DUP chunk.                                          *)
EXTENDS ScrubReader

Extent(kind, logical, phys, len) ==
    [kind |-> kind, logical |-> logical, phys |-> phys, len |-> len]

MCLayout == << Extent("other", 20, 8, 2), Extent("data", 0, 10, 7),
               Extent("other", 30, 17, 2), Extent("data", 7, 20, 2),
               Extent("data", 7, 22, 2) >>

\* Logical sector 5 has no checksum.
MCCsumLeaves == {{0, 1}, {2, 3, 4, 6}, {7, 8}}

\* Neighbours in pairs hold the same, also the one in the hole and the next;
\* so do the two copies.
MCContent == [p \in 10..24 |-> (((IF p < 22 THEN p ELSE p - 2) + 1) \div 2) * 2]

MCRots == {{}, {11, 16}, {20, 23}}

=============================================================================
