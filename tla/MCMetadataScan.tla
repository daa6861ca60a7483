---------------------------- MODULE MCMetadataScan ----------------------------
(***************************************************************************)
(* An instance of MetadataScan: a system and a metadata chunk in two       *)
(* copies each, two data chunks, and trees of two leaves; the checksums of *)
(* the first data chunk are in both leaves, those of the second in one.    *)
(* Four blocks are free, as many as a transaction writes.                  *)
(***************************************************************************)
EXTENDS MetadataScan

Chunk(b, e, data, stripes) == [begin |-> b, end |-> e, data |-> data, stripes |-> stripes]
Csum(s, n) == [key |-> <<EXTENT_CSUM_OBJECTID, EXTENT_CSUM, s>>, val |-> n]
DevExt(phys, chunk, len) ==
    [key |-> <<1, DEV_EXTENT_KEY, phys>>, val |-> [chunk |-> chunk, len |-> len]]
DevStats == [key |-> <<0, 249, 1>>, val |-> [chunk |-> 0, len |-> 0]]

MCBlocks == 10..22
MCSysChunks == {Chunk(1, 2, FALSE, <<1, 41>>)}
MCChunks == MCSysChunks \cup
    {Chunk(10, 23, FALSE, <<10, 50>>), Chunk(100, 103, TRUE, <<200>>),
     Chunk(110, 112, TRUE, <<210>>)}
MCRootLayout == <<<<DEV_TREE>>, <<FS_TREE, CSUM_TREE>>>>

MCContents ==
    CSUM_TREE :>
         << << <<Csum(101, 1)>>, <<Csum(100, 2)>> >>,
            << <<Csum(102, 1), Csum(110, 1)>>, <<Csum(102, 1), Csum(110, 2)>> >> >>
    @@ DEV_TREE :>
         << << <<DevExt(10, 10, 13), DevExt(200, 100, 3)>>,
               <<DevStats, DevExt(10, 10, 13), DevExt(200, 100, 3)>> >>,
            << <<DevExt(210, 110, 2)>> >> >>
MCLayout == CSUM_TREE :> 10 @@ DEV_TREE :> 13 @@ ROOT_TREE :> 16

=============================================================================
