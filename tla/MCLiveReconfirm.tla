---------------------------- MODULE MCLiveReconfirm ----------------------------
(***************************************************************************)
(* An instance of LiveReconfirm: an extent tree whose first leaf ends with *)
(* an extent item of two sectors and whose second begins with a reference  *)
(* item of that extent. In the versions, the first extent is rewritten,    *)
(* freed, or replaced by one without checksums; the last one is freed.     *)
(***************************************************************************)
EXTENDS LiveReconfirm

Extent(s, len) == [key |-> <<s, EXTENT_ITEM, len>>, val |-> [nodatasum |-> FALSE]]
Unsummed(s, len) == [key |-> <<s, EXTENT_ITEM, len>>, val |-> [nodatasum |-> TRUE]]
TreeBlock(s) == [key |-> <<s, 169, 0>>, val |-> [nodatasum |-> FALSE]]
DataRef(s) == [key |-> <<s, 178, 5>>, val |-> [nodatasum |-> FALSE]]
Csums(s, vals) == [key |-> <<EXTENT_CSUM_OBJECTID, EXTENT_CSUM, s>>, val |-> vals]

MCBlocks == 10..21
MCChunks == {[begin |-> 10, end |-> 22, data |-> FALSE, stripes |-> <<10, 50>>]}
MCRootLayout == <<<<EXTENT_TREE, FS_TREE, CSUM_TREE>>>>
MCLayout == EXTENT_TREE :> 10 @@ CSUM_TREE :> 13 @@ ROOT_TREE :> 16

MCContents ==
    EXTENT_TREE :>
         << << <<Extent(100, 2), TreeBlock(104), Extent(110, 2)>>,
               <<Extent(100, 1), Extent(101, 1), TreeBlock(104), Extent(110, 2)>>,
               <<TreeBlock(104), Extent(110, 2)>>,
               <<Unsummed(100, 2), TreeBlock(104), Extent(110, 2)>> >>,
            << <<DataRef(110), Extent(120, 1)>>, <<DataRef(110)>> >> >>
    @@ CSUM_TREE :>
         << << <<Csums(100, <<1, 1>>), Csums(110, <<1, 1>>)>>,
               <<Csums(100, <<1, 2>>), Csums(110, <<1, 1>>)>>,
               <<Csums(110, <<1, 1>>)>>,
               <<Csums(110, <<1, 1>>)>> >>,
            << <<Csums(120, <<1>>)>>, <<Csums(130, <<1>>)>> >> >>

MCRequests == {[token |-> 101, stored |-> 1], [token |-> 111, stored |-> 1],
               [token |-> 120, stored |-> 1]}

=============================================================================
