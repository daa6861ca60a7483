SPECIFICATION Spec
CONSTANTS
    Blocks <- MCBlocks
    Chunks <- MCChunks
    RootLayout <- MCRootLayout
    Trouble = 2
    Contents <- MCContents
    Layout <- MCLayout
    ChunkRoot = 1
    SysChunks <- MCSysChunks
    MaxItemSpan = 3
    Shapes = {"single"}
INVARIANT
    CsumGapsCounted
