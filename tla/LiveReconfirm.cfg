SPECIFICATION Spec
CONSTANTS
    Blocks <- MCBlocks
    Chunks <- MCChunks
    Contents <- MCContents
    Layout <- MCLayout
    RootLayout <- MCRootLayout
    Requests <- MCRequests
    Trouble = 2
    MaxRequests = 2
INVARIANTS
    TypeOK
    VerdictLive
    CacheFresh
