SPECIFICATION Spec
CONSTANTS
    Blocks <- MCBlocks
    Chunks <- MCChunks
    Contents <- MCContents
    Layout <- MCLayout
    RootLayout <- MCRootLayout
    Requests <- MCRequests
    Trouble = 1
    MaxRequests = 1
INVARIANT
    StaleIsBenign
