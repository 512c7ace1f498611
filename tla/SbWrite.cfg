\* Write path with one crash, uniform devices: crash safety, read order,
\* fresh copies.
CONSTANTS
    d1 = d1
    d2 = d2
    d3 = d3
    Torn = Torn
    Dev <- MCDev2
    NrSb <- MCNrSb
    Budget <- MCBudget
    JournalU64s <- MCJournalUniform
    Sizes <- MCSizes
    InitU64s = 4
    MaxSeq = 3
    MaxCrash = 1
    MaxFailed = 1
    NoChanges = FALSE
    WriteCache = FALSE
SPECIFICATION Spec
SYMMETRY Symmetry
INVARIANT TypeOK
INVARIANT SomeIntactCopy
INVARIANT ReadFindsNewest
