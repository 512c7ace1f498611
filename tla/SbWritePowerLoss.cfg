\* Power loss while superblock writes complete into a volatile cache: the
\* completed wave is not yet stable when the next wave tears its slots.
CONSTANTS
    d1 = d1
    d2 = d2
    d3 = d3
    Torn = Torn
    Dev <- MCDev2
    NrSb <- MCNrSb
    Budget <- MCBudget
    JournalU64s <- MCJournalUniform
    Sizes <- MCSizes
    InitU64s = 4
    MaxSeq = 3
    MaxCrash = 1
    MaxFailed = 0
    NoChanges = FALSE
    WriteCache = TRUE
SPECIFICATION Spec
SYMMETRY Symmetry
INVARIANT SomeIntactCopy
