\* Without write errors, with one crash: the write path refines the durable
\* register, and every started write completes.
CONSTANTS
    d1 = d1
    d2 = d2
    d3 = d3
    Torn = Torn
    Dev <- MCDev2
    NrSb <- MCNrSb
    Budget <- MCBudget
    JournalU64s <- MCJournalUniform
    Sizes <- MCSizes
    InitU64s = 4
    MaxSeq = 3
    MaxCrash = 1
    MaxFailed = 0
    NoChanges = FALSE
    WriteCache = FALSE
SPECIFICATION FairSpec
PROPERTY Refines
PROPERTY WriteCompletes
