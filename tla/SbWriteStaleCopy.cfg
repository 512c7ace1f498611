\* A member that comes back online with an older copy, then a field resize:
\* the resize check passes, bch2_sb_from_fs fails, and the stale copy is
\* written.
CONSTANTS
    d1 = d1
    d2 = d2
    d3 = d3
    Torn = Torn
    Dev <- MCDev2
    NrSb <- MCNrSb
    Budget <- MCBudget
    JournalU64s <- MCJournalUniform
    Sizes <- MCSizes
    InitU64s = 4
    MaxSeq = 3
    MaxCrash = 0
    MaxFailed = 0
    NoChanges = FALSE
    WriteCache = FALSE
SPECIFICATION Spec
SYMMETRY Symmetry
INVARIANT InflightCurrent
