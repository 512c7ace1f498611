\* bch2_sb_validate's journal and replicas checks accept exactly the fields
\* the format allows; the cpu form converts back; __copy_super copies.
CONSTANTS
    W = 3
    MaxSb = 3
    SizeBits <- MCSizeBits
    MinBuckets = 2
    PageSectors = 2
    BucketSizes <- MCBucketSizes
    BlockSizes <- MCBlockSizes
    JournalLen = 3
    DataNr = 6
    ReplicasMax = 3
    EntryTypes <- MCEntryTypes
    EntryDevs <- MCEntryDevs
    Exists <- MCExists
    EntriesLen = 2
    DevsLen = 3
    FieldTypes = {1, 3}
    FieldSizes = {1, 2, 3}
    HdrU64s = 1
    PageU64s = 4
    SbMaxU64s = 8
INIT Init
NEXT Next
INVARIANTS
    JournalMatchesSpec
    ReplicasMatchesSpec
    CpuFormRoundTrip
    CopyMatchesSpec
