\* The replica index and its status queries while two writers and a
\* user-data GC race over a replicas field that fills up, and devices
\* go offline and online.
CONSTANTS
    m1 = m1
    m2 = m2
    NULL = NULL
    DevIdx <- MCDevIdx
    DataTypes <- MCDataTypes
    Extents <- MCExtents
    Masks <- MCMasksUser
    Markers <- MCMarkers
    FieldBudget = 3
    NrDevices = 2
    DataNr <- BCH_DATA_NR
    DataJournal <- BCH_DATA_JOURNAL
    DataBtree <- BCH_DATA_BTREE
    DataUser <- BCH_DATA_USER
    UintMax = 255
SPECIFICATION Spec
SYMMETRY Symmetry
INVARIANT TypeOK
INVARIANT DevHasDataSound
INVARIANT RemovalGateSound
INVARIANT UnavailableReported
INVARIANT LiveCovered
INVARIANT NoDuplicateEntries
