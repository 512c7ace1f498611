\* bch2_replicas_gc_end failing with -ENOSPC.
CONSTANTS
    m1 = m1
    m2 = m2
    NULL = NULL
    DevIdx <- MCDevIdx
    DataTypes <- MCDataTypes
    Extents <- MCExtents
    Masks <- MCMasksUser
    Markers <- MCMarkers
    FieldBudget = 3
SPECIFICATION Spec
SYMMETRY Symmetry
INVARIANT GcIdleClean
