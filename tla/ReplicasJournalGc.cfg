\* A journal GC (typemask 1 << BCH_DATA_JOURNAL) while user extents exist.
CONSTANTS
    m1 = m1
    m2 = m2
    NULL = NULL
    DevIdx <- MCDevIdx
    DataTypes <- MCDataTypes
    Extents <- MCExtents
    Masks <- MCMasksJournal
    Markers <- MCMarkers
    FieldBudget = 3
SPECIFICATION Spec
SYMMETRY Symmetry
INVARIANT LiveCovered
