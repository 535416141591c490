SPECIFICATION FairSpec
CONSTANT Sizes = {0, 1, 2, 3}
INVARIANTS
    TypeOK
    OkNeedsDownload
PROPERTIES
    ImplementsFetch
    Returns
    CutShortFails
