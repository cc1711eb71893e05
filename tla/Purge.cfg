CONSTANTS
    Purgers = {p1, p2}
    Uploaders = {u1}
    Finishers = {f1, f2}
    Chunks = {c1}
    MaxRecordings = 1
    MaxAborts = 1
SPECIFICATION FairSpec
INVARIANTS ManifestOutlivesChunks NamedObjectsAreGone DeletionAuditedOnce
PROPERTIES KeepsPromise RetentionIsEnforced
SYMMETRY Symmetry
CHECK_DEADLOCK FALSE
