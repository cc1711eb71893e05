CONSTANTS
    Starters = {s1, s2}
    Finishers = {f1, f2}
    Uploaders = {u1}
    Sweepers = {w1}
    Chunks = {c1}
    NoOne = NoOne
    MaxAborts = 1
    MaxPurges = 1
SPECIFICATION FairSpec
INVARIANTS SessionRecordedOnce AckedChunksInManifest
PROPERTIES KeepsPromise FinishingIsSwept
SYMMETRY Symmetry
CHECK_DEADLOCK FALSE
