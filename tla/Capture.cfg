CONSTANTS
    Finishers = {f1, f2}
    Uploaders = {u1}
    Chunks = {c1}
    NoOne = NoOne
    MaxAborts = 1
    MaxPurges = 1
SPECIFICATION FairSpec
INVARIANTS AckedChunksInManifest OnlyLossStrands FinishingIsOwned
PROPERTIES KeepsPromise FinishingEnds
CHECK_DEADLOCK FALSE
