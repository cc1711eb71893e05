CONSTANTS
    Workers = {w1, w2}
    Extractions = 2
    MaxRedeliveries = 1
    MaxResumes = 1
    MaxDrops = 1
SPECIFICATION FairSpec
INVARIANTS PublishedIsComplete RowsBoundedByDeliveries FailedStageIsFirstGap RestIsSettled
PROPERTIES KeepsPromise RunsSettle
CHECK_DEADLOCK FALSE
