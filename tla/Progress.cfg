CONSTANTS
    Workers = {w1}
    Extractions = 1
    MaxRedeliveries = 1
    MaxResumes = 1
    MaxDrops = 1
    Viewers = {v1}
    MaxOpens = 2
    MaxBreaks = 1
SPECIFICATION PFairSpec
INVARIANTS ViewersAreToldTheTruth NobodyWaitsInVain
PROPERTIES ViewersLearnTheEnd
CHECK_DEADLOCK FALSE
