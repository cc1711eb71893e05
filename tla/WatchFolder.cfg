CONSTANTS
    Scanners = {s1, s2}
    Names = {n1}
    Copies = {c1, c2}
    NoFile = NoFile
    MaxSwitches = 1
    MaxFaults = 1
SPECIFICATION FairSpec
INVARIANTS PlacementIsTheLedger OnlyWholeFiles ResumedIsSkipped
PROPERTIES KeepsPromise FilesLeave
CHECK_DEADLOCK FALSE
