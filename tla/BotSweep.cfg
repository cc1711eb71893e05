CONSTANTS
    Starters = {s1}
    Finishers = {f1}
    Uploaders = {u1}
    Sweepers = {w1}
    Chunks = {c1}
    NoOne = NoOne
    MaxAborts = 0
    MaxPurges = 0
SPECIFICATION Spec
PROPERTY SweepSparesLiveFinish
CHECK_DEADLOCK FALSE
