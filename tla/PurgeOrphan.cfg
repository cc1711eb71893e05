CONSTANTS
    Purgers = {p1}
    Uploaders = {u1}
    Finishers = {f1}
    Chunks = {c1}
    MaxRecordings = 1
    MaxAborts = 0
SPECIFICATION Spec
INVARIANT NothingSurvives
CHECK_DEADLOCK FALSE
