CONSTANTS
    Finishers = {f1, f2}
    Uploaders = {u1}
    Chunks = {c1}
    NoOne = NoOne
    MaxAborts = 0
    MaxPurges = 0
SPECIFICATION Spec
INVARIANT OneRecording
SYMMETRY Symmetry
CHECK_DEADLOCK FALSE
