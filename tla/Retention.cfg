CONSTANTS
    Meetings = {m1, m2}
    Broken = {m1}
    Limit = 1
    Days = {0, 1}
    Keep = Keep
    Bodies <- SomeBodies
    Never = Never
    NoPolicy = NoPolicy
    NoList = NoList
    Puts = {a1, a2}
    Tasks = {t1, t2}
    LastTick = 1
    MaxPuts = 2
    MaxFailures = 1
SPECIFICATION FairSpec
SYMMETRY Symmetry
INVARIANTS PolicyIsTheLastPut
PROPERTIES PreviewForetells ErasesWhatIsDue BacklogDrains
CHECK_DEADLOCK FALSE
