CONSTANTS
    Humans = {h1, h2}
    Attributers = {a1}
    Extractors = {x1}
    Clusters = {c1}
    Names = {n1, n2}
    NoName = NoName
    NoCluster = NoCluster
    MaxProposed = 2
    MaxFaults = 1
SPECIFICATION FairSpec
INVARIANTS OneParticipantPerName DecisionHolds NobodyIsStuck
PROPERTIES TransactionsEnd
CHECK_DEADLOCK FALSE
