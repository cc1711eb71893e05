CONSTANTS
    reader = reader
    auditor = auditor
    stranger = stranger
    Accounts = {reader, auditor, stranger}
    Org <- OrgOf
    Role <- RoleOf
    Grants <- SomeGrants
    Home = here
    Items = {k1}
    Texts = {t0, t1}
    ModelText = t0
    Requests = {q1, q2}
    Workers = {w1, w2}
    None = None
    here = here
    elsewhere = elsewhere
    q1 = q1
    q2 = q2
    w1 = w1
    w2 = w2
    MaxRequests = 3
    MaxRedeliveries = 1
SYMMETRY Symmetry
SPECIFICATION Spec
INVARIANTS OneAnswerPerSection LogExplainsSection EditsFoundTheirItem ListShowsWhatOpens
CHECK_DEADLOCK FALSE
