SPECIFICATION Spec
CONSTANTS
    j1 = j1
    j2 = j2
    w1 = w1
    w2 = w2
    site = site
    Workers = {w1}
    Uploads = {u1}
    Jobs = {j1, j2}
    Sources = {site}
    SourceOf <- MCSourceOf
    Contents = {c1}
    Messages = {m1, m2, m3}
    MaxAttempts <- MCMaxAttempts
    Served <- MCServedAll
    Scheduled = {j1}
    MaxFaults = 0
    MaxEnqueues = 1
    NoContent = NoContent
    NoMessage = NoMessage
    NoJob = NoJob
CHECK_DEADLOCK FALSE
SYMMETRY Symmetry
INVARIANTS
    TypeOK
    NoStrandedJob
    OneReviewPerChange
PROPERTIES
    ImplementsLedger
