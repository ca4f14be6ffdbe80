SPECIFICATION FairSpec
CONSTANTS
    j1 = j1
    j2 = j2
    w1 = w1
    w2 = w2
    site = site
    Workers = {w2}
    Uploads = {}
    Jobs = {j1, j2}
    Sources = {site}
    SourceOf <- MCSourceOf
    Contents = {c1}
    Messages = {m1, m2, m3}
    MaxAttempts <- MCMaxAttempts
    Served <- MCServed
    Scheduled = {j1}
    MaxFaults = 1
    MaxEnqueues = 0
    NoContent = NoContent
    NoMessage = NoMessage
    NoJob = NoJob
CHECK_DEADLOCK FALSE
PROPERTIES
    RequestsSettle
