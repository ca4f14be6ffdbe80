SPECIFICATION Spec
CONSTANTS
    Reviewers = {r1}
    Items = {i1, i2}
    Documents = {d1}
    MaxNumber = 2
    NoReviewer = NoReviewer
    Workers = {w1, w2}
    Keys = {k1, k2}
    Models = {m1}
    MaxAttempts = 2
    MaxJobs = 2
    MaxFaults = 1
    NoModel = NoModel
    NoJob = NoJob
CHECK_DEADLOCK FALSE
SYMMETRY Symmetry
INVARIANTS
    OneWorkerPerJob
    StrandedOnlyIfDropped
    IndexedIsReviewed
PROPERTIES
    ImplementsIndexLedger
