SPECIFICATION SystemSpec
CONSTANTS
    site = site
    Reviewers = {r1}
    Items = {i1, i2}
    Documents = {d1}
    MaxNumber = 2
    NoReviewer = NoReviewer
    Staff = {author, admin}
    Admins = {admin}
    Posts = {article}
    Guides = {}
    Bodies = {b1}
    MaxRevision = 2
    Sources = {site}
    SourceOf <- MCSourceOf
    SourceOnly = SourceOnly
    NoOne = NoOne
    Publishers = {p1}
    NoCandidate = NoCandidate
CHECK_DEADLOCK FALSE
INVARIANTS
    ServedIsCurrent
