SPECIFICATION Spec
CONSTANTS
    site = site
    Reviewers = {r1, r2}
    Publishers = {p1, p2}
    Items = {i1, i2, i3}
    Documents = {d1}
    Sources = {site}
    SourceOf <- MCSourceOf
    MaxNumber = 3
    NoReviewer = NoReviewer
    NoCandidate = NoCandidate
CHECK_DEADLOCK FALSE
SYMMETRY Symmetry
INVARIANTS
    EvidenceApproved
    KeysUnique
    ExpiryAgrees
PROPERTIES
    VersionsGrow
    WithdrawnStays
    ImplementsPublication
