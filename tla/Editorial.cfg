SPECIFICATION SystemSpec
CONSTANTS
    site = site
    Reviewers = {r1}
    Items = {i1}
    Documents = {d1}
    MaxNumber = 1
    NoReviewer = NoReviewer
    Staff = {author, admin}
    Admins = {admin}
    Posts = {guide}
    Guides = {guide}
    Bodies = {b1, b2}
    MaxRevision = 3
    Sources = {site}
    SourceOf <- MCSourceOf
    SourceOnly = SourceOnly
    NoOne = NoOne
    Publishers = {p1}
    NoCandidate = NoCandidate
CHECK_DEADLOCK FALSE
SYMMETRY Symmetry
INVARIANTS
    PointerAgrees
    ShownIsApproved
    ShownIsGrounded
    OneOpenRevision
    ShownIsReviewed
PROPERTIES
    PublicStays
    UpdatesAccepted
    ImplementsEditorial
    BlockedStays
