SPECIFICATION Spec
CONSTANTS
    s1 = s1
    s2 = s2
    s3 = s3
    Sessions = {s1, s2, s3}
    MaxAttempts = 4
CHECK_DEADLOCK FALSE
SYMMETRY Symmetry
INVARIANTS
    SourceTextKept
    ArtifactReadable
    DatabaseReconciles
PROPERTIES
    ObjectsImmutable
