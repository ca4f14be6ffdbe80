SPECIFICATION Spec
CONSTANTS
    s1 = s1
    s2 = s2
    s3 = s3
    Sessions = {s1}
    MaxAttempts = 2
CHECK_DEADLOCK FALSE
INVARIANTS
    LeftoversReconcile
