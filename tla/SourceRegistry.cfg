SPECIFICATION Spec
CONSTANTS
    s1 = s1
    s2 = s2
    m1 = m1
    o1 = o1
    o2 = o2
    u1 = u1
    u2 = u2
    y1 = y1
    y2 = y2
    Sources = {s1, s2, m1}
    Organizations = {o1, o2}
    Urls = {u1, u2, u3}
    Replicas = {y1, y2}
    Admins = {a1, a2}
    Registries <- MCRegistries
    RegistryOf <- MCRegistryOf
    ApiRegistry <- MCOld
    ManagedIds = {m1}
    NoRow = NoRow
    Unwritten = Unwritten
    NoOne = NoOne
CHECK_DEADLOCK FALSE
INVARIANTS
    ActiveIsAuthorized
    RegistrySourcesServable
PROPERTIES
    OnlyDemotionUnverifies
