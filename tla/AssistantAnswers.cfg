SPECIFICATION FairSpec
CONSTANTS
    f1 = f1
    v1 = v1
    v2 = v2
    s1 = s1
    s2 = s2
    c1 = c1
    c2 = c2
    c3 = c3
    c4 = c4
    c5 = c5
    p1 = p1
    p2 = p2
    p3 = p3
    p4 = p4
    Fields = {f1}
    RetrievalFields = {f1}
    Values = {v1, v2}
    NoFact = NoFact
    NoDraft = NoDraft
    NoPlan = NoPlan
    Unknown = Unknown
    Languages = {"en", "ru"}
    ConversationLanguage = "en"
    Intents = {"pinfl", "general"}
    Sources = {s1, s2}
    TierOf <- MCTierOf
    Chunks = {c1, c2, c3, c4, c5}
    Pages = {p1, p2, p3, p4}
    InfoOf <- MCInfoOf
    CandidateLimit = 3
    RetrievalLimit = 2
    MaxItems = 2
    MaxCharacters = 3
    MaxSources = 3
    MaxAttempts = 2
    WebFallback = TRUE
INVARIANTS
    AnswersAreGrounded
    CorrectionsWin
    EvidenceAllowed
    AppliedStatesValid
PROPERTIES
    StepsRunOut
    QuestionsAnswered
