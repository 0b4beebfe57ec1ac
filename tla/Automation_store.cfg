\* One administrator: versions of a policy are not written by two at once.
SPECIFICATION Spec
CONSTANTS
    Wild = Wild
    None = None
    host1 = host1
    host2 = host2
    dir = dir
    file = file
    addr1 = addr1
    addr2 = addr2
    t1 = t1
    n1 = n1
    n2 = n2
    s1 = s1
    admin = admin
    c1 = c1
    c2 = c2
    ActionType = {t1}
    ActionName = {n1, n2}
    Severity = {s1}
    MaxRisk = 1
    Key <- MCKey
    Matcher <- MCMatcher
    Entry <- MCEntry
    Policy = {1, 2}
    Admin = {admin}
    Client = {c1, c2}
    Seed <- MCSeed
    Sample <- MCSample
    Draft <- MCDraft
    Patch <- MCPatch
    Bounds <- MCBounds
    Question <- MCQuestion
    Hour = 1
    MaxTime = 2
    MaxRequests = 4
SYMMETRY Alike
INVARIANTS
    OverlapExact
    SubsetSound
    ShadowedNeverDecides
    EvaluationCurrent
    GrantBacked
    GrantCapBound
CHECK_DEADLOCK FALSE
