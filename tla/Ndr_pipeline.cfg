SPECIFICATION FairSpec
CONSTANTS
    None = None
    Unreadable = Unreadable
    src = src
    dst = dst
    other = other
    e1 = e1
    e2 = e2
    f1 = f1
    d1 = d1
    d2 = d2
    d3 = d3
    d4 = d4
    t1 = t1
    w1 = w1
    w2 = w2
    api = api
    Address = {src, dst, other}
    EventKey = {e1, e2, f1}
    Digest = {d1, d2, d3, d4}
    Technique = {t1}
    RuleFile <- MCRuleFile
    Indicators <- MCIndicators
    Mapping <- MCMapping
    ContextSpan = 0
    RepeatSpan = 2
    Worker = {w1, w2}
    Client = {api}
    Log <- MCLog
    Request <- MCRequest
    HourLength = 1
    IncidentSpan = 1
    MaxRequests = 1
    MaxFaults = 1
    MaxEdits = 1
INVARIANTS
    MessagesAccountedFor
    AlertInOneIncident
    PublishedWasStored

    
CHECK_DEADLOCK FALSE
