\* The thresholds of the two counters of a dispatcher, 5 and 20 in the code,
\* are the number of events of the longest batch.
SPECIFICATION FairSpec
CONSTANTS
    None = None
    h1 = h1
    h2 = h2
    tool = tool
    addr = addr
    w1 = w1
    w2 = w2
    Host = {h1}
    Process = {tool}
    Address = {addr}
    Worker = {w1, w2}
    Event = {1, 2, 3}
    Content <- MCContent
    Batch <- MCBatch
    Window = 1
    ProcessThreshold = 2
    HostThreshold = 2
    MaxTime = 1
    MaxPosts = 2
    MaxCrashes = 1
INVARIANTS
    UnscoredHasCause
    LinkedPair
    CountIsRecent
PROPERTIES
    EventuallyDetected
CHECK_DEADLOCK FALSE
