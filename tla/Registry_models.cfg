\* One administrator; a benchmark and a restart may come at any step.
SPECIFICATION Spec
CONSTANTS
    None = None
    r1 = r1
    r2 = r2
    a = a
    b = b
    c = c
    d = d
    known = known
    unknown = unknown
    Dataset <- MCDataset
    Known = {known}
    Length = 2
    Scale = 4
    Requested = {"capture_day", "random_dev_only"}
    Version <- MCVersion
    Run = {r1, r2}
    Trained <- MCTrained
    ThresholdPolicy <- MCThresholdPolicy
    Gates <- MCGates
    MaxBenchmarks = 2
    MaxRequests = 4
    MaxRestarts = 1
INVARIANTS
    OneActive
    ArchivedIsDown
    RuntimeIsGoverned
CHECK_DEADLOCK FALSE
