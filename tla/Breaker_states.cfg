SPECIFICATION FairCallersSpec
CONSTANTS
  c1 = c1
  c2 = c2
  c3 = c3
  Caller <- MCCaller
  Threshold = 3
  MaxFailures = 5
INVARIANT TrippedByFailures
PROPERTY OpenIsTemporary
