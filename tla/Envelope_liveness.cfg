SPECIFICATION FairSpec
CONSTANTS
  t1 = t1
  t2 = t2
  x1 = x1
  Thread <- MCThread
  Execution <- MCExecution
  NoExecution = NoExecution
  Slot <- MCSlot
  Threshold = 1
  MaxPerWindow = 1
  MaxQuota = 2
  MaxStops = 0
  AdminsOverlap = FALSE
  MaxFaults = 0
PROPERTY CallsReturn
