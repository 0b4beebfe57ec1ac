SPECIFICATION Spec
CONSTANTS
  t1 = t1
  t2 = t2
  x1 = x1
  Thread <- MCThread
  Execution <- MCExecution
  NoExecution = NoExecution
  Slot <- MCSlot
  Threshold = 1
  MaxPerWindow = 1
  MaxQuota = 1
  MaxStops = 1
  AdminsOverlap = FALSE
  MaxFaults = 1
INVARIANT EffectsPaidFor
INVARIANT StopPreventsEffects
INVARIANT ActivationPersists
PROPERTY ImplementsLedger
SYMMETRY MCThreads
