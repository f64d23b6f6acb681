SPECIFICATION Spec
CONSTANTS
  None = None
  s1 = s1
  s2 = s2
  Installations = {s1, s2}
  Targets = {}
  Commands <- MCCommands
  Invocations = {i1, i2}
  PendingTtl = 1
  HttpTtl = 1
  OperationLimit = 2
  MaxTime = 2
  MaxPosition = 2
  MaxVersion = 0
  MaxGeneration = 2
INVARIANTS ExactlyOnce LaneInv
SYMMETRY Slots
