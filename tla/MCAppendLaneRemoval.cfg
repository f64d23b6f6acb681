SPECIFICATION FairSpec
CONSTANTS
  None = None
  s1 = s1
  s2 = s2
  Installations = {s1, s2}
  Targets = {s2}
  Commands <- DrainCommands
  Invocations = {i1}
  PendingTtl = 1
  HttpTtl = 2
  OperationLimit = 2
  MaxTime = 1
  MaxPosition = 3
  MaxVersion = 1
  MaxGeneration = 2
PROPERTIES LaneDrains
