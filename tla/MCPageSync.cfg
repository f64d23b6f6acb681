SPECIFICATION Spec
CONSTANTS
  None = None
  a = a
  b = b
  Clients = {a, b}
  Joined <- CreatorAndJoiner
  Limit = 2
  Instances <- MCInstances
INVARIANTS PagesSound HonestAccepted
PROPERTIES NeverRolledBack
CHECK_DEADLOCK FALSE
