SPECIFICATION Spec
CONSTANTS
  a = a
  b = b
  c = c
  gb = gb
  gc = gc
  kb = kb
  kc = kc
  None = None
  Installations = {a, b, c}
  Founders = {a, b}
  Holder <- MCHolder
  Owner <- MCOwner
  Grants = {gb, gc}
  KeyPackages = {kb, kc}
  MaxIntents = 3
  MaxRequests = 2
  IntentTtl = 1
  MaxTime = 1
  MaxPosition = 6
CONSTRAINT Scope
INVARIANTS
  CommitsOnce LiveIntentCurrent
  ProjectionsAgree
  MailboxWindows
PROPERTIES ImplementsGroup
CHECK_DEADLOCK FALSE
