SPECIFICATION Spec
CONSTANTS
  a = a
  b = b
  c = c
  gb = gb
  gc = gc
  kb = kb
  kc = kc
  None = None
  Installations = {a, b, c}
  Founders = {a, b}
  Holder <- MCHolder
  Owner <- MCOwner
  Grants = {gb, gc}
  KeyPackages = {kb, kc}
  MaxIntents = 2
  MaxRequests = 2
  IntentTtl = 1
  MaxTime = 1
  MaxPosition = 5
INVARIANT
  PendingHasIntent
CHECK_DEADLOCK FALSE
