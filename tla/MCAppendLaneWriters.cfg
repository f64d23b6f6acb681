SPECIFICATION Spec
CONSTANTS
  None = None
  s1 = s1
  s2 = s2
  Installations = {s1, s2}
  Targets = {None, s2}
  Commands <- WriterCommands
  Invocations = {i1}
  PendingTtl = 1
  HttpTtl = 2
  OperationLimit = 2
  MaxTime = 1
  MaxPosition = 4
  MaxVersion = 2
  MaxGeneration = 2
INVARIANTS  MailboxComplete
PROPERTIES PublishedUnderAuthority ImplementsLog
