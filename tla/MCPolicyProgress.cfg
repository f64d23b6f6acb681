SPECIFICATION FairSpec
CONSTANTS
  Conversations = {c1, c2}
  Passes = {p1}
  HeadTtl = 1
  Margin = 0
  BatchSize = 2
  MaxHeads = 3
  MaxTime = 1
  MaxLosses = 1
  None = None
PROPERTIES HeadsWitnessed 
