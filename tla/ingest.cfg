SPECIFICATION FairSpec
CONSTANTS
  Rows = {1, 11}
  InitialRows = 11
  MinRows = 10
  RetainDen = 10
  Consecutive = 3
  MaxSessions = 2
  MaxGen = 1
  MaxFaults = 2
  MaxRestarts = 1
  Spent <- Either
INVARIANTS BlindAtMostOnce
PROPERTIES
  WipeHeldUncrossed
  ConvergesUnlessOvertaken
