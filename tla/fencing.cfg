CONSTANTS
  Machines = {m1, m2}
  MaxProcs = 3
  MaxSeq = 2
SPECIFICATION FencingSpec
SYMMETRY Symmetry
INVARIANTS EpochsGrow FencedOnlyWhenOvertaken
PROPERTIES PassedInOrder
CHECK_DEADLOCK FALSE
