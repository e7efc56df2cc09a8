SPECIFICATION FairSpec
CONSTANTS
  Replicas = {r1, r2}
  Domains = {d1}
  Kinds = {"AssignDomain", "unknown"}
  MaxTerm = 3
  MaxInstr = 2
  MaxWire = 1
  MaxRestarts = 1
INVARIANTS ExecutedInOrder
PROPERTIES DroppedOnlyWhenHandled InstructionsSettle
