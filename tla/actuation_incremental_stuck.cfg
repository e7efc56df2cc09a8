SPECIFICATION FairSpec
CONSTANTS
  Machines = {m1}
  Workers = {w1}
  Clusters = {c1}
  Needs = {n1}
  None = None
  QueueCap = 1
  StagedOps = {"Configure"}
  Incremental = TRUE
  Faults = {}
  Emits = {"Bootstrap", "Provision", "Preempt", "Reclaim", "Delete"}
PROPERTIES InFlightResolves
