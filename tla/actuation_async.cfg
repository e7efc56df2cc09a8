SPECIFICATION FairSpec
CONSTANTS
  Machines = {m1}
  Workers = {w1}
  Clusters = {c1}
  Needs = {n1}
  None = None
  QueueCap = 1
  StagedOps = {"Create", "Configure", "Drain", "Delete"}
  Incremental = FALSE
  Faults = {"fail", "remove", "crash"}
  Emits = {"Bootstrap", "Provision", "Preempt", "Reclaim", "Delete"}
PROPERTIES PendingDrains InFlightResolves
