SPECIFICATION Spec
CONSTANTS
  Machines = {m1}
  Workers = {w1, w2}
  Clusters = {c1, c2}
  Needs = {n1}
  None = None
  QueueCap = 1
  StagedOps = {}
  Incremental = FALSE
  Faults = {"fail", "remove", "crash"}
  Emits = {"Bootstrap", "Provision", "Preempt", "Reclaim", "Delete"}
SYMMETRY Symmetry
INVARIANTS CommitAccepted BindingExact DeleteOnlyUnbound
