SPECIFICATION Spec
CONSTANTS
  Machines = {m1, m2}
  Workers = {w1, w2}
  Clusters = {c1}
  Needs = {n1}
  None = None
  QueueCap = 1
  StagedOps = {}
  Incremental = FALSE
  Faults = {}
  Emits = {"Bootstrap", "Reclaim"}
SYMMETRY Symmetry
INVARIANTS LedgerExact
PROPERTIES OnlyDriverWrites
