SPECIFICATION Spec
CONSTANTS
  Replicas = {r1, r2}
  s1 = s1
  s2 = s2
  Shards = {s1, s2}
  Clusters = {c1}
  Domains = {d1}
  None = None
  Founding <- BothShards
  MaxLog = 4
  MaxTerm = 2
SYMMETRY Symmetry
INVARIANTS ReplicasAgree TermsGrow
PROPERTIES ImplementsAssignment
