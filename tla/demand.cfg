CONSTANTS
  Dims = {"cpu", "mem"}
  LastBucket = 26
  ClassDefaults <- Defaults
  Nil = Nil
  Unparsable = Unparsable
  Pods = {1, 2}
  MaxCRs = 3
  Inputs <- Cases
SPECIFICATION FairSpec
INVARIANTS RequestIsPeak
PROPERTIES RequestsFollowPods DemandCurrent AcksStick AcknowledgedWhenReported
CHECK_DEADLOCK FALSE
