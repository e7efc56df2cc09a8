CONSTANTS
  Machines = {1, 2, 3, 4}
  Needs = {1, 2}
  Clusters = {1, 2}
  Classes = {1, 2}
  Domains = {1, 2}
  ParkAfter = 2
  Reprobe = 3
  CapNum = 1
  CapDen = 2
  Budget = 1
  MaxAlloc = 2
  Inputs <- Fleets
SPECIFICATION FairSpec
PROPERTIES Stabilises NoneStarved GangsAssemble ReclaimsOnlyExcess ExcessReleased
