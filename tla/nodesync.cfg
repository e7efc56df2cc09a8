CONSTANTS
  m1 = m1
  Machines = {m1}
  Slots = 1
  OutboxCap = 1
  MaxWire = 2
  MaxLag = 2
  Budgets <- Cases
SPECIFICATION Spec
INVARIANTS
  SettledShown
PROPERTIES
  Converges
  BootstrapAnswered
  HintConverges
CHECK_DEADLOCK FALSE
