CONSTANTS
  m1 = m1
  m2 = m2
  m3 = m3
  m4 = m4
  w1 = w1
  w2 = w2
  Needs = {1, 2, 3}
  Machines = {m1, m2, m3, m4}
  Profiles = {1, 2, 3, 4, 5, 6}
  Domains = {1, 2}
  Workers = {w1, w2}
  MaxAlloc = 1
  Retries = 2
  QueueBuf = 12
  Inputs <- AllInputs
SPECIFICATION FairSpec
INVARIANTS IndexesAgree BarrierQuiet NoInversion SameConfined RequeuedOncePerMachine
PROPERTIES EvictionOnlyUpward CycleEnds
