SPECIFICATION Spec
CONSTANTS
  s1 = s1
  s2 = s2
  u1 = u1
  u2 = u2
  Stories <- TwoStories
  Users <- OneUser
  Big <- BigOne
  Cap = 1
  SlowTick = FALSE
  MaxFaults = 1
INVARIANTS TypeOK NobodyLeftWaiting PromiseRecorded
PROPERTIES CapRespected
