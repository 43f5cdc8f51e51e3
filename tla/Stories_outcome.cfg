SPECIFICATION Spec
CONSTANTS
  s1 = s1
  s2 = s2
  u1 = u1
  u2 = u2
  Stories <- OneStory
  Users <- OneUser
  Big <- NoneBig
  Cap = 1
  SlowTick = FALSE
  MaxFaults = 0
PROPERTIES OutcomeFinal
