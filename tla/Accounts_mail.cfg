SPECIFICATION Spec
CONSTANTS
  a1 = a1
  b1 = b1
  x1 = x1
  r1 = r1
  r2 = r2
  Addresses <- ThreeAddresses
  Known <- OneAccount
  Watched <- OneAccount
  Joining <- Joiner
  Requests <- TwoRequests
  Cooldown = 1
  Window = 3
  Limit = 2
  LinkLife = 2
  ClickLife = 2
  MaxTime = 1
  MaxLinks = 1
  MaxClicks = 2
SYMMETRY Symmetric
INVARIANTS TypeOK ConfirmedByClick OneSessionPerLink Paced WaitsEnd
PROPERTIES AddressTaken AlertsAsChosen
