CONSTANTS
  pa = pa
  pb = pb
  Plains <- MCPlains
  NFileds = {0, 1, 2, 17}
  SectorNos = {0, 1}
  MaxStore = 2
  MaxInits = 2
  AllocOK = {TRUE, FALSE}
INIT Init
NEXT Next
INVARIANT ArrayRoundTrip
