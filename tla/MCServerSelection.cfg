SPECIFICATION Spec
CONSTANTS
  Server = {s1, s2, s3}
  Measured = {1, 2, 3}
  MaxFloat32 = 8
  Round <- TwoBits
  NoServerFound = NoServerFound
INVARIANTS
  LoopInv
  
  UnreachableIsLastResort
CHECK_DEADLOCK FALSE
