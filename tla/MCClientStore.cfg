SPECIFICATION FairSpec
CONSTANTS
  r1 = r1  r2 = r2  s1 = s1  n1 = n1  n2 = n2
  Thread = {t1, sweep}
  Sweep = sweep
  None = None
  Ip = {i1, i2}
  Username = {n1}
  Instances <- TwoChats
  MaxCalls = 4
INVARIANTS
  MapsRaceFree
  UsernameUnique
  AsIfAtomic
PROPERTY CallsReturn
CHECK_DEADLOCK FALSE
