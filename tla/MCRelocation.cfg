SPECIFICATION RelocationFairSpec
CONSTANTS
  s1 = s1  s2 = s2
  r1 = r1  r2 = r2  r3 = r3
  a = a  b = b  c = c  d = d  e = e  f = f
  Server = {s1, s2}
  Measured = {0, 1}
  MaxFloat32 = 3
  Round <- Exact
  User = {a, b, c, d}
  Room = {r1, r2}
  Users <- TwoChats
  Lists <- MovingRequesters
  MaxUpdates = 2
  None = None
  MayQuit = {d}
  DialMayFail = {d}
  MaxPending = 2
INVARIANT PartnersToldSame
PROPERTY PartnersMeet
