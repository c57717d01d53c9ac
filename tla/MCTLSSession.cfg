CONSTANTS
  Random = {r1, r2}
  Lengths = {0, 16, 1024, 1025, 65503, 65504, 65520}
  MaxMessages = 3
SPECIFICATION FairSpec
INVARIANTS
  Agreement
  ClientNotAlone
  EndsForCause
  EchoesPadded
PROPERTIES
  HandshakeEnds
  Answered
CHECK_DEADLOCK FALSE
