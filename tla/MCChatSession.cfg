SPECIFICATION FairSpec
CONSTANTS
  MaxRedirects = 2
  MaxMessages = 1
  MaxLines = 2
  MayCrash = {1}
INVARIANTS
  ChunkingInvisible
  LinesWhole
  MovesInOrder
PROPERTIES
  FollowsWhenHeard
  MessageEchoed
CHECK_DEADLOCK FALSE
