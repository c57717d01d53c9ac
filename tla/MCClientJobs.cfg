SPECIFICATION FairJobs
CONSTANTS
  Server = {s1, s2}
  Delay = {1}
  MaxFloat32 = MaxFloat32
INVARIANTS
  NameIsOurs
PROPERTIES
  StartupEnds
  ListsComplete
  DeadServersUnreachable
