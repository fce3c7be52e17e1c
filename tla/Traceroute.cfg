SPECIFICATION FairSpec
CONSTANTS
  r1 = r1
  dest = dest
  MaxTtl = 3
  Second = 2
  Pid = 1
  IdLimit = 4
  Addresses = {r1, dest}
  Dest = dest
  Answerers <- TwoWays
  Strays <- OtherProgram
  MaxBusy = 1
  MaxExtra = 1
  MaxSocket = 1
INVARIANTS
  TypeOK
  AverageIsTrue
PROPERTIES
  StopsAtDestination
  Ends
