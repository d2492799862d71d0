\* Three command lines, two faults, two systemctl commands.
SPECIFICATION FairSpec
CONSTANTS
  Invocations <- MCInvocations
  NoLimit = NoLimit
  NoBeat = NoBeat
  ConfigTicks = 1
  PollTicks = 1
  Longest <- MCLongest
  StaleCycles = 20
  StaleFloor = 30
  StopTicks = 10
  MaxProduced = 1
  MaxFaults = 2
  MaxOrders = 1
INVARIANTS
  TypeOK
  AliveIsNotStale
  StopSparesItsChapter
PROPERTIES
  CrashedComesBack
