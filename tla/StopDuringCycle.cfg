\* `systemctl stop` while a turn is under way.
SPECIFICATION Spec
CONSTANTS
  Invocations <- UnitOnly
  NoLimit = NoLimit
  NoBeat = NoBeat
  ConfigTicks = 1
  PollTicks = 1
  Longest <- MCLongest
  StaleCycles = 20
  StaleFloor = 30
  StopTicks = 10
  MaxProduced = 1
  MaxFaults = 0
  MaxOrders = 1
INVARIANTS
  StopHonouredBetweenCycles
