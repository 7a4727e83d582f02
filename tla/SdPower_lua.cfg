\* The Lua task alone with power management on: accesses are intact and end.
SPECIFICATION FairSpec
CONSTANTS
  lua = lua
  msd = msd
  accel = accel
  SdTask = SdTask
  Nobody = Nobody
  Clients = {lua}
  LowPriority = {lua}
  PmClients = {}
  Sensors = {accel}
  InitOutcomes = {"ok", "error"}
INVARIANT OkMeansIntact
PROPERTY AccessReturns
