\* The card may fail to answer CMD0.
SPECIFICATION FairSpec
CONSTANTS
  lua = lua
  msd = msd
  accel = accel
  SdTask = SdTask
  Nobody = Nobody
  Clients = {lua}
  LowPriority = {lua}
  PmClients = {}
  Sensors = {accel}
  InitOutcomes = {"ok", "idle"}
PROPERTY AccessReturns
\* The task that waits for itself keeps the bus, and everything stops.
CHECK_DEADLOCK FALSE
