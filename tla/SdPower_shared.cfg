\* The Lua task and USB mass storage share the card; Lua switches power management.
SPECIFICATION Spec
CONSTANTS
  lua = lua
  msd = msd
  accel = accel
  SdTask = SdTask
  Nobody = Nobody
  Clients = {lua, msd}
  LowPriority = {lua}
  PmClients = {lua}
  Sensors = {accel}
  InitOutcomes = {"ok", "error"}
INVARIANT TypeOK
INVARIANT BusExclusive
INVARIANT LockOrder
INVARIANT PoweredWhenReady
INVARIANT WillPowerDown
