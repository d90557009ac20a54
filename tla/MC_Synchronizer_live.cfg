SPECIFICATION SyncFairSpec
CONSTANTS
  s1 = s1
  s2 = s2
  x = x
  y = y
  z = z
  f1 = f1
  f2 = f2
  r1 = r1
  r2 = r2
  GnmiCallers = {c}
  DiagCallers = {c}
  Configs <- OneFabric
  InitialConfig <- NoFabric
  MaxVersion = 3
  Fabrics = {f1}
  Contents = {x, y}
  Switches = {s1, s2}
  SwitchesOf <- MC_SwitchesOf
  Incomplete <- MC_Incomplete
  Unmanaged <- MC_Unmanaged
  Renderings = {r1, r2}
  RenderingsOf <- MC_RenderingsOf
  Nothing = Nothing
  partialUpdateEnable = TRUE
  TopoFails = FALSE
  SidFails = FALSE
  RepliesLost = FALSE
  DialPanics = FALSE
  MaxCrashes = 0
PROPERTIES
  SuccessMeansApplied
  Converges
CHECK_DEADLOCK FALSE
