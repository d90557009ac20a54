SPECIFICATION SyncSpec
CONSTANTS
  s1 = s1
  s2 = s2
  x = x
  y = y
  z = z
  f1 = f1
  f2 = f2
  r1 = r1
  r2 = r2
  GnmiCallers = {c}
  DiagCallers = {c}
  Configs <- TwoFabrics
  InitialConfig <- NoFabric
  MaxVersion = 2
  Fabrics = {f1, f2}
  Contents = {x, z}
  Switches = {s1, s2}
  SwitchesOf <- MC_SwitchesOf
  Incomplete <- MC_Incomplete
  Unmanaged <- MC_Unmanaged
  Renderings = {r1, r2}
  RenderingsOf <- MC_RenderingsOf
  Nothing = Nothing
  partialUpdateEnable = TRUE
  TopoFails = TRUE
  SidFails = TRUE
  RepliesLost = TRUE
  DialPanics = TRUE
  MaxCrashes = 1
INVARIANTS
  SyncTypeOK
  CacheIsLastAcked
PROPERTIES
  SuccessMeansPushed
  OnlyOwnApplied
CHECK_DEADLOCK FALSE
