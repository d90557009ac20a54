SPECIFICATION OnosSpec
CONSTANTS
  s0 = s0
  s1 = s1
  s2 = s2
  named = named
  clashing = clashing
  broken = broken
  twoRoutes = twoRoutes
  Pods = {p1}
  Switches = {s0, s1, s2}
  InitialCounter = 0
  MaxSid = 104
  NoSwitch = NoSwitch
  Contents = {named, broken, twoRoutes}
  SwitchIn <- MC_SwitchIn
  RouteIn <- MC_RouteIn
  Rank <- MC_Rank
  Hostname = Hostname
  MadeUpAddresses = 3
  MaxIP = 0
  partialUpdateEnable = TRUE
  None = None
INVARIANTS
  OnosTypeOK
  SidsUnique
  SidsNotReserved
  SidsStable
  SidsOnRecord
  NothingElseLost
  SettledNotReposted
PROPERTIES
  RegistrySpec
