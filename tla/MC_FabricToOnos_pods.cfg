SPECIFICATION OnosSpec
CONSTANTS
  s0 = s0
  s1 = s1
  s2 = s2
  named = named
  clashing = clashing
  broken = broken
  twoRoutes = twoRoutes
  Pods = {p1, p2}
  Switches = {s0, s1, s2}
  InitialCounter = 100
  MaxSid = 102
  NoSwitch = NoSwitch
  Contents = {named, clashing}
  SwitchIn <- MC_SwitchIn
  RouteIn <- MC_RouteIn
  Rank <- MC_Rank
  Hostname = Hostname
  MadeUpAddresses = 4
  MaxIP = 0
  partialUpdateEnable = TRUE
  None = None
SYMMETRY PodSymmetry
INVARIANTS
  SidsUnique
  DevicesDistinct
