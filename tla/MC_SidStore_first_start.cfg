SPECIFICATION Spec
CONSTANTS
  Pods = {p1, p2}
  Switches = {s1, s2}
  InitialCounter = 0
  MaxSid = 103
  NoSwitch = NoSwitch
SYMMETRY Symmetry
INVARIANTS
  SidsUnique
