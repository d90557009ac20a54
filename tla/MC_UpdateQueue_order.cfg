SPECIFICATION Spec
CONSTANTS
  GnmiCallers = {g}
  DiagCallers = {d}
  Configs = {x}
  InitialConfig = x
  MaxVersion = 2
PROPERTIES
  DiscardsOlder
CHECK_DEADLOCK FALSE
