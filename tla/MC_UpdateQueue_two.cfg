SPECIFICATION FairSpec
CONSTANTS
  GnmiCallers = {g}
  DiagCallers = {d}
  Configs = {x}
  InitialConfig = x
  MaxVersion = 3
INVARIANTS
  BusyExact
  IdleTookAll
PROPERTIES
  CallsReturn
  BecomesIdle
CHECK_DEADLOCK FALSE
