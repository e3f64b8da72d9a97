\* Two commits after the first version, and one fault.
CONSTANTS
  MaxVersion = 3
  MaxFaults = 1
SPECIFICATION Spec
INVARIANTS TypeOK StaleOnlyIfMissed HolesNeedRaces
PROPERTIES CatchesUp
CHECK_DEADLOCK FALSE
