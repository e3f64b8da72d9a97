\* Two workers, so that jobs overtake; three keys and three stores.
CONSTANTS
  Actions = {a1, a2}
  Workers = 2
  MaxKey = 3
  MaxGen = 3
  MaxJobs = 3
SYMMETRY Interchangeable
SPECIFICATION Spec
INVARIANTS AckedKept FileReadable StuckOnlyUnsealed
CHECK_DEADLOCK FALSE
