\* Four commits: a removal, a re-encryption, a grant, and an update.
CONSTANTS
  d1 = d1
  d2 = d2
  d3 = d3
  c1 = c1
  c2 = c2
  Devices = {d1, d2, d3}
  Members = {d1, d2, d3}
  Calls = {c1, c2}
  Client <- ClientOf
  MaxAt = 5
CONSTRAINT Unraced
SPECIFICATION Spec
INVARIANTS TypeOK MembersCanRead NoUpdateLost RemovedCannotRead
CHECK_DEADLOCK FALSE
