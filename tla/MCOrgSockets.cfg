\* Two devices of one user, one fault.
CONSTANTS
  laptop = laptop
  desktop = desktop
  alice = alice
  Devices = {laptop, desktop}
  UserOf <- OneUser
  Slots = {s1, s2, s3}
  None = none
  MaxPending = 2
  MaxFaults = 1
SPECIFICATION SocketsSpec
INVARIANTS EventsClearTheirOwn EntryIsLive RetryPending
PROPERTIES EventuallyConnected
CHECK_DEADLOCK FALSE
