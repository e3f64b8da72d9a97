\* Two devices, an invited one and a process of an ENVKEY.
CONSTANTS
  Devices = {a, b, c}
  Creator = a
  Invitees = {c}
  Envkey = envkey
  Fetches = {f}
  MaxAt = 6
SPECIFICATION Spec
INVARIANTS CanFollow OwesWhatItKnows RequestedStaysOut SignerExists
CHECK_DEADLOCK FALSE
