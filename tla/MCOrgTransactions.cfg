\* Three racing requests on one app, one user and one invite.
CONSTANTS
  org = org
  stamp = stamp
  app = app
  user = user
  invite = invite
  oldInvite = oldInvite
  Requests = {r1, r2, r3}
  Sessions = {s1, s2}
  NoRequest = none
  NoSession = nosession
  OrgRow = org
  RbacStamp = stamp
  Invites = {invite}
  OtherRows = {app, user}
  Invitee <- OneInvitee
  ExpiresAt <- OneExpiry
  MaxRows = 1
  MaxClock = 1
SYMMETRY Symmetry
SPECIFICATION Spec
INVARIANTS TypeOK NoLostWrites LostOnlyToUnlockedCopy RevokedNeverAccepted ReadLabelNotAhead
PROPERTIES ImplementsSerialGraph
CHECK_DEADLOCK FALSE
