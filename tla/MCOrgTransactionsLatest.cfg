\* Two racing org actions: the version check against the graph they work on.
CONSTANTS
  org = org
  stamp = stamp
  app = app
  user = user
  invite = invite
  oldInvite = oldInvite
  Requests = {r1, r2}
  Sessions = {s1, s2}
  NoRequest = none
  NoSession = nosession
  OrgRow = org
  RbacStamp = stamp
  Invites = {invite}
  OtherRows = {app, user}
  Invitee <- OneInvitee
  ExpiresAt <- OneExpiry
  MaxRows = 1
  MaxClock = 2
SPECIFICATION Spec
PROPERTIES LatestGraphForced
CHECK_DEADLOCK FALSE
