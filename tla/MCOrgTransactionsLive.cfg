\* Two racing requests with an expired invite that a newer one replaced.
CONSTANTS
  org = org
  stamp = stamp
  app = app
  user = user
  invite = invite
  oldInvite = oldInvite
  Requests = {r1, r2}
  Sessions = {s1, s2}
  NoRequest = none
  NoSession = nosession
  OrgRow = org
  RbacStamp = stamp
  Invites = {invite, oldInvite}
  OtherRows = {user}
  Invitee <- TwoInvitees
  ExpiresAt <- TwoExpiries
  MaxRows = 2
  MaxClock = 2
SPECIFICATION FairSpec
PROPERTIES EveryRequestEnds
CHECK_DEADLOCK FALSE
