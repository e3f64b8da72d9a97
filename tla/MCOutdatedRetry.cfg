\* Two clients that both may revoke; the user of one of them does something, a client
\* action or a direct request.
CONSTANTS
  Clients = {c1, c2}
  Actors = {c1}
  Revokers = {c1, c2}
  Requests = {r1, r2}
  MaxCommits = 2
  MaxFaults = 1
SPECIFICATION Spec
INVARIANTS OnceUnlessDisplaced FailureIsTrue ProcessingIsTrue NoRequestForgotten
PROPERTIES EveryActionEnds
CHECK_DEADLOCK FALSE
