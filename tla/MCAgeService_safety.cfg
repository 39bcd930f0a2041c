SPECIFICATION ServiceSpec
CONSTANTS
  r1 = r1
  r2 = r2
  NoOne = NoOne
  Requests = {r1, r2}
  SSHRequests = {}
  NumSinks = 0
  Limits = {1, 2}
SYMMETRY Symmetry
INVARIANTS
  RecoveryWasAway
  SessionIsEarned
PROPERTY
  GivingUpSparesOthers
