SPECIFICATION FairSpec
CONSTANTS
  r1 = r1
  r2 = r2
  NoOne = NoOne
  Requests = {r1, r2}
  SSHRequests = {r1}
  NumSinks = 0
PROPERTIES
  EveryRequestReturns
  TokenComesBack
