SPECIFICATION FairSpec
CONSTANTS
  r1 = r1
  r2 = r2
  o1 = o1
  o2 = o2
  NoOne = NoOne
  Requests = {r1, r2}
  Outsiders = {o1, o2}
  Casts <- InTurns
  RequestLimit = 1
PROPERTIES
  EveryRequestEnds
  OutsidersReturn
