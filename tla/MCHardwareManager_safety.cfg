SPECIFICATION Spec
CONSTANTS
  r1 = r1
  r2 = r2
  o1 = o1
  NoOne = NoOne
  Requests = {r1, r2}
  Outsiders = {o1}
  Casts <- AllTogether
  RequestLimit = 2
SYMMETRY Symmetry
INVARIANTS
  OneHelper
  FailureMeansReaped
  NoHelperIsLost
PROPERTY
  InvalidateReaps
