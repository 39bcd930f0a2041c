SPECIFICATION Spec
CONSTANTS
  r1 = r1
  r2 = r2
  NoOne = NoOne
  Requests = {r1, r2}
  SSHRequests = {r1, r2}
  NumSinks = 1
SYMMETRY Symmetry
INVARIANTS
  OutcomeIsPublished
  LoneFailureIsClassified
PROPERTIES
  CancelHitsItsTarget
  KeepsThePromise
  SinkSeesTheStream
