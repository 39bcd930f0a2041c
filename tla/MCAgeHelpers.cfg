SPECIFICATION FairSpec
CONSTANTS
  c1 = c1  k1 = k1  e1 = e1  t1 = t1  t2 = t2
  r1 = r1  r2 = r2
  Configurers = {c1}
  Cachers = {k1}
  Editors = {e1}
  Targets = {t1, t2}
  NoKey = NoKey
  Foreign = Foreign
  NoOne = NoOne
  Requests = {r1, r2}
  ReplayLimit = 2
  NoGen = NoGen
  Modes = {"session", "hardware", "recovery", "probe"}
  Casts <- CastsOfModes
INVARIANTS
  DerivesAsConfigured
  PinFitsTheSession
  NothingRunsOn
  NoLostUpdate
  KeyFitsTarget
PROPERTIES
  KeepsTheContract
  EveryHelperEnds
  WriterGetsItsTurn
CHECK_DEADLOCK FALSE
