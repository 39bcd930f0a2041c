SPECIFICATION FairSpec
CONSTANTS
  c1 = c1
  p1 = p1
  p2 = p2
  Age = Age
  Worker = Worker
  Daemon = Daemon
  NoOne = NoOne
  Clients = {c1}
  Agents = {p1, p2}
  MaxBinds = 2
INVARIANTS
  NoStrayAgent
  SessionBindIsReplayed
  TouchIsItsOwn
PROPERTY
  SignReturns
