SPECIFICATION Spec
CONSTANTS
  c1 = c1
  c2 = c2
  p1 = p1
  p2 = p2
  Age = Age
  Worker = Worker
  Daemon = Daemon
  NoOne = NoOne
  Clients = {c1, c2}
  Agents = {p1, p2}
  MaxBinds = 1
SYMMETRY Symmetry
INVARIANT
  OneAtTheDevice
