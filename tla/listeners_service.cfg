CONSTANTS
  Proxies = {p1, p2, p3}
  Ports = {7001, 7002}
  Units = {0, 1}
  Macs = {m1}
  RandomMac = mr
  Procs = {h1, h2}
  NoOne = none
  NoProxy = noproxy
  MaxRequests = 4
SYMMETRY Alike
SPECIFICATION Spec
INVARIANTS
  TypeOK
  Owned
  PortsReturn
  CredsFresh
  RulesFresh
  StatusTruthful
  AllocExact
CHECK_DEADLOCK FALSE
