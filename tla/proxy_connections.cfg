SPECIFICATION LiveSpec
CONSTANTS
  Conns = {c1}
  Hosts <- MCHosts
  Names <- MCNames
  ClientIP <- MCClientIP
  Sources = {"s1", "s2"}
  Users = {"user", "other"}
  CredSets <- MCCredSets
  RuleSets <- MCRuleSets
  Covers <- MCCovers
  IdleLimit = 2
  Changes = {"client", "server", "stuck", "sets", "stop", "line", "row"}
INVARIANTS TypeOK
PROPERTIES Admission LifeSpec HandshakeEnds TunnelEnds AssociationEnds IdleEnds
CHECK_DEADLOCK FALSE
