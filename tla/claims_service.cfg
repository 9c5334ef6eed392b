SPECIFICATION Spec
CONSTANTS
  Users = {"u", "v"}
  Orders = {"o"}
  NoOrder = "none"
  Proxies = {"a", "b"}
  Types = {"private", "rotating"}
  MaxCreds <- SmallMax
  Handlers = {h1, h2}
  NoOne = NoOne
  FirstType <- AllRotating
  Counts = {1, 2}
  Ttls = {0, 1}
  MaxTime = 1
  MaxRequests = 3
SYMMETRY Symmetry
CHECK_DEADLOCK FALSE

INVARIANTS TypeOK QuotaHeld OrderSpread
PROPERTIES ClaimIdempotent LedgerSpec
