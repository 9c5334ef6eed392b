SPECIFICATION Spec
CONSTANTS
  Sessions = {1, 2}
  Lines = {"l1", "l2"}
  LineOf <- TwoLines
  Procs = {"wd", "p1", "p2"}
  Watchdog = "wd"
  NoProc = "free"
  DialConcurrent = 1
  AutoRotateCap = 1
  MaxRetries = 1
  CreateRetries = 1
  PublicAddrs = {"a"}
  Outcomes = {"up", "cgnat", "authnak", "prepfail"}
  Events = {"create", "rotate", "drop", "drift", "delete"}
  MaxEvents = 2
CHECK_DEADLOCK FALSE
INVARIANTS TypeOK LocksHeld NoDeadlock Attended
PROPERTIES GateSpec
