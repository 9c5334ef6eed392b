SPECIFICATION Spec
CONSTANTS
  Sessions = {1}
  Lines = {"l1"}
  LineOf <- OneLine
  Procs = {"wd", "p1", "p2"}
  Watchdog = "wd"
  NoProc = "free"
  DialConcurrent = 1
  AutoRotateCap = 1
  MaxRetries = 1
  CreateRetries = 1
  PublicAddrs = {"a"}
  Outcomes = {"up", "authnak"}
  Events = {"create"}
  MaxEvents = 1
CHECK_DEADLOCK FALSE
PROPERTIES NoAutoRedialAfterAuthNak
