SPECIFICATION Spec
CONSTANTS
  Sessions = {1}
  Lines = {"l1"}
  LineOf <- OneLine
  Procs = {"wd", "p1", "p2"}
  Watchdog = "wd"
  NoProc = "free"
  DialConcurrent = 1
  AutoRotateCap = 1
  MaxRetries = 1
  CreateRetries = 0
  PublicAddrs = {"a"}
  Outcomes = {"up"}
  Events = {"create", "drop", "crash"}
  MaxEvents = 3
CHECK_DEADLOCK FALSE
INVARIANTS DialingResumed
