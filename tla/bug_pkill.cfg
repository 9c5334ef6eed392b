SPECIFICATION Spec
CONSTANTS
  Sessions = {1, 10}
  Lines = {"l1"}
  LineOf <- OneLine
  Procs = {"wd", "p1", "p2"}
  Watchdog = "wd"
  NoProc = "free"
  DialConcurrent = 1
  AutoRotateCap = 1
  MaxRetries = 1
  CreateRetries = 0
  PublicAddrs = {"a", "b"}
  Outcomes = {"up"}
  Events = {"create", "rotate"}
  MaxEvents = 3
CHECK_DEADLOCK FALSE
PROPERTIES HangupIsLocal
