SPECIFICATION Spec
CONSTANTS
  Sessions = {1}
  Lines = {"l1"}
  LineOf <- OneLine
  Procs = {"wd", "p1"}
  Watchdog = "wd"
  NoProc = "free"
  DialConcurrent = 2
  AutoRotateCap = 1
  MaxRetries = 1
  CreateRetries = 0
  PublicAddrs = {"a"}
  Outcomes = {"up", "none"}
  Events = {"create", "autorotate", "setauto", "resume", "probe", "crash", "drop"}
  MaxEvents = 4
CHECK_DEADLOCK FALSE
PROPERTIES GateSpec PauseSticks
