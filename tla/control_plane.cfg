SPECIFICATION MCSpec
CONSTANTS
  Streams = {"r1", "r2", "r3", "r4"}
  Pubs = {"r1", "r2", "r3", "r4"}
  Cap = 1
  Requests <- MCRequests
  Seed = "seed"
  Web = "web"
  Passwords = {"p1", "p2"}
  First = "p1"
  Defaults <- MCDefaults
  Accepted <- MCAccepted
  MaxRestarts = 1
  Sessions = {"s1", "s2", "s3"}
  LineOf <- MCLineOf
  LoginOf <- MCLoginOf
  SecretOf <- MCSecretOf
  MaxCrashes = 1
  MaxErrors = 1
  MaxTasks = 3
INVARIANTS TypeOK NoSendOnClosed SlowLosesItsOwn OldPasswordRevoked SettingsSound OneProbe FilesTypeOK SecretsServe NoLeftovers
PROPERTIES BookSpec PublishEnds StreamEnds
CHECK_DEADLOCK FALSE
