CONSTANTS
  Calls = {c1, c2}
  Engines = {e1, e2}
  MaxEngineFaults = 1
SPECIFICATION DaemonSpec
INVARIANT CredentialsKept
CHECK_DEADLOCK FALSE
