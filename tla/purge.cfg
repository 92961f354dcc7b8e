\* The forced kills of reap(purge_foreign=True) and shutdown, with crashes.
SPECIFICATION Spec
CONSTANTS
  s1 = s1  s2 = s2  s3 = s3  w1 = w1  w2 = w2  j1 = j1  j2 = j2  p1 = p1  p2 = p2
  NoSid = NoSid
  Sid = {s1, s2}
  Foreign = {s2}
  Process = {p1, p2}
  Mortal = {p1}
  Worker = {w1}
  Janitor = {j1, j2}
  ProcOf <- TwoProcesses
  MaxConcurrent = 1
  Api = {"acquire", "reap", "purge", "shutdown"}
  Faults = {"rpc", "timeout", "interrupt"}
INVARIANTS CleanedIsDead LiveIsReapable HeartbeatMeansHeld
