\* acquire and restore_from_snapshot of two workers on one run limiter, against
\* reap and reconcile of another process; crashes, interrupts, failing calls.
SPECIFICATION Spec
CONSTANTS
  s1 = s1  s2 = s2  s3 = s3  w1 = w1  w2 = w2  j1 = j1  j2 = j2  p1 = p1  p2 = p2
  NoSid = NoSid
  Sid = {s1, s2}
  Foreign = {}
  Process = {p1, p2}
  Mortal = {p1}
  Worker = {w1, w2}
  Janitor = {j2}
  ProcOf <- SharedLimiter
  MaxConcurrent = 1
  Api = {"acquire", "restore", "reap", "reconcile"}
  Faults = {"interrupt", "hbstart", "rpc", "db", "timeout"}
SYMMETRY OwnSids
INVARIANTS TypeOK CleanedIsDead HeldNeverClaimed LiveIsReapable PermitsBalance
PROPERTIES EveryWriteLegal KeepsLedger
