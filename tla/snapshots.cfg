\* save, restore and cleanup of the threads of one process, which crashes.
SPECIFICATION FairSpec
CONSTANTS
  c1 = c1  c2 = c2  c3 = c3  p1 = p1  p2 = p2  k1 = k1  k2 = k2
  None = None  NoSnap = NoSnap
  Caller = {c1, c2}
  Process = {p1}
  ProcOf <- TwoAndOne
  Interval = 2
  Snap = {k1, k2}
  Keep = {k2}
  Mortal = {p1}
  Faults = {"rpc", "db", "interrupt"}
INVARIANTS TypeOK SnapshotsTracked
PROPERTIES GrantsSpaced CleanupWorks RestoreEnds
