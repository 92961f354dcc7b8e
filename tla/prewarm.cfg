\* Two threads, or two tasks, of a process that ask for two templates, one build at a time.
SPECIFICATION FairSpec
CONSTANTS
  w1 = w1  w2 = w2  w3 = w3  p1 = p1  p2 = p2
  n1 = n1  n2 = n2  k1 = k1  None = None
  Name = {n1, n2}
  Second = {k1}
  Process = {p1}
  Worker = {w1, w2}
  ProcOf <- TwoAndOne
  MaxBuild = 1
  Drivers = {"thread", "task"}
  Faults = {"rpc", "build", "slow", "cancel", "refuse"}
INVARIANTS TypeOK BuiltOnce ReadyIsUsable ReturnedIsUsable
PROPERTIES PrewarmEnds
