\* Five small programs, each cancelled at any await, in a loop that may end or
\* crash at any time, with the sweeps of its own and of another process.
SPECIFICATION Spec
CONSTANTS
  s1 = s1  s2 = s2  o1 = o1  j1 = j1  j2 = j2  p1 = p1  p2 = p2
  NoSid = NoSid
  Sid = {s1, s2}
  Process = {p1, p2}
  Mortal = {p1}
  Owner = {o1}
  Janitor = {j1, j2}
  ProcOf <- OneAndReaper
  MaxConcurrent = 1
  Scenarios <- Programs
  Faults = {"cancel", "slow", "rpc", "db"}
SYMMETRY Sids
INVARIANTS TypeOK CleanedIsDead HeldNeverKilled HeldIsInflight LiveIsReapable
PROPERTIES BlockEndKills
