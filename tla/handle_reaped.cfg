\* A fork clone in use while another process reaps.
SPECIFICATION Spec
CONSTANTS
  s1 = s1  s2 = s2  s3 = s3  w1 = w1  w2 = w2  j1 = j1  j2 = j2  p1 = p1  p2 = p2
  NoSid = NoSid
  Sid = {s1, s2}
  Foreign = {}
  Process = {p1, p2}
  Mortal = {}
  Worker = {w1}
  Janitor = {j2}
  ProcOf <- TwoProcesses
  MaxConcurrent = 1
  Api = {"acquire", "fork", "reap"}
  Faults = {}
SYMMETRY OwnSids
INVARIANTS HandleNeverReaped
