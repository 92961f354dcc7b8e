\* pause, resume (also by a handle kept after its block), fork, resume_sandbox
\* and _release against a reaper.
SPECIFICATION Spec
CONSTANTS
  s1 = s1  s2 = s2  s3 = s3  w1 = w1  w2 = w2  j1 = j1  j2 = j2  p1 = p1  p2 = p2
  NoSid = NoSid
  Sid = {s1, s2}
  Foreign = {}
  Process = {p1, p2}
  Mortal = {}
  Worker = {w1}
  Janitor = {j2}
  ProcOf <- TwoProcesses
  MaxConcurrent = 1
  Api = {"acquire", "pause", "keep", "resume", "fork", "adopt", "release", "reap"}
  Faults = {"interrupt", "late"}
SYMMETRY OwnSids
INVARIANTS HeldOrResumed
