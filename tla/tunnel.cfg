\* Two callers with sandboxes of their own and one binary cache, every fault.
SPECIFICATION FairSpec
CONSTANTS
  c1 = c1  c2 = c2
  Caller = {c1, c2}
  Faults = {"net", "virus", "rpc", "slow", "drop", "exit", "kill"}
  MaxFaults = 2
  Retries = {"same", "close", "fresh"}
INVARIANTS TypeOK ReturnedRecovers
PROPERTIES CallEnds RetrySucceeds
CHECK_DEADLOCK FALSE
