\* One caller whose first call meets the antivirus, and who then tries again.
SPECIFICATION FairSpec
CONSTANTS
  c1 = c1  c2 = c2
  Caller = {c1}
  Faults = {"virus"}
  MaxFaults = 1
  Retries = {"same"}
PROPERTIES RetrySucceeds
CHECK_DEADLOCK FALSE
