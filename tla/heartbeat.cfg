\* Both heartbeats at several timeouts, with late and failing wake-ups.
SPECIFICATION FairSpec
CONSTANTS
  StaleTimeouts <- SomeTimeouts
  Lags <- SmallLags
  Budgets <- SmallBudgets
INVARIANTS HeldNeverStale
PROPERTIES DeathIsNoticed
