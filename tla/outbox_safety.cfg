\* Two requests and an administrator on one key, two workers, every failure.
CONSTANTS
  Keys = {k1}
  Callers = {c1, c2}
  Admins = {a1}
  Workers = {w1, w2}
  NoKey = NoKey
  MaxAttempts = 2
  MaxStalledCount = 1
  MaxTries = 2
  MaxFaults = 1
  MaxStalls = 2
SPECIFICATION Spec
SYMMETRY SymmetrySets
INVARIANTS
  TypeOK
  CompletionMeansApplied
  OrphanedOnlyByFailure
  FullRetryBudget
  OneWorkerPerRow
PROPERTIES
  DeliverySafeSpec
CHECK_DEADLOCK FALSE
