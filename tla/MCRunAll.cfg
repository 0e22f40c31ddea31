SPECIFICATION Spec
CONSTANTS
  SEEDS = {1, 2}
  MAX_RUNS = 2
CHECK_DEADLOCK FALSE
INVARIANTS PassIsEarned NothingOlderThanManifest ManifestAccountsForFiles
