\* One challenge.
SPECIFICATION Spec
CONSTANTS
  Challenges = {1}
  MayBeUnsupported = {}
  NeedsEnv = {}
  MaxConcurrent = 1
  MaxAttempts = 2
  MaxHides = 0
  MaxRestarts = 0
INVARIANTS
  SolvedSwarmsAreKilled
\* The loop's own exit ends the process.
CHECK_DEADLOCK FALSE
