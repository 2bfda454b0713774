\* One challenge with an environment.
SPECIFICATION Spec
CONSTANTS
  Challenges = {1}
  MayBeUnsupported = {}
  NeedsEnv = {1}
  MaxConcurrent = 1
  MaxAttempts = 2
  MaxHides = 0
  MaxRestarts = 0
INVARIANTS
  ConfirmedEnvReleased
\* The loop's own exit ends the process.
CHECK_DEADLOCK FALSE
