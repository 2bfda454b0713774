\* One challenge, with fairness.
SPECIFICATION FairSpec
CONSTANTS
  Challenges = {1}
  MayBeUnsupported = {}
  NeedsEnv = {}
  MaxConcurrent = 1
  MaxAttempts = 2
  MaxHides = 0
  MaxRestarts = 0
PROPERTIES
  EscalationIsDispatched
\* The loop's own exit ends the process.
CHECK_DEADLOCK FALSE
