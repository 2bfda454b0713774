\* Two challenges that compete for one slot, or one challenge that is hidden once at most
\* through two restarts of the process; with fairness.
SPECIFICATION FairSpec
CONSTANTS
  Challenges = {1, 2}
  MayBeUnsupported = {}
  NeedsEnv = {1}
  MaxConcurrent = 1
  MaxAttempts = 2
  MaxHides = 1
  MaxRestarts = 2
CONSTRAINT
  OneIfItCrashes
INVARIANTS
  ConfirmedIsSolved
PROPERTIES
  EffortIsKept
  SwarmsKeepVerdicts
  EveryChallengeIsTried
\* The loop's own exit ends the process.
CHECK_DEADLOCK FALSE
