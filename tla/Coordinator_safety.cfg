\* Two challenges and one slot; a challenge may be hidden once and listed again.
SPECIFICATION Spec
CONSTANTS
  Challenges = {1, 2}
  MayBeUnsupported = {2}
  NeedsEnv = {1}
  MaxConcurrent = 1
  MaxAttempts = 2
  MaxHides = 1
  MaxRestarts = 0
INVARIANTS
  TypeOK
  SwarmsAreOwned
  ReleasedOnceSolved
  ExitsWhenHandled
\* The loop's own exit ends the process.
CHECK_DEADLOCK FALSE
