\* Liveness of the race under the fairness of the event loop.
CONSTANTS
  m1 = m1
  m2 = m2
  f1 = f1
  f2 = f2
  NoFlag = NoFlag
  NoModel = NoModel
  Models = {m1, m2}
  Flags = {f1}
  Correct = {f1}
  FallbackModels = {m1}
  MaxErrors = 1
SPECIFICATION FairSpec
PROPERTIES
  RaceEnds
  SubmissionAnswered
CHECK_DEADLOCK FALSE
