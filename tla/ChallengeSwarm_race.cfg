\* Safety of the race and the refinements of the submission ledger and of the verdict.
CONSTANTS
  m1 = m1
  m2 = m2
  f1 = f1
  f2 = f2
  NoFlag = NoFlag
  NoModel = NoModel
  Models = {m1, m2}
  Flags = {f1, f2}
  Correct = {f1}
  FallbackModels = {m1}
  MaxErrors = 2
SPECIFICATION Spec
INVARIANTS
  TypeOK
  WinnerIsReturned
  QuietWhenOver
  CancelledForAReason
  NoForgottenSandbox
PROPERTIES
  LedgerSpec
  VerdictSpec
CHECK_DEADLOCK FALSE
