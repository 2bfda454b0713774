\* Traces, memories and broadcasts of two challenges.
SPECIFICATION FairFlowSpec
CONSTANTS
  web1 = web1
  web2 = web2
  Challenges = {web1, web2}
  Category <- MCCategory
  Platform = "platform"
  Rules = {"rule"}
  PlatformRules = {"law"}
  Noise = {"idea"}
  Writes <- MCWrites
  Capacity = 2
  MaxLines <- MCMaxLines
  MaxTraces <- MCMaxTraces
  Emptied = {web2}
INVARIANTS
  FlowTypeOK
  TailIsExact
  ToldOnce
PROPERTIES
  KnowledgeSpreads
\* The solvers may have written all their lines and stopped while the advisor is asked.
CHECK_DEADLOCK FALSE
