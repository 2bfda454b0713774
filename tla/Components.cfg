\* The components around the race, each on a small instance.
SPECIFICATION ComponentsSpec
CONSTANTS
  \* SandboxPool: two leases for three sandboxes, two of them on a worker with one place
  s1 = s1
  s2 = s2
  s3 = s3
  Sandboxes = {s1, s2, s3}
  Registry <- MCRegistry
  Tags <- MCTags
  Limit = 2
  Edited = {"amd"}
  \* ProviderGovernor: two callers on each provider; at most ten tokens, twice the budget
  \* and both slots
  c1 = c1
  c2 = c2
  c3 = c3
  c4 = c4
  chat = chat
  responses = responses
  go = go
  Callers = {c1, c2, c3, c4}
  Providers = {chat, responses}
  Groups = {go}
  ProviderOf <- MCProviderOf
  GroupOf <- MCGroupOf
  SlotLimit <- MCLimit
  HardBudget <- MCHardBudget
  MaxUse = 2
  TokenCap = 10
  \* CodexSession
  MaxTurns = 3
  MaxTools = 2
  MaxUnread = 1
  \* MessageBus: two findings are kept
  seatA = seatA
  seatB = seatB
  specA = specA
  specB = specB
  Seats = {seatA, seatB}
  OwnSpec <- MCOwnSpec
  FallbackSpec <- MCFallbackSpec
  NoSpec = "none"
  CoordinatorName = "coordinator"
  MaxFindings = 2
  MaxPosts = 4
  \* StallPolicy
  Models = {"m1", "m2"}
  First = "m1"
  StallAfter = 2
  Cooldown = 2
  MaxAdvice = 2
  \* ChallengeEnv
  Commands = {"coordinator", "single"}
  Stages = 2
  Awkward = {2}
  MaxEnvs = 3
  MaxSwarms = 3
  MaxCrashes = 1
INVARIANTS
  ComponentsTypeOK
  LeasesConserved
  KnownHasLease
  StoppedIsClean
  SlotsConserved
  OverspendIsBounded
  ResultIsOfItsTurn
  StopLeavesNothing
  NothingMissed
  BumpsEnd
  ReleasedStaysReleased
  AcceptedIsReleased
PROPERTIES
  
  NoCallBehindOpenCircuit
  WaitersAreServed
  TurnEnds
  DeliversFindings
  GuidanceIsSpaced
  StalledIsBumped
\* The bounds on turns, posts and swarms let every component come to an end, and a
\* circuit without an end refuses every turn.
CHECK_DEADLOCK FALSE
