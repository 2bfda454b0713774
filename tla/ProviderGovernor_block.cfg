\* Two callers on each provider; at most ten tokens, twice the budget and both slots.
SPECIFICATION GovernorSpec
CONSTANTS
  c1 = c1  c2 = c2  c3 = c3  c4 = c4
  chat = chat  responses = responses  go = go
  Callers = {c1, c2, c3, c4}
  Providers = {chat, responses}
  Groups = {go}
  ProviderOf <- MCProviderOf
  GroupOf <- MCGroupOf
  SlotLimit <- MCLimit
  HardBudget <- MCHardBudget
  MaxUse = 2
  TokenCap = 10
PROPERTIES
  PersistentCircuitStays
\* A circuit without an end refuses every turn: the system may stop there.
CHECK_DEADLOCK FALSE
