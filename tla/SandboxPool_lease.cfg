\* Does every container have its lease?
SPECIFICATION PoolSpec
CONSTANTS
  s1 = s1
  s2 = s2
  s3 = s3
  Sandboxes = {s1, s2, s3}
  Registry <- MCRegistry
  Tags <- MCTags
  Limit = 2
  Edited = {"amd"}
INVARIANT ContainerHasLease
CHECK_DEADLOCK FALSE
