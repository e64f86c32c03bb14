SPECIFICATION FairSpec
CONSTANTS
  Processes = {p1, p2}
  Files = {f1, f2}
  Content <- Same
  Columns = {c1, c2, c3}
  c1 = c1
  c2 = c2
  c3 = c3
  NTables = 2
  TableOf <- AddedTo
  Releases <- Prefixes
  MaxCrashes = 1
INVARIANTS TypeOK VersionIsTrue ServingIsReady  NoTwins
PROPERTY StartsComplete
CHECK_DEADLOCK FALSE
