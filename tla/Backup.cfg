SPECIFICATION Spec
CONSTANTS
  Files = {f1, f2}
  NRuns = 2
  Keep = 1
  MaxCrashes = 1
SYMMETRY Interchangeable
INVARIANTS TypeOK NamedIsWhole RowsHaveBytes AWholeRemains
CHECK_DEADLOCK FALSE
