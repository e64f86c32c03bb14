SPECIFICATION Spec
CONSTANTS
  Users = {u1, u2}
  Tokens = {t1, t2, t3}
  Workers = {w1, w2}
  Changes <- AllChanges
  RegisterRole = "uploader"
  MaxPassword = 1
  RaisesRace = FALSE
  Nobody = Nobody
  NoToken = NoToken
INVARIANTS TypeOK OnlyStraysAreStale DisabledIsOut StraysAreFew AdminRemains AdminInv
SYMMETRY SymAll
CHECK_DEADLOCK FALSE
