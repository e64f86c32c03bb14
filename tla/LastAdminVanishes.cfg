SPECIFICATION Spec
CONSTANTS
  Users = {u1, u2}
  Tokens = {t1, t2}
  Workers = {w1, w2}
  Changes <- EnableOrDemote
  RegisterRole = "uploader"
  MaxPassword = 0
  RaisesRace = TRUE
  Nobody = Nobody
  NoToken = NoToken
INVARIANTS AdminRemains
SYMMETRY SymAll
CHECK_DEADLOCK FALSE
