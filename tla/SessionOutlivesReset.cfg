SPECIFICATION Spec
CONSTANTS
  Users = {u1, u2}
  Tokens = {t1, t2}
  Workers = {w1, w2}
  Changes <- AllChanges
  RegisterRole = "uploader"
  MaxPassword = 1
  RaisesRace = TRUE
  Nobody = Nobody
  NoToken = NoToken
INVARIANTS SessionsAreCurrent
SYMMETRY SymAll
CHECK_DEADLOCK FALSE
