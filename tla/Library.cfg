SPECIFICATION Spec
CONSTANTS
  Courses = {c1, c2}
  Files = {f1, f2, f3}
  Users = {u1, u2}
  Nowhere = Nowhere
  Nobody = Nobody
  Sizes = {0, 1, 2}
  MaxFile = 2
  MaxTotal = 3
  MaxCourse = 2
  MaxUser = 2
  Spares <- MCSpares
  Forms = {m1, m2}
  Titles = {t1, t2}
  MaxVersion = 3
  MaxFew = 1
  NoRow = NoRow
  NoTitle = NoTitle
  Links = {l1}
  Guest = Guest
SYMMETRY Symmetry
INVARIANTS
  TypeOK
  UploadsFit
  AllowanceIsHonest
  NoLostEdit
  NamesDiffer
  NothingDangles
  RoutesAgree
  OnlyVettedIsPublic
CHECK_DEADLOCK FALSE
