SPECIFICATION Spec
CONSTANTS
  f1 = f1
  f2 = f2
  c1 = c1
  n1 = n1
  n2 = n2
  n3 = n3
  n4 = n4
  r1 = r1
  r2 = r2
  m1 = m1
  Files = {f1, f2}
  Courses = {c1}
  Names = {n1, n2, n3, n4}
  CourseOf <- OneCourse
  ShaOf <- Distinct
  OrigOf <- TwoEach
  Requests = {r1}
  Cleaners = {m1}
  Boot = Boot
  Ops = {"sweep"}
  Faults = {"stage", "undo"}
  Overlap = FALSE
  MaxCrashes = 1
  NoCourse = NoCourse
INVARIANTS BytesSafe
CHECK_DEADLOCK FALSE
