SPECIFICATION Spec
CONSTANTS
  f1 = f1
  f2 = f2
  c1 = c1
  n1 = n1
  n2 = n2
  n3 = n3
  n4 = n4
  r1 = r1
  r2 = r2
  m1 = m1
  Files = {f1, f2}
  Courses = {c1}
  Names = {n1, n2, n3, n4}
  CourseOf <- OneCourse
  ShaOf <- Same
  OrigOf <- TwoEach
  Requests = {r1}
  Cleaners = {}
  Boot = Boot
  Ops <- AllOps
  Faults = {"stage", "restore", "journal", "commit", "crash"}
  Overlap = FALSE
  MaxCrashes = 2
  NoCourse = NoCourse
INVARIANTS NoOrphan
PROPERTIES KeepsPromise
CHECK_DEADLOCK FALSE
