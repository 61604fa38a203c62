SPECIFICATION Spec
CONSTANTS
  t1 = t1  t2 = t2  h1 = h1  h2 = h2  gl = gl  cfg = cfg
  Thread = {t1, t2}
  Sha = {h1, h2}
  Stream = {gl, cfg}
  Gle = {gl}
  Content <- MCContent
  Lock = {l1, l2, l3}
  Part = {p1, p2, p3}
  None = None  Absent = Absent  Torn = Torn
  Chunks = 1
  MayRaise = TRUE
  MaxUploads = 3
  MaxCrashes = 1
  Boot = 0
  MaxTime = 1
SYMMETRY Symmetry
INVARIANTS TypeOK MutualExclusion CompleteIsWhole ReturnedIsWhole NoOrphanPart
PROPERTIES CompleteStays ImplementsStore
CHECK_DEADLOCK FALSE
