SPECIFICATION SweepSpec
CONSTANTS
  t1 = t1  t2 = t2  gl = gl  cfg = cfg
  Thread = {t1, t2}
  Sha = {h1}
  Stream = {gl, cfg}
  Gle = {gl}
  Content <- MCContentOne
  Lock = {l1, l2}
  Part = {p1, p2, p3}
  None = None  Absent = Absent  Torn = Torn
  Chunks = 1
  MayRaise = FALSE
  MaxUploads = 3
  MaxCrashes = 0
  Boot = 3
  MaxTime = 4
  Overlap = TRUE
  MinAge = 1
  MaxAge = 2
  Ceiling = 0
  IncomingAge = 1
SYMMETRY Threads
INVARIANT MutualExclusion
CHECK_DEADLOCK FALSE
