SPECIFICATION FairSweepSpec
CONSTANTS
  t1 = t1  t2 = t2  gl = gl  cfg = cfg
  Thread = {t1, t2}
  Sha = {h1}
  Stream = {gl}
  Gle = {gl}
  Content <- MCContentOne
  Lock = {l1, l2}
  Part = {p1}
  None = None  Absent = Absent  Torn = Torn
  Chunks = 1
  MayRaise = TRUE
  MaxUploads = 2
  MaxCrashes = 0
  Boot = 1
  MaxTime = 1
  Overlap = TRUE
  MinAge = 0
  MaxAge = 0
  Ceiling = 0
  IncomingAge = 1
PROPERTIES UploadReturns SweepReturns
CHECK_DEADLOCK FALSE
