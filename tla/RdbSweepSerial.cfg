SPECIFICATION SweepSpec
CONSTANTS
  t1 = t1  t2 = t2  gl = gl  cfg = cfg
  Thread = {t1}
  Sha = {h1, h2}
  Stream = {gl, cfg}
  Gle = {gl}
  Content <- MCContent
  Lock = {l1, l2, l3}
  Part = {p1, p2}
  None = None  Absent = Absent  Torn = Torn
  Chunks = 1
  MayRaise = FALSE
  MaxUploads = 3
  MaxCrashes = 1
  Boot = 3
  MaxTime = 5
  Overlap = FALSE
  MinAge = 1
  MaxAge = 2
  Ceiling = 3
  IncomingAge = 1
INVARIANT SettledIsWhole
PROPERTIES LiveSessionKept OnlyWhatTheCeilingNeeds CeilingHolds StrandedPartsGone
CHECK_DEADLOCK FALSE
