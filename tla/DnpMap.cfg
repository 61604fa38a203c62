SPECIFICATION Spec
CONSTANTS
  ai = ai  sca = sca  orphan = orphan  mindist = mindist
  d1 = d1  d2 = d2  d3 = d3  d4 = d4  x = x  brk = brk
  Session = 4
  Key = {ai, sca, orphan, mindist}
  NoKey = NoKey
  PointOf <- MCPointOf
  Body = {x, brk}
  Name = {d1, d2, d3, d4}
  Cut = Cut
  NoName = NoName
  Forbidden = {brk}
  Texts <- MCTexts
  Stem <- MCStem
  MaxQuotes = 1
INVARIANTS UntouchedLineKept ReadsBack ShownOnce DistinctNames
