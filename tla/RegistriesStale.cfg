SPECIFICATION Spec
CONSTANTS
  k1 = k1  k2 = k2  k3 = k3
  packed = packed  older = older  added = added  first = first  broken = broken
  Thread = {t1, t2}
  Kinds = {"wordbits"}
  Key = {k1, k2, k3}
  File = {packed, older, added, first, broken}
  Packaged = {packed, older}
  Raising = {broken}
  Rank <- MCRank
  KeysOf <- MCKeysOf
  Age <- MCAge
  Queries <- MCQueries
  None = None
  MaxCalls = 3
INVARIANT ImportVisible
CHECK_DEADLOCK FALSE
