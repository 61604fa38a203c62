SPECIFICATION Spec
CONSTANTS
  a = a  b = b  n1 = n1  n1low = n1low  n2 = n2
  Relay = 3
  MaxIeds = 3
  Ip = {a, b}
  Name = {n1, n1low, n2}
  Upper <- MCUpper
  None = None
SYMMETRY Symmetry
INVARIANTS OneToOne NothingLeftBehind UnambiguousIsExact AddressLostToName
CHECK_DEADLOCK FALSE
