SPECIFICATION ExecutorsSpec
CONSTANTS
  Nobody = Nobody
  NoFile = NoFile
  p1 = p1
  s1 = s1
  s2 = s2
  g1 = g1
  c1 = c1
  c2 = c2
  Pairs = {p1}
  Callers = {c1, c2}
  Seats = {s1, s2}
  Groups = {g1}
  Apps <- BothSeats
  Wanted <- OneGroup
  Manifests <- NoneOrFirst
  MayReclaim = TRUE
  MaxFaults = 1
  MaxEdits = 1
  v1 = v1
  v2 = v2
  code = code
  info1 = info1
  info2 = info2
  r1 = r1
  r2 = r2
  Venvs = {v1, v2}
  Paths = {code, info1, info2}
  Runs = {r1, r2}
  Present <- FirstVenv
  Shipped = {code, info2}
  Absent = Absent
  Old = Old
  Good = Good
  Bad = Bad
  MaxSlips = 2
  MaxCrashes = 1
  e1 = e1
  e2 = e2
  b1 = b1
  b2 = b2
  oneshot = oneshot
  Ids = {e1, e2}
  Calls = {b1, b2}
  Unit = oneshot
  Boxes = {"single", "installed"}
  Overlap <- AnyTwo
  MaxStops = 1
CHECK_DEADLOCK FALSE
INVARIANT
  ProposalsKept
