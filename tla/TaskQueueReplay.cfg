SPECIFICATION Spec
CONSTANTS
  w1 = w1
  w2 = w2
  w3 = w3
  t1 = t1
  h1 = h1
  NoWorker = NoWorker
  Workers = {w1, w2}
  HostOf <- SameHost
  Serves <- ServesAll
  Tasks = {t1}
  MaxAttempts = 3
  Slots = 1
  Recyclable = {}
  MaxDeaths = 1
INVARIANTS
  ReclaimedNeverReplays
