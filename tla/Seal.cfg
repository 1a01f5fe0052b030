SPECIFICATION FairSpec
CONSTANTS
  t1 = t1
  l1 = l1
  g1 = g1
  g2 = g2
  k1 = k1
  k2 = k2
  w1 = w1
  w2 = w2
  NoAsk = NoAsk
  Tasks = {t1}
  Leases = {l1}
  Rulings = {g1, g2}
  Ticks = {k1, k2}
  Steward = k1
  Watchers = {w1, w2}
  Together <- AloneOrRuled
  MaxRows = 1
  MaxRecords = 1
  MaxDeaths = 1
  MaxMints = 1
CHECK_DEADLOCK FALSE
INVARIANTS
  TypeOK
  ReceiptsAgree
  RecordsAgree
  NoSealSkipped
PROPERTIES
  RowsEndOnce
  HeldRowsEnd
  LeasesEnd
