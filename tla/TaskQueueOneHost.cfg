SPECIFICATION FairSpec
CONSTANTS
  w1 = w1
  w2 = w2
  w3 = w3
  t1 = t1
  h1 = h1
  NoWorker = NoWorker
  Workers = {w1, w2, w3}
  HostOf <- SameHost
  Serves <- ServesAll
  Tasks = {t1}
  MaxAttempts = 3
  Slots = 2
  Recyclable = {w1}
  MaxDeaths = 1
INVARIANTS
  TypeOK
  ExecutorHolds
  CompletedByLast
  UsedOncePerReport
PROPERTIES
  TasksEnd
  Implements
