SPECIFICATION Spec
CONSTANTS
  c1 = c1
  c2 = c2
  f1 = f1
  d1 = d1
  d2 = d2
  e1 = e1
  NoSession = NoSession
  NoEnvelope = NoEnvelope
  NoAnchor = NoAnchor
  Callers = {c1, c2}
  Sessions = {d1, d2}
  SessionOf <- OwnSessions
  Relinkers = {c2}
  Foreign = {f1}
  Envelopes = {e1}
  MaxCount <- One
  Legacy = 1
  MaxRows = 3
  MaxEdits = 1
INVARIANTS
  TypeOK
  LockOK
  QuotaRespected
  VerifyIsRight
PROPERTIES
  Implements
