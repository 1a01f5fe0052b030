SPECIFICATION Spec
CONSTANTS
  c1 = c1
  c2 = c2
  f1 = f1
  d1 = d1
  d2 = d2
  e1 = e1
  NoSession = NoSession
  NoEnvelope = NoEnvelope
  NoAnchor = NoAnchor
  Callers = {c1, c2}
  Sessions = {d1}
  SessionOf <- SharedSession
  Relinkers = {}
  Foreign = {}
  Envelopes = {e1}
  MaxCount <- One
  Legacy = 1
  MaxRows = 4
  MaxEdits = 0
INVARIANTS
  QuotaRespected
