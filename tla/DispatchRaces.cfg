SPECIFICATION Spec
CONSTANTS
  s1 = s1
  s2 = s2
  p1 = p1
  p2 = p2
  x1 = x1
  x2 = x2
  NoServer = NoServer
  NoPacket = NoPacket
  NoSession = NoSession
  NoVerdict = NoVerdict
  Servers = {s1, s2}
  Desks = {s1}
  Packets = {p1}
  Sessions = {x1, x2}
  HomeOf <- ApartHomes
  Runners = {"seat", "ratatosk"}
  RunnerOf <- WithListener
  MaxCycles = 2
  MaxRestarts = 2
ACTION_CONSTRAINT CrashOrContend
INVARIANTS
  TypeOK
  VerdictOfHolder
  CompleteHasVerdict
  RunnerRespected
  WorkingIsWritable
  OneVerdictPerCycle
PROPERTIES
  VerdictNeverLost
  Implements
