SPECIFICATION FairSpec
CONSTANTS
  s1 = s1
  s2 = s2
  p1 = p1
  p2 = p2
  x1 = x1
  x2 = x2
  NoServer = NoServer
  NoPacket = NoPacket
  NoSession = NoSession
  NoVerdict = NoVerdict
  Servers = {s1, s2}
  Desks = {s1}
  Packets = {p1}
  Sessions = {x1, x2}
  HomeOf <- SharedHomes
  Runners = {"seat"}
  RunnerOf <- AllSeats
  MaxCycles = 1
  MaxRestarts = 1
PROPERTIES
  EntrantClosesOwn
  CallsReturn
