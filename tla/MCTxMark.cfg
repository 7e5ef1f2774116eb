CONSTANTS
  N = 2
  Packets = {p1, p2}
  NoPacket = NoPacket
  MaxBuffers = 2
  MaxSends = 5
SPECIFICATION SafeSpec
INVARIANTS
  WaitingIsMarked
