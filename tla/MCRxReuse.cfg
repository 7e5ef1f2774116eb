CONSTANTS
  N = 3
  Packets = {p1, p2, p3, p4}
  NoPacket = NoPacket
  MaxFrames = 4
SPECIFICATION SafeSpec
INVARIANTS
  ChainIsReceived
CHECK_DEADLOCK FALSE
