CONSTANTS
  N = 2
  Packets = {p1, p2, p3}
  NoPacket = NoPacket
  MaxFrames = 3
SPECIFICATION PoolSpec
PROPERTIES
  ReceptionGoesOn
