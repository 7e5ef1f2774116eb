CONSTANTS
  N = 2
  Packets = {p1, p2, p3}
  NoPacket = NoPacket
  MaxFrames = 3
SPECIFICATION Spec
INVARIANTS
  TypeOK
  PacketsConserved
  DmaWritesIntoRing
  BuildsBehindDma
PROPERTIES
  FramesAreRead
  DeliversAll
