CONSTANTS
  N = 2
  Packets = {p1, p2, p3}
  NoPacket = NoPacket
  MaxBuffers = 3
  MaxSends = 4
SPECIFICATION Spec
INVARIANTS
  TypeOK
  BooksBalance
  OnlyTornIsReused
  SentIsWhole
PROPERTIES
  AcceptedIsReleased
  SendsInOrder
