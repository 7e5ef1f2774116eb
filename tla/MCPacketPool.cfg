CONSTANTS
  t1 = t1
  t2 = t2
  o1 = o1
  o2 = o2
  o3 = o3
  Threads = {t1, t2}
  IpThread = ip
  ObjectsOf <- MCObjectsOf
  Packets = {p1, p2, p3}
  NoPacket = NoPacket
  Room = 2
  Sizes = {2}
  FrameSizes = {1}
  Offsets = {1}
  WaitsOf <- MCWaitsOf
  Careless = FALSE
SPECIFICATION Spec
INVARIANTS
  TypeOK
  PoolConserved
  ChainsAreWhole
  NobodyWaitsInVain
PROPERTIES
  WaitsEnd
CHECK_DEADLOCK FALSE
