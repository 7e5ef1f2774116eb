SPECIFICATION Spec
CONSTANTS
  RxLimit = 2
  TxLimit = 2
INVARIANTS
  TypeOK
  EventsAreSignalled
  WorkIsNoticed
  DeferredUnderMutex
PROPERTIES
  WorkIsServed
CHECK_DEADLOCK FALSE
