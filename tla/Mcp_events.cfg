CONSTANTS
  Cap = 2
  EventType = {"Message"}
  Token = {"t1", "t2"}
  Call = {1, 2, 3}
  MinBackoff = 1
  MaxBackoff = 3
  MaxArrivals = 3
  MaxConns = 2
  Mixes <- SomeMixes
SPECIFICATION Spec
INVARIANTS
  TypeOK HandedOnceInOrder LostOnlyToNewer UsesSelected
PROPERTIES StopEndsSocket CallIsAnswered
CHECK_DEADLOCK FALSE
