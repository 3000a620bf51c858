CONSTANTS
  r1 = r1
  r2 = r2
  Request = {r1, r2}
  Bodies <- BodiesOf
  CheckUserExists = TRUE
  MaxStarting = 2
SPECIFICATION FairSpec
INVARIANTS PanicIsKnown
PROPERTIES KeepsContract RequestAnswered
CHECK_DEADLOCK FALSE
