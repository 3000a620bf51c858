SPECIFICATION Spec
CONSTANTS
  Request = {r1, r2, r3}
  MaxServed = 2
  DefaultProxy = TRUE
  Op = {"connect", "disconnect", "logout", "pair", "noproxy",
        "advanced", "event", "delete"}
INVARIANTS
  LostOnlyToOverlap
  RunningFollowsRow
PROPERTY
  AnswerIsInForce
CHECK_DEADLOCK FALSE
SYMMETRY Symmetry
