CONSTANTS
  None = None
  c1 = c1
  c2 = c2
  c3 = c3
  p1 = p1
  p2 = p2
  Conn = {c1, c2, c3}
  Producer = {p1, p2}
SPECIFICATION FairSpec
INVARIANTS EntriesAreRead BroadcastIsServed WritesAreOpen
PROPERTIES DeadIsForgotten
