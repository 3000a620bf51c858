CONSTANTS
  w1 = w1
  w2 = w2
  w3 = w3
  w4 = w4
  r1 = r1
  r2 = r2
  d1 = d1
  Webhook = {w1, w2, w3, w4}
  Request = {r1, r2}
  Dispatcher = {d1}
  Input <- Inputs
  MaxWebhooksPerInstance = 1
SPECIFICATION Spec
SYMMETRY Symmetry
INVARIANTS CapOvershoot StaleOnlyByRace
