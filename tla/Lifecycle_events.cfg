CONSTANTS
  Thread = {1, 2}
  Client = {1, 2}
  Chan = {1, 2}
  Presence = {1}
  Reconnector = {2}
  Request = {1}
  Ops = {"status"}
  QrcodeMaxCount = 0
  MaxCodes = 0
  Happens = {"drop", "replaced", "failure", "undecryptable", "pushname", "startfail", "logout"}
SPECIFICATION Spec
INVARIANTS ConnectedIsSupervised LoggedOutStaysDown
CHECK_DEADLOCK FALSE
