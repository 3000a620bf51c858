CONSTANTS
  Thread = {1, 2}
  Client = {1, 2}
  Chan = {1, 2}
  Presence = {}
  Reconnector = {}
  Request = {1}
  Ops = {"logout", "reconnect", "delete", "forcereconnect"}
  QrcodeMaxCount = 0
  MaxCodes = 0
  Happens = {"savefail"}
SPECIFICATION Spec
INVARIANTS NoneLeftConnected ReachableIsRegistered
CHECK_DEADLOCK FALSE
