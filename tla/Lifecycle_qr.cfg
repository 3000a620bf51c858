CONSTANTS
  Thread = {1, 2}
  Client = {1, 2}
  Chan = {1, 2}
  Presence = {}
  Reconnector = {}
  Request = {1}
  Ops = {"getqr", "delete", "create"}
  QrcodeMaxCount = 2
  MaxCodes = 2
  Happens = {"pair"}
SPECIFICATION Spec
INVARIANTS QrLimitLetsGo
CHECK_DEADLOCK FALSE
