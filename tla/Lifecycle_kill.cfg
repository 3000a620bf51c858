CONSTANTS
  Thread = {1, 2}
  Client = {1, 2}
  Chan = {1, 2}
  Presence = {}
  Reconnector = {}
  Request = {1}
  Ops = {"connect", "disconnect"}
  QrcodeMaxCount = 0
  MaxCodes = 0
  Happens = {"crash", "savefail"}
SPECIFICATION FairSpec
PROPERTIES KillIsHeard
CHECK_DEADLOCK FALSE
