CONSTANTS
  Thread = {1, 2}
  Client = {1, 2}
  Chan = {1, 2}
  Presence = {}
  Reconnector = {2}
  Request = {1}
  Ops = {"connect"}
  QrcodeMaxCount = 0
  MaxCodes = 0
  Happens = {"drop", "logout"}
SPECIFICATION FairSpec
PROPERTIES DropIsRetried
CHECK_DEADLOCK FALSE
