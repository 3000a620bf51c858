CONSTANTS
  MaxPosts = 3
  Publisher <- MCPublisher
  Conn = {1, 2, 3, 4, 5, 6}
  NoConn = NoConn
  Settings <- MCSettings
SPECIFICATION FairSpec
INVARIANTS TypeOK AnswerIsTruthful SinksAreServed NothingUnwanted TablesAgree NamesStaleOnlyByRace OlderRowOnlyByRace
PROPERTIES LiveConnectionIsKept EventIsSettled
CHECK_DEADLOCK FALSE
