SPECIFICATION SequentialSpec
CONSTANTS
  e1 = e1
  e2 = e2
  n1 = n1
  n2 = n2
  A = A
  B = B
  NoName = NoName
  Entities = {e1, e2}
  Usernames = {n1, n2}
  EntityKinds = {"user", "unknown"}
  Cooldown = 2
  MaxCandidates = 2
  MaxTime = 4
  MaxCalls = 4
  Space = 0
  Underscore = 99
  HandAllocated = 2
  PostMigration = 4
  NoUsernames = {"", "nft", "ab"}
  Accounts = {A, B}
  Batches <- MCBatches
  Failures <- SomeFailures
  Ids <- SomeIds
  Now = 5
CHECK_DEADLOCK FALSE
INVARIANTS
  SameAnswers
  HistoryIsATimeline
  UndeclaredTransfersAreFlagged
  MessagesAreReadAlike
  OutagesStayQuiet
  HandlesAreJudged
  AgesFollowIds
  LinksAreReadAlike
