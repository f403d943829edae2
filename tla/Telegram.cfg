SPECIFICATION CalmSpec
CONSTANTS
  fake = fake
  plain = plain
  s1 = s1
  s2 = s2
  Null = Null
  Scans = {s1, s2}
  Signals = {"SIGTERM", "SIGINT"}
  Names = {fake, plain}
  Minted = {fake}
  Profiles <- TheProfiles
  Entities <- TheEntities
  Inputs <- TheInputs
  Configs <- TheConfigs
  Ttl = 2
  MaxEntries = 1
  Window = 2
  FirmAge = 1
  Cooldown = 1
  MaxTime = 2
  MaxTransfers = 2
CHECK_DEADLOCK FALSE
INVARIANTS
  AttemptsAreBounded
  HandoffHappened
  
  CacheIsSound
  EndIsExplained
  PastedHandleIsJudged
PROPERTIES
  EveryScanEnds
