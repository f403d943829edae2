SPECIFICATION Spec
CONSTANTS
  api = api
  bot = bot
  r1 = r1
  r2 = r2
  r3 = r3
  Null = Null
  NoHandles = {"", "joinchat"}
  Processes = {api, bot}
  Bots = {bot}
  Requests = {r1, r2, r3}
  Inputs <- ConnectInputs
  Configs <- NoProviders
  Statuses = {"clean", "down"}
INVARIANTS
  TypeOK
  AnswersConverge
PROPERTIES
  StoreIsAtomic
  EveryRequestEnds
CHECK_DEADLOCK FALSE
