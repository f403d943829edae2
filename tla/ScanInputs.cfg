SPECIFICATION Spec
CONSTANTS
  api = api
  bot = bot
  r1 = r1
  r2 = r2
  r3 = r3
  Null = Null
  NoHandles = {"", "joinchat"}
  Processes = {api, bot}
  Bots = {}
  Requests = {r1, r2}
  Inputs <- AllInputs
  Configs <- SomeProviders
  Statuses = {"clean", "down"}
CONSTRAINT OneKind
INVARIANTS
  NoStuckNotConfigured
  LiveScansStayOutOfTheCache
  ReplyFitsInput
CHECK_DEADLOCK FALSE
SYMMETRY Symmetry
