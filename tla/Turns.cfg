\* Two or three messages or jobs in one chat or two, one place or two, up to two
\* tool calls that need an approval, one steer at a time, one end of the process.
SPECIFICATION Spec
CONSTANTS
  client = client
  session = session
  tele = tele
  teleSession = teleSession
  Turns <- ThreeTurns
  NoTurn = 0
  Calls = {1, 2}
  Chats <- WebAndTelegram
  SessionKey <- Keys
  SteerMax = 1
  Scenarios <- Bounds
  SendsItself = {tele}
  MaxRestarts = 1
INVARIANTS
  TypeOK
  NothingLeftBehind
  EnvelopeTellsTruth
PROPERTIES
  KeysYieldToNewer
  TurnsEnd
CHECK_DEADLOCK FALSE
