SPECIFICATION Spec
CONSTANTS
  Callers = {c1, c2, c3}
  Clients = {}
  Sems = {h1, h2, h3}
  Targets = {t1}
  Remote = remote
  RawOps = {}
  CallerOps = {"on", "off", "other"}
  NoCommand = nocommand
  NoSem = nosem
  QueueLen = 3
  Retries = 2
  InitTries = 1
  ErrorThreshold = 2
  RespTimeout = 2
  Expire = 4
  Wait = 5
  TcpWait = 1
  Period = 1
  LagMax = 1
  LinkStates = {TRUE}
  PromptSend = TRUE
SYMMETRY Symmetry
INVARIANTS
  QuietLink
