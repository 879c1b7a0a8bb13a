SPECIFICATION FairSpec
CONSTANTS
  Callers = {c1}
  Clients = {}
  Sems = {h1}
  Targets = {t1, t2}
  Remote = remote
  RawOps = {}
  CallerOps = {"on", "other"}
  NoCommand = nocommand
  NoSem = nosem
  QueueLen = 1
  Retries = 1
  InitTries = 1
  ErrorThreshold = 2
  RespTimeout = 2
  Expire = 1
  Wait = 2
  TcpWait = 2
  Period = 1
  LagMax = 1
  LinkStates = {TRUE, FALSE}
  PromptSend = FALSE
PROPERTIES
  CallReturns
  Reconnects
  CacheConverges
  TargetConverges
