SPECIFICATION FairSpec
CONSTANTS
  Callers = {}
  Clients = {tcp}
  Sems = {h1}
  Targets = {t1}
  Remote = remote
  RawOps = {"target"}
  CallerOps = {}
  NoCommand = nocommand
  NoSem = nosem
  QueueLen = 1
  Retries = 2
  InitTries = 1
  ErrorThreshold = 5
  RespTimeout = 1
  Expire = 1
  Wait = 2
  TcpWait = 6
  Period = 1
  LagMax = 1
  LinkStates = {TRUE, FALSE}
  PromptSend = FALSE
INVARIANTS
  RemoteTargetHeld
  AnswerInStep
  ConnectedHonest
PROPERTIES
  RequestServed
  TargetConverges
