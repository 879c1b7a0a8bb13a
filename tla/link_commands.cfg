SPECIFICATION Spec
CONSTANTS
  Callers = {c1, c2}
  Clients = {}
  Sems = {h1, h2}
  Targets = {t1}
  Remote = remote
  RawOps = {}
  CallerOps = {"other"}
  NoCommand = nocommand
  NoSem = nosem
  QueueLen = 2
  Retries = 2
  InitTries = 1
  ErrorThreshold = 2
  RespTimeout = 2
  Expire = 3
  Wait = 4
  TcpWait = 1
  Period = 1
  LagMax = 1
  LinkStates = {FALSE}
  PromptSend = FALSE
SYMMETRY Symmetry
INVARIANTS
  TypeOK
  UnexpiredHasCaller
  WakeIsOwn
  EffectBound

