SPECIFICATION FairSpec
CONSTANTS
  Params <- MCParams
  List <- MCList
  Address <- MCAddress
  Regs <- MCRegs
  Width <- MCWidth
  Signed <- MCSigned
  Lo <- MCLo
  Hi <- MCHi
  Def <- MCDef
  Requests <- MCRequests
  Items <- MCItems
  Null = null
  FirstItem = "Regulator"
  next <- MCnext
  previous <- MCprevious
  child <- MCchild
  level <- MClevel
  prm <- MCprm
  change <- MCchange
  editor <- MCeditor
  sends <- MCsends
  period <- MCperiod
  Points = {"Point0"}
  Wires = {"Wire"}
  preset <- MCpreset
  derived <- MCderived
  step <- MCStep
  bigstep <- MCBigStep
  Turns <- MCTurns
INVARIANTS
  TypeOK
  InRange
  OutputOwned
  RequestKept
PROPERTIES
  LeavesMenu
  RemoteReleased
