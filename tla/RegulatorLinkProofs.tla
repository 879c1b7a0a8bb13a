------------------------- MODULE RegulatorLinkProofs -------------------------
(***************************************************************************)
(* Proofs about RegulatorLink for every value of its constants.            *)
(***************************************************************************)
EXTENDS RegulatorLink, SequenceTheorems, TLAPS

\* A caller holds a semaphore exactly while it is inside reg_waitCommand.
Owned == \A c \in Callers : cpc[c] = "idle" <=> csem[c] = NoSem

\* A semaphore in use is allocated, and two callers never share one.
Separate ==
  /\ \A c \in Callers : cpc[c] # "idle" => sem[csem[c]] # "free"
  /\ \A c, d \in Callers : cpc[c] # "idle" /\ csem[c] = csem[d] => c = d

\* The caller of m is blocked on the semaphore of m, which is not given yet.
Awaited(m) == cpc[m.caller] = "wait" /\ csem[m.caller] = m.sem /\ sem[m.sem] = "empty"

\* A live command is awaited by its caller; one that has not expired is live, and
\* its caller blocks for Wait - Expire ticks more than the command has left.
QueueSafe ==
  /\ \A i \in DOMAIN queue : queue[i].live => Awaited(queue[i])
  /\ \A i \in DOMAIN queue : queue[i].ttl > 0 =>
       queue[i].live /\ left[queue[i].caller] >= queue[i].ttl + (Wait - Expire)

\* A caller has at most one live command, queued or being executed.
OneEach ==
  /\ \A i, j \in DOMAIN queue :
       queue[i].live /\ queue[j].live /\ queue[i].caller = queue[j].caller => i = j
  /\ cmd # NoCommand /\ cmd.live =>
       \A i \in DOMAIN queue : queue[i].live => queue[i].caller # cmd.caller

\* The task holds a command exactly while it exchanges it, and it dequeues without
\* having waited.
CommandPlace ==
  /\ pc = "exec" <=> cmd # NoCommand
  /\ pc = "exec" => try <= Retries
  /\ pc = "receive" => busy = 0

\* Only the response timeouts of its own attempts age a command being executed.
Paced == pc = "exec" => cmd.ttl + (Retries - try) * RespTimeout >= 1 + busy

\* Between the dequeue and the first timeout of its exchange no time passes.
CommandSafe ==
  pc = "exec" =>
    /\ cmd.live => Awaited(cmd)
    /\ try = Retries => cmd.live /\ left[cmd.caller] > 0 /\ busy = 0

\* A caller that has not yet sent its command has its timer below Expire.
PreparedSafe ==
  \A c \in Callers : cpc[c] = "prepared" => left[c] <= Expire /\ sem[csem[c]] = "empty"

\* What holds as long as no command has completed after its caller had left.
InTime == QueueSafe /\ OneEach /\ CommandSafe /\ PreparedSafe

\* The inductive invariant behind UnexpiredHasCaller, StartsForCaller, WakeIsOwn and
\* EffectBound.
IInv == /\ TypeOK /\ Owned /\ Separate /\ CommandPlace /\ Paced
        /\ ~lateDone => InTime

\* A sequence whose elements are all replaced by elements of S is one over S.
LEMMA MapIsSeq ==
  ASSUME NEW S, NEW q \in Seq(S), NEW f,
         f = [i \in DOMAIN q |-> f[i]], \A i \in DOMAIN q : f[i] \in S
  PROVE  /\ f \in Seq(S) /\ Len(f) = Len(q) /\ DOMAIN f = DOMAIN q
<1>1. DOMAIN q = 1 .. Len(q) /\ Len(q) \in Nat
  OBVIOUS
<1>2. f \in [1 .. Len(q) -> S]
  BY <1>1
<1>3. f \in Seq(S)
  BY <1>1, <1>2, SeqDef
<1>4. QED
  BY <1>1, <1>2, <1>3

\* Orphan only touches the flag that says whether the caller's frame exists.
LEMMA OrphanType ==
  ASSUME NEW m \in Command, NEW c
  PROVE  /\ Orphan(m, c) \in Command
         /\ Orphan(m, c).caller = m.caller /\ Orphan(m, c).sem = m.sem
         /\ Orphan(m, c).ttl = m.ttl /\ Orphan(m, c).op = m.op
         /\ Orphan(m, c).live = (m.live /\ m.caller # c)
BY DEF Orphan, Command

\* Age only touches the time left.
LEMMA AgeType ==
  ASSUME NEW m \in Command
  PROVE  /\ Age(m) \in Command
         /\ Age(m).caller = m.caller /\ Age(m).sem = m.sem /\ Age(m).live = m.live
         /\ Age(m).ttl = Down(m.ttl) /\ Down(m.ttl) \in Int
BY DEF Age, Down, Command

\* Groups of variables a step does not touch keep their types.
LEMMA FrameTask ==
  TypeTask /\ UNCHANGED task => TypeTask'
BY DEF TypeTask, task

LEMMA FrameShared ==
  TypeShared /\ UNCHANGED shared => TypeShared'
BY DEF TypeShared, shared

LEMMA FrameCallers ==
  TypeCallers /\ UNCHANGED callers => TypeCallers'
BY DEF TypeCallers, callers

LEMMA FrameTcp ==
  TypeTcp /\ UNCHANGED tcp => TypeTcp'
BY DEF TypeTcp, tcp

LEMMA FrameDevice ==
  TypeDevice /\ UNCHANGED device => TypeDevice'
BY DEF TypeDevice, device

LEMMA FrameHistory ==
  TypeHistory /\ UNCHANGED history => TypeHistory'
BY DEF TypeHistory, history

\* Every request the regulator takes leaves its registers well typed.
LEMMA RegulatorTakesType ==
  ASSUME TypeTask, TypeShared, TypeDevice, TypeHistory,
         RegulatorTakes \/ UNCHANGED <<device, held>>
  PROVE  TypeDevice' /\ held' \in BOOLEAN
<1>1. devOn' \in BOOLEAN
  BY DEF TypeDevice, RegulatorTakes, device
<1>2. devTarget' \in Targets \cup {Remote}
  BY DEF TypeTask, TypeDevice, RegulatorTakes, device
<1>3. held' \in BOOLEAN
  BY DEF TypeShared, TypeHistory, RegulatorTakes
<1>4. QED
  BY <1>1, <1>2, <1>3 DEF TypeDevice

\* Returning from reg_waitCommand keeps the types of the queue and the command.
LEMMA ReturnType ==
  ASSUME TypeOK, NEW c \in Callers, Return(c)
  PROVE  TypeOK'
<1>1. queue' \in Seq(Command)
  <2>1. \A i \in DOMAIN queue : queue[i] \in Command
    BY DEF TypeOK, TypeShared
  <2>2. queue' = [i \in DOMAIN queue |-> queue'[i]]
    BY DEF Return
  <2>3. \A i \in DOMAIN queue : queue'[i] \in Command
    BY <2>1, OrphanType DEF Return
  <2>4. QED
    BY <2>2, <2>3, MapIsSeq DEF TypeOK, TypeShared
<1>2. cmd' \in Command \cup {NoCommand}
  BY OrphanType DEF Return, TypeOK, TypeTask
<1>3. TypeTask'
  BY <1>2 DEF Return, TypeOK, TypeTask
<1>4. TypeShared'
  BY <1>1 DEF Return, TypeOK, TypeShared
<1>5. TypeCallers'
  BY DEF Return, TypeOK, TypeCallers, Ops
<1>6. QED
  BY <1>3, <1>4, <1>5, FrameTcp, FrameDevice, FrameHistory DEF Return, TypeOK

\* The steps of regulatorConnTSK keep the types.
LEMMA TaskTypeStep ==
  ASSUME TypeOK, RegulatorConnTSK
  PROVE  TypeOK'
<1> USE TimingAssumption
<1> USE FrameTask, FrameShared, FrameCallers, FrameTcp, FrameDevice, FrameHistory
<1>1. TypeTask /\ TypeShared /\ TypeCallers /\ TypeTcp /\ linkUp \in BOOLEAN
      /\ TypeDevice /\ TypeHistory
  BY DEF TypeOK
<1>2. CASE Version
  <2>1. TypeDevice' /\ held' \in BOOLEAN
    BY <1>1, <1>2, RegulatorTakesType DEF Version, Answered, Exhausted
  <2>2. TypeTask'
    BY <1>1, <1>2 DEF Version, Goto, TypeTask, Stages, Exchanges
  <2>3. TypeHistory'
    BY <1>1, <1>2, <2>1 DEF Version, TypeHistory
  <2>4. QED
    BY <1>1, <1>2, <2>1, <2>2, <2>3 DEF Version, TypeOK
<1>3. CASE StartCycle
  <2>1. TypeTask'
    BY <1>1, <1>3 DEF StartCycle, TargetCopy, Goto, TypeTask, TypeShared, Stages, Exchanges
  <2>2. TypeHistory'
    BY <1>1, <1>3 DEF StartCycle, TypeHistory
  <2>3. QED
    BY <1>1, <1>3, <2>1, <2>2 DEF StartCycle, TypeOK
<1>4. CASE WriteTarget
  <2>1. TypeDevice' /\ held' \in BOOLEAN
    BY <1>1, <1>4, RegulatorTakesType DEF WriteTarget, Answered, Exhausted
  <2>2. TypeTask'
    BY <1>1, <1>4
    DEF WriteTarget, Good, CountError, NextErrorCount, Goto, TypeTask, Stages, Exchanges
  <2>3. TypeHistory'
    BY <1>1, <1>4, <2>1 DEF WriteTarget, Good, CountError, TypeHistory
  <2>4. QED
    BY <1>1, <1>4, <2>1, <2>2, <2>3 DEF WriteTarget, TypeOK
<1>5. CASE Receive
  <2>1. queue # <<>> => Head(queue) \in Command /\ Tail(queue) \in Seq(Command)
    BY <1>1 DEF TypeShared
  <2>2. TypeTask'
    BY <1>1, <1>5, <2>1 DEF Receive, Goto, TypeTask, Stages, Exchanges
  <2>3. TypeShared'
    BY <1>1, <1>5, <2>1 DEF Receive, TypeShared
  <2>4. QED
    BY <1>1, <1>5, <2>2, <2>3 DEF Receive, TypeOK
<1>6. CASE Execute
  <2>1. TypeDevice' /\ held' \in BOOLEAN
    BY <1>1, <1>6, RegulatorTakesType DEF Execute, Answered, Exhausted
  <2>2. TypeTask'
    BY <1>1, <1>6 DEF Execute, Goto, TypeTask, Stages, Exchanges
  <2>3. sem' \in [Sems -> {"free", "empty", "given"}]
    BY <1>1, <1>6 DEF Execute, TypeCallers
  <2>4. TypeCallers'
    BY <1>1, <1>6, <2>3 DEF Execute, TypeCallers
  <2>5. lateDone' \in BOOLEAN
    BY <1>6 DEF Execute
  <2>6. TypeHistory'
    BY <1>1, <1>6, <2>1, <2>5 DEF Execute, TypeHistory
  <2>7. QED
    BY <1>1, <1>6, <2>1, <2>2, <2>4, <2>6 DEF Execute, TypeOK
<1>7. CASE ReadEnable
  <2>1. TypeDevice' /\ held' \in BOOLEAN
    BY <1>1, <1>7, RegulatorTakesType DEF ReadEnable, Answered, Exhausted
  <2>2. TypeTask'
    BY <1>1, <1>7
    DEF ReadEnable, Good, CountError, NextErrorCount, Goto, TypeTask, Stages, Exchanges
  <2>3. TypeShared'
    BY <1>1, <1>7 DEF ReadEnable, EnableRead, TypeShared, TypeDevice
  <2>4. TypeHistory'
    BY <1>1, <1>7, <2>1 DEF ReadEnable, Good, CountError, TypeHistory
  <2>5. QED
    BY <1>1, <1>7, <2>1, <2>2, <2>3, <2>4 DEF ReadEnable, TypeOK
<1>8. CASE ReadMeasure
  <2>1. TypeDevice' /\ held' \in BOOLEAN
    BY <1>1, <1>8, RegulatorTakesType DEF ReadMeasure, Answered, Exhausted
  <2>2. TypeTask'
    BY <1>1, <1>8
    DEF ReadMeasure, Good, CountError, NextErrorCount, Goto, TypeTask, Stages, Exchanges
  <2>3. TypeShared'
    BY <1>1, <1>8 DEF ReadMeasure, TypeShared
  <2>4. TypeHistory'
    BY <1>1, <1>8, <2>1 DEF ReadMeasure, Good, CountError, TypeHistory
  <2>5. QED
    BY <1>1, <1>8, <2>1, <2>2, <2>3, <2>4 DEF ReadMeasure, TypeOK
<1>9. CASE CheckSlot
  <2>1. TypeTask'
    BY <1>1, <1>9 DEF CheckSlot, Goto, TypeTask, Stages, Exchanges
  <2>2. QED
    BY <1>1, <1>9, <2>1 DEF CheckSlot, TypeOK
<1>10. CASE RawMessage
  <2>1. TypeDevice' /\ held' \in BOOLEAN
    BY <1>1, <1>10, RegulatorTakesType DEF RawMessage, Answered, Exhausted
  <2>2. TypeTask'
    BY <1>1, <1>10 DEF RawMessage, Goto, TypeTask, Stages, Exchanges
  <2>3. TypeTcp'
    BY <1>1, <1>10 DEF RawMessage, ClearSlot, TypeTcp
  <2>4. TypeHistory'
    BY <1>1, <1>10, <2>1 DEF RawMessage, TypeHistory
  <2>5. QED
    BY <1>1, <1>10, <2>1, <2>2, <2>3, <2>4 DEF RawMessage, TypeOK
<1>11. CASE DelayUntil
  <2>1. TypeTask'
    BY <1>1, <1>11 DEF DelayUntil, TypeTask, Stages, Exchanges
  <2>2. QED
    BY <1>1, <1>11, <2>1 DEF DelayUntil, TypeOK
<1>12. CASE Unanswered
  <2>1. TypeDevice' /\ held' \in BOOLEAN
    BY <1>1, <1>12, RegulatorTakesType DEF Unanswered
  <2>2. TypeTask'
    BY <1>1, <1>12 DEF Unanswered, TypeTask
  <2>3. TypeHistory'
    BY <1>1, <1>12, <2>1 DEF Unanswered, TypeHistory
  <2>4. QED
    BY <1>1, <1>12, <2>1, <2>2, <2>3 DEF Unanswered, TypeOK
<1>13. QED
  BY <1>2, <1>3, <1>4, <1>5, <1>6, <1>7, <1>8, <1>9, <1>10, <1>11, <1>12
  DEF RegulatorConnTSK

\* A tick keeps the types: timers only count down to zero.
LEMMA TickType ==
  ASSUME TypeOK, Tick
  PROVE  TypeOK'
<1>1. queue' \in Seq(Command)
  <2>1. \A i \in DOMAIN queue : queue[i] \in Command
    BY DEF TypeOK, TypeShared
  <2>2. queue' = [i \in DOMAIN queue |-> queue'[i]]
    BY DEF Tick
  <2>3. \A i \in DOMAIN queue : queue'[i] \in Command
    BY <2>1, AgeType DEF Tick
  <2>4. QED
    BY <2>2, <2>3, MapIsSeq DEF TypeOK, TypeShared
<1>2. cmd' \in Command \cup {NoCommand}
  BY DEF Tick, TypeOK, TypeTask, Command
<1>3. TypeTask'
  BY <1>2 DEF Tick, TypeOK, TypeTask
<1>4. TypeShared'
  BY <1>1 DEF Tick, TypeOK, TypeShared
<1>5. TypeCallers'
  BY DEF Tick, Down, TypeOK, TypeCallers
<1>6. TypeTcp'
  BY DEF Tick, Down, TypeOK, TypeTcp
<1>7. QED
  BY <1>3, <1>4, <1>5, <1>6, FrameDevice, FrameHistory DEF Tick, TypeOK

\* The steps of a caller keep the types.
LEMMA CallerTypeStep ==
  ASSUME TypeOK, Owned, NEW c \in Callers, Caller(c)
  PROVE  TypeOK'
<1> USE FrameTask, FrameShared, FrameCallers, FrameTcp, FrameDevice, FrameHistory
<1>1. ASSUME NEW op \in CallerOps, Begin(c, op) PROVE TypeOK'
  <2>1. TypeCallers'
    BY <1>1, CallersAssumption, TimingAssumption DEF Begin, TypeOK, TypeCallers, Ops
  <2>2. QED
    BY <1>1, <2>1 DEF Begin, TypeOK
<1>2. ASSUME Send(c) PROVE TypeOK'
  <2>1. [caller |-> c, op |-> cop[c], sem |-> csem[c], ttl |-> left[c], live |-> TRUE]
          \in Command
    BY <1>2, CallersAssumption DEF TypeOK, TypeCallers, Owned, Command, Send
  <2>2. TypeShared'
    BY <1>2, <2>1 DEF Send, Enqueue, TypeOK, TypeShared
  <2>3. TypeCallers'
    BY <1>2, TimingAssumption DEF Send, TakeTimeout, TypeOK, TypeCallers
  <2>4. QED
    BY <1>2, <2>2, <2>3 DEF Send, TypeOK, task
<1>3. ASSUME Wake(c) \/ GiveUp(c) PROVE TypeOK'
  BY <1>3, ReturnType DEF Wake, GiveUp
<1>4. QED
  BY <1>1, <1>2, <1>3 DEF Caller

\* The steps of the Modbus TCP server keep the types.
LEMMA TcpTypeStep ==
  ASSUME TypeOK, TcpServer
  PROVE  TypeOK'
<1> USE FrameTask, FrameShared, FrameCallers, FrameTcp, FrameDevice, FrameHistory
<1>1. ASSUME NEW op \in RawOps, TcpRequest(op) PROVE TypeOK'
  <2>1. TypeShared' /\ TypeTcp'
    BY <1>1 DEF TcpRequest, TypeOK, TypeShared, TypeTcp
  <2>2. QED
    BY <1>1, <2>1 DEF TcpRequest, TypeOK
<1>2. CASE TcpPost
  <2>1. TypeTcp'
    BY <1>2, TimingAssumption DEF TcpPost, TypeOK, TypeTcp
  <2>2. QED
    BY <1>2, <2>1 DEF TcpPost, TypeOK
<1>3. CASE TcpWake \/ TcpGiveUp
  <2>1. TypeTcp'
    <3>1. tcpSem' \in BOOLEAN
      BY <1>3 DEF TcpWake, TcpGiveUp, TypeOK, TypeTcp
    <3>2. tpc' = "idle" /\ tleft' = 0 /\ UNCHANGED <<slot, tcpResult>> /\ lenSet' \in {lenSet, FALSE}
      BY <1>3 DEF TcpWake, TcpGiveUp, TcpReturn
    <3>3. QED
      BY <3>1, <3>2 DEF TypeOK, TypeTcp
  <2>2. tcpGaveUp' \in BOOLEAN
    BY <1>3 DEF TcpWake, TcpGiveUp, TypeOK, TypeHistory
  <2>3. TypeHistory'
    BY <1>3, <2>2 DEF TcpWake, TcpGiveUp, TcpReturn, TypeOK, TypeHistory
  <2>4. QED
    BY <1>3, <2>1, <2>3 DEF TcpWake, TcpGiveUp, TcpReturn, TypeOK
<1>4. CASE TcpClose
  <2>1. TypeShared' /\ TypeHistory'
    BY <1>4 DEF TcpClose, TypeOK, TypeShared, TypeHistory
  <2>2. QED
    BY <1>4, <2>1 DEF TcpClose, TypeOK
<1>5. QED
  BY <1>1, <1>2, <1>3, <1>4 DEF TcpServer

\* Every variable keeps its type in every step of the tasks and the environment.
LEMMA TypeStep == TypeOK /\ Owned /\ [Next]_vars => TypeOK'
<1> SUFFICES ASSUME TypeOK, Owned, [Next]_vars PROVE TypeOK'
  OBVIOUS
<1> USE FrameTask, FrameShared, FrameCallers, FrameTcp, FrameDevice, FrameHistory
<1>1. ASSUME NEW t \in Targets, SetTarget(t) PROVE TypeOK'
  <2>1. TypeShared'
    BY <1>1 DEF SetTarget, TypeOK, TypeShared
  <2>2. QED
    BY <1>1, <2>1 DEF SetTarget, TypeOK
<1>2. CASE LinkChange
  BY <1>2, TimingAssumption DEF LinkChange, TypeOK
<1>3. CASE Trip
  <2>1. TypeDevice'
    BY <1>3 DEF Trip, TypeOK, TypeDevice
  <2>2. QED
    BY <1>3, <2>1 DEF Trip, TypeOK
<1>4. CASE UNCHANGED vars
  BY <1>4 DEF vars, TypeOK
<1>5. QED
  BY <1>1, <1>2, <1>3, <1>4, TaskTypeStep, CallerTypeStep, TcpTypeStep, TickType DEF Next

------------------------------------------------------------------------------
(* The callers and their semaphores                                        *)

\* The initial states satisfy the inductive invariant.
LEMMA InitIInv == Init => IInv
<1> SUFFICES ASSUME Init PROVE IInv
  OBVIOUS
<1> USE CallersAssumption, TimingAssumption, NoCommandAssumption DEF Init
<1>1. TypeTask /\ TypeShared
  <2>1. queue \in Seq(Command)
    OBVIOUS
  <2>2. TypeTask
    BY DEF TypeTask, Stages, Exchanges
  <2>3. TypeShared
    BY <2>1 DEF TypeShared
  <2>4. QED
    BY <2>2, <2>3
<1>2. TypeCallers /\ TypeTcp
  BY DEF TypeCallers, TypeTcp, Ops
<1>3. linkUp \in BOOLEAN /\ TypeDevice /\ TypeHistory
  BY DEF TypeDevice, TypeHistory
<1>4. Owned /\ Separate
  BY DEF Owned, Separate
<1>5. CommandPlace /\ Paced
  BY DEF CommandPlace, Paced
<1>6. InTime
  BY DEF InTime, QueueSafe, OneEach, CommandSafe, PreparedSafe
<1>7. QED
  BY <1>1, <1>2, <1>3, <1>4, <1>5, <1>6 DEF IInv, TypeOK

\* Steps that leave the callers' semaphores alone keep them owned and separate.
LEMMA OwnedFrame ==
  Owned /\ Separate /\ UNCHANGED callers => Owned' /\ Separate'
BY DEF Owned, Separate, callers

\* A new semaphore is one that nobody uses; a deleted one was used by nobody else.
LEMMA OwnedStep ==
  ASSUME TypeOK, Owned, Separate, [Next]_vars
  PROVE  Owned' /\ Separate'
<1>1. ASSUME RegulatorConnTSK PROVE Owned' /\ Separate'
  <2>1. CASE Execute
    <3>1. UNCHANGED <<cpc, csem>>
      BY <2>1 DEF Execute
    <3>2. \A h \in Sems : sem[h] # "free" => sem'[h] # "free"
      BY <2>1 DEF Execute, TypeOK, TypeCallers
    <3>3. \A c \in Callers : cpc[c] # "idle" => csem[c] \in Sems
      BY DEF Owned, TypeOK, TypeCallers
    <3>4. QED
      BY <3>1, <3>2, <3>3 DEF Owned, Separate
  <2>2. CASE ~Execute
    <3>1. UNCHANGED callers
      BY <1>1, <2>2
      DEF RegulatorConnTSK, Version, StartCycle, WriteTarget, Receive, ReadEnable,
          ReadMeasure, CheckSlot, RawMessage, DelayUntil, Unanswered
    <3>2. QED
      BY <3>1, OwnedFrame
  <2>3. QED
    BY <2>1, <2>2
<1>2. ASSUME NEW c \in Callers, NEW op \in CallerOps, Begin(c, op) PROVE Owned' /\ Separate'
  <2>1. PICK h \in Sems : /\ sem[h] = "free"
                          /\ sem' = [sem EXCEPT ![h] = "empty"]
                          /\ csem' = [csem EXCEPT ![c] = h]
    BY <1>2 DEF Begin, FreeSem
  <2>2. \A d \in Callers \ {c} : UNCHANGED <<cpc[d], csem[d]>>
    BY <1>2, <2>1 DEF Begin, TypeOK, TypeCallers
  <2>3. cpc'[c] = "prepared" /\ csem'[c] = h /\ sem'[h] = "empty" /\ h # NoSem
    BY <1>2, <2>1, CallersAssumption DEF Begin, TypeOK, TypeCallers
  <2>4. \A d \in Callers : cpc[d] # "idle" => csem[d] # h
    BY <2>1 DEF Separate
  <2>5. Owned'
    BY <2>2, <2>3 DEF Owned
  <2>6. \A d \in Callers : cpc'[d] # "idle" => sem'[csem'[d]] # "free"
    BY <2>1, <2>2, <2>3, <2>4 DEF Separate, Owned, TypeOK, TypeCallers
  <2>7. \A d, e \in Callers : cpc'[d] # "idle" /\ csem'[d] = csem'[e] => d = e
    BY <2>2, <2>3, <2>4 DEF Separate, Owned
  <2>8. QED
    BY <2>5, <2>6, <2>7 DEF Separate
<1>3. ASSUME NEW c \in Callers, Send(c) PROVE Owned' /\ Separate'
  <2>1. UNCHANGED <<csem, sem>> /\ cpc[c] = "prepared" /\ cpc' = [cpc EXCEPT ![c] = "wait"]
    BY <1>3 DEF Send
  <2>2. \A d \in Callers : cpc'[d] = "idle" <=> cpc[d] = "idle"
    BY <2>1 DEF TypeOK, TypeCallers
  <2>3. QED
    BY <2>1, <2>2 DEF Owned, Separate
<1>4. ASSUME NEW c \in Callers, cpc[c] = "wait", Return(c) PROVE Owned' /\ Separate'
  <2>1. /\ sem' = [sem EXCEPT ![csem[c]] = "free"]
        /\ csem' = [csem EXCEPT ![c] = NoSem]
        /\ cpc' = [cpc EXCEPT ![c] = "idle"]
    BY <1>4 DEF Return
  <2>2. \A d \in Callers \ {c} : cpc'[d] = cpc[d] /\ csem'[d] = csem[d]
    BY <2>1 DEF TypeOK, TypeCallers
  <2>3. cpc'[c] = "idle" /\ csem'[c] = NoSem
    BY <2>1 DEF TypeOK, TypeCallers
  <2>4. \A d \in Callers \ {c} : cpc[d] # "idle" => csem[d] # csem[c] /\ csem[d] \in Sems
    BY DEF Separate, Owned, TypeOK, TypeCallers
  <2>5. \A d \in Callers \ {c} : cpc[d] # "idle" => sem'[csem[d]] = sem[csem[d]]
    BY <2>1, <2>4 DEF TypeOK, TypeCallers
  <2>6. Owned'
    BY <2>2, <2>3 DEF Owned
  <2>7. Separate'
    BY <2>2, <2>3, <2>5, <2>6 DEF Separate, Owned
  <2>8. QED
    BY <2>6, <2>7
<1>5. ASSUME Tick PROVE Owned' /\ Separate'
  BY <1>5 DEF Tick, Owned, Separate
<1>6. ASSUME TcpServer PROVE Owned' /\ Separate'
  BY <1>6, OwnedFrame
  DEF TcpServer, TcpRequest, TcpPost, TcpWake, TcpGiveUp, TcpReturn, TcpClose
<1>7. ASSUME (\E t \in Targets : SetTarget(t)) \/ LinkChange \/ Trip \/ UNCHANGED vars
      PROVE Owned' /\ Separate'
  BY <1>7, OwnedFrame DEF SetTarget, LinkChange, Trip, vars
<1>8. QED
  BY <1>1, <1>2, <1>3, <1>4, <1>5, <1>6, <1>7 DEF Next, Caller, Wake, GiveUp

------------------------------------------------------------------------------
(* The command being executed                                              *)

\* Steps that leave the command and the task's place alone.
LEMMA PlaceFrame ==
  CommandPlace /\ Paced /\ UNCHANGED <<pc, try, busy, cmd>> => CommandPlace' /\ Paced'
BY DEF CommandPlace, Paced

\* A step of the task from one exchange that is not a command's to another one.
LEMMA PlaceElsewhere ==
  ASSUME CommandPlace, pc # "exec", UNCHANGED cmd, pc' # "exec",
         pc' = "receive" => busy' = 0
  PROVE  CommandPlace' /\ Paced'
BY DEF CommandPlace, Paced

\* One attempt costs at most one response timeout.
LEMMA OneAttempt ==
  ASSUME NEW a \in Int, NEW r \in Int
  PROVE  (a + 1) * r = a * r + r
OBVIOUS

\* The task's own steps keep the pace of a command.
LEMMA TaskPlace ==
  ASSUME TypeOK, CommandPlace, Paced, RegulatorConnTSK
  PROVE  CommandPlace' /\ Paced'
<1> USE TimingAssumption
<1>1. CASE Unanswered
  <2>1. /\ UNCHANGED <<pc, cmd>> /\ try' = try - 1 /\ busy = 0
        /\ busy' = 0 \/ busy' = RespTimeout
        /\ pc # "receive"
    BY <1>1 DEF Unanswered, Exchanges
  <2>2. CommandPlace'
    BY <2>1 DEF CommandPlace, TypeOK, TypeTask
  <2>3. ASSUME pc = "exec"
        PROVE  cmd.ttl + (Retries - (try - 1)) * RespTimeout >= 1 + busy'
    <3>1. cmd \in Command /\ cmd.ttl \in Int
      BY <2>3 DEF CommandPlace, TypeOK, TypeTask, Command
    <3>2. try \in Nat /\ Retries - try \in Int
      BY DEF TypeOK, TypeTask
    <3>3. Retries - (try - 1) = (Retries - try) + 1
      BY <3>2
    <3>4. ((Retries - try) + 1) * RespTimeout = (Retries - try) * RespTimeout + RespTimeout
      BY <3>2, OneAttempt
    <3>5. cmd.ttl + (Retries - try) * RespTimeout >= 1
      BY <2>1, <2>3 DEF Paced
    <3>6. (Retries - try) * RespTimeout \in Int
      BY <3>2
    <3>7. QED
      BY <2>1, <3>1, <3>3, <3>4, <3>5, <3>6
  <2>4. QED
    BY <2>1, <2>2, <2>3 DEF Paced
<1>2. CASE Receive
  <2>1. pc = "receive" /\ busy = 0 /\ cmd = NoCommand /\ busy' = busy
    BY <1>2 DEF Receive, Goto, CommandPlace
  <2>2. CASE queue = <<>> \/ Expired(Head(queue))
    BY <1>2, <2>1, <2>2 DEF Receive, Goto, CommandPlace, Paced
  <2>3. CASE ~(queue = <<>> \/ Expired(Head(queue)))
    <3>1. Head(queue) \in Command /\ Head(queue).ttl \in Int
      <4>1. Head(queue) \in Command
        BY <2>3 DEF TypeOK, TypeShared
      <4>2. QED
        BY <4>1 DEF Command
    <3>2. Head(queue) # NoCommand /\ Head(queue).ttl > 0
      BY <2>3, <3>1, NoCommandAssumption DEF Expired
    <3>3. pc' = "exec" /\ cmd' = Head(queue) /\ try' = Retries
      BY <1>2, <2>3 DEF Receive, Goto
    <3>4. (Retries - try') * RespTimeout = 0
      BY <3>3
    <3>5. QED
      BY <2>1, <3>1, <3>2, <3>3, <3>4 DEF CommandPlace, Paced
  <2>4. QED
    BY <2>2, <2>3
<1>3. CASE Execute
  BY <1>3 DEF Execute, Goto, CommandPlace, Paced
<1>4. CASE Version \/ StartCycle \/ WriteTarget \/ ReadEnable \/ ReadMeasure
           \/ CheckSlot \/ RawMessage \/ DelayUntil
  BY <1>4, PlaceElsewhere
  DEF Version, StartCycle, WriteTarget, ReadEnable, ReadMeasure, CheckSlot, RawMessage,
      DelayUntil, Goto, Answered, Exhausted
<1>5. QED
  BY <1>1, <1>2, <1>3, <1>4 DEF RegulatorConnTSK

\* The pace is kept by every step: a tick takes one off both sides.
LEMMA PlaceStep ==
  ASSUME TypeOK, CommandPlace, Paced, [Next]_vars
  PROVE  CommandPlace' /\ Paced'
<1>1. ASSUME NEW c \in Callers, Return(c) PROVE CommandPlace' /\ Paced'
  <2>1. UNCHANGED <<pc, try, busy>>
    BY <1>1 DEF Return
  <2>2. /\ cmd' = NoCommand <=> cmd = NoCommand
        /\ cmd # NoCommand => cmd'.ttl = cmd.ttl
    BY <1>1, OrphanType, NoCommandAssumption DEF Return, TypeOK, TypeTask
  <2>3. QED
    BY <2>1, <2>2 DEF CommandPlace, Paced
<1>2. ASSUME NEW c \in Callers, Caller(c) PROVE CommandPlace' /\ Paced'
  <2>1. CASE (\E op \in CallerOps : Begin(c, op)) \/ Send(c)
    BY <2>1, PlaceFrame DEF Begin, Send, task
  <2>2. CASE Wake(c) \/ GiveUp(c)
    BY <2>2, <1>1 DEF Wake, GiveUp
  <2>3. QED
    BY <1>2, <2>1, <2>2 DEF Caller
<1>3. CASE Tick
  <2>1. UNCHANGED <<pc, try>> /\ busy > 0 /\ busy' = busy - 1
    BY <1>3 DEF Tick
  <2>2. cmd' = NoCommand <=> cmd = NoCommand
    BY <1>3, NoCommandAssumption DEF Tick, TypeOK, TypeTask, Command
  <2>3. cmd # NoCommand => cmd'.ttl = cmd.ttl - 1 /\ cmd.ttl \in Int
    BY <1>3 DEF Tick, TypeOK, TypeTask, Command
  <2>4. CommandPlace'
    BY <2>1, <2>2 DEF CommandPlace
  <2>5. (Retries - try) * RespTimeout \in Int /\ busy \in Int
    BY TimingAssumption DEF TypeOK, TypeTask
  <2>6. QED
    BY <2>1, <2>3, <2>4, <2>5 DEF Paced, CommandPlace
<1>4. ASSUME TcpServer \/ (\E t \in Targets : SetTarget(t)) \/ LinkChange \/ Trip
             \/ UNCHANGED vars
      PROVE  CommandPlace' /\ Paced'
  BY <1>4, PlaceFrame
  DEF TcpServer, TcpRequest, TcpPost, TcpWake, TcpGiveUp, TcpReturn, TcpClose, SetTarget,
      LinkChange, Trip, vars, task
<1>5. QED
  BY <1>2, <1>3, <1>4, TaskPlace DEF Next

------------------------------------------------------------------------------
(* Live commands and the callers that wait for them                        *)

\* Steps that leave the queue, the callers and the command alone.
LEMMA InTimeFrame ==
  ASSUME InTime, UNCHANGED <<callers, queue, cmd>>, CommandSafe'
  PROVE  InTime'
BY DEF InTime, QueueSafe, OneEach, PreparedSafe, Awaited, callers

\* A task step that ends in a stage other than the execution of a command.
LEMMA TaskInTime ==
  ASSUME TypeOK, CommandPlace, InTime, RegulatorConnTSK, ~Receive, ~Execute
  PROVE  InTime'
<1>1. CASE Unanswered
  <2>1. UNCHANGED <<callers, queue, cmd, pc>> /\ try' = try - 1 /\ try > 0
    BY <1>1 DEF Unanswered, shared
  <2>2. try' # Retries \/ pc # "exec"
    BY <2>1, TimingAssumption DEF CommandPlace, TypeOK, TypeTask
  <2>3. CommandSafe'
    BY <2>1, <2>2 DEF InTime, CommandSafe, Awaited, callers
  <2>4. QED
    BY <2>1, <2>3, InTimeFrame
<1>2. CASE ~Unanswered
  <2>1. UNCHANGED <<callers, queue, cmd>> /\ pc' # "exec"
    BY <1>2
    DEF RegulatorConnTSK, Version, StartCycle, WriteTarget, ReadEnable, ReadMeasure,
        CheckSlot, RawMessage, DelayUntil, Goto, shared
  <2>2. CommandSafe'
    BY <2>1 DEF CommandSafe
  <2>3. QED
    BY <2>1, <2>2, InTimeFrame
<1>3. QED
  BY <1>1, <1>2

\* A command that is taken from the queue and starts has a caller that still waits.
LEMMA ReceiveInTime ==
  ASSUME TypeOK, Owned, CommandPlace, InTime, Receive
  PROVE  InTime'
<1>1. UNCHANGED callers /\ pc = "receive" /\ busy = 0 /\ busy' = busy /\ cmd = NoCommand
  BY DEF Receive, Goto, CommandPlace
<1>2. CASE queue = <<>>
  <2>1. UNCHANGED <<queue, cmd>> /\ pc' # "exec"
    BY <1>2 DEF Receive, Goto
  <2>2. QED
    BY <1>1, <2>1, InTimeFrame DEF CommandSafe
<1>3. CASE queue # <<>>
  <2>1. /\ queue' = Tail(queue) /\ queue \in Seq(Command) /\ Len(queue) > 0
        /\ DOMAIN queue = 1 .. Len(queue) /\ DOMAIN queue' = 1 .. Len(queue) - 1
        /\ Head(queue) = queue[1]
    BY <1>3 DEF Receive, TypeOK, TypeShared
  <2>2. \A i \in DOMAIN queue' : i + 1 \in DOMAIN queue /\ queue'[i] = queue[i + 1]
    BY <2>1
  <2>3. \A i \in DOMAIN queue : queue[i] \in Command
    BY DEF TypeOK, TypeShared
  <2>4. QueueSafe'
    BY <1>1, <2>2 DEF InTime, QueueSafe, Awaited, callers
  <2>5. \A i, j \in DOMAIN queue' :
          queue'[i].live /\ queue'[j].live /\ queue'[i].caller = queue'[j].caller => i = j
    BY <2>1, <2>2 DEF InTime, OneEach
  <2>6. PreparedSafe'
    BY <1>1 DEF InTime, PreparedSafe, callers
  <2>7. CASE Expired(queue[1])
    <3>1. cmd' = NoCommand /\ pc' # "exec"
      BY <1>1, <1>3, <2>1, <2>7 DEF Receive, Goto
    <3>2. QED
      BY <2>4, <2>5, <2>6, <3>1 DEF InTime, OneEach, CommandSafe
  <2>8. CASE ~Expired(queue[1])
    <3>1. cmd' = queue[1] /\ 1 \in DOMAIN queue
      BY <1>3, <2>1, <2>8 DEF Receive, Goto
    <3>2. queue[1].ttl > 0 /\ queue[1].ttl \in Int
      BY <2>3, <2>8, <3>1 DEF Expired, Command
    <3>3. queue[1].live /\ left[queue[1].caller] >= queue[1].ttl + (Wait - Expire)
      BY <3>1, <3>2 DEF InTime, QueueSafe
    <3>4. Awaited(queue[1])
      BY <3>1, <3>3 DEF InTime, QueueSafe
    <3>5. left[queue[1].caller] > 0
      <4>1. left[queue[1].caller] \in Nat
        BY <2>3, <3>1 DEF TypeOK, TypeCallers, Command
      <4>2. QED
        BY <3>2, <3>3, <4>1, TimingAssumption
    <3>6. CommandSafe'
      BY <1>1, <3>1, <3>3, <3>4, <3>5 DEF CommandSafe, Awaited, callers
    <3>7. \A i \in DOMAIN queue' : queue'[i].live => queue'[i].caller # cmd'.caller
      <4>1. ASSUME NEW i \in DOMAIN queue', queue'[i].live,
                   queue'[i].caller = queue[1].caller
            PROVE  FALSE
        <5>1. i + 1 \in DOMAIN queue /\ queue'[i] = queue[i + 1] /\ i + 1 # 1
          BY <2>1, <2>2, <4>1
        <5>2. QED
          BY <3>1, <3>3, <4>1, <5>1 DEF InTime, OneEach
      <4>2. QED
        BY <3>1, <4>1
    <3>8. QED
      BY <2>4, <2>5, <2>6, <3>6, <3>7 DEF InTime, OneEach
  <2>9. QED
    BY <2>7, <2>8
<1>4. QED
  BY <1>2, <1>3

\* The end of a command whose caller waits gives only that caller's semaphore.
LEMMA ExecuteInTime ==
  ASSUME TypeOK, Owned, Separate, CommandPlace, InTime, Execute, ~lateDone'
  PROVE  InTime'
<1>1. /\ UNCHANGED <<cpc, csem, left, queue>> /\ cmd' = NoCommand /\ pc' # "exec"
      /\ sem' = [sem EXCEPT ![cmd.sem] = IF @ = "free" THEN "free" ELSE "given"]
      /\ pc = "exec" /\ cmd.live
  BY DEF Execute, Goto, shared, Answered, Exhausted
<1>2. cmd # NoCommand /\ cmd \in Command /\ cmd.caller \in Callers
  BY <1>1 DEF CommandPlace, TypeOK, TypeTask, Command
<1>3. cpc[cmd.caller] = "wait" /\ csem[cmd.caller] = cmd.sem
  BY <1>1 DEF InTime, CommandSafe, Awaited
<1>4. \A h \in Sems : h # cmd.sem => sem'[h] = sem[h]
  BY <1>1 DEF TypeOK, TypeCallers
<1>5. \A c \in Callers : cpc[c] # "idle" /\ c # cmd.caller =>
        csem[c] # cmd.sem /\ csem[c] \in Sems
  BY <1>2, <1>3 DEF Separate, Owned, TypeOK, TypeCallers
<1>6. QueueSafe'
  <2>1. ASSUME NEW i \in DOMAIN queue, queue[i].live PROVE Awaited(queue[i])'
    <3>1. queue[i] \in Command /\ queue[i].caller \in Callers
      <4>1. queue[i] \in Command
        BY DEF TypeOK, TypeShared
      <4>2. QED
        BY <4>1 DEF Command
    <3>2. queue[i].caller # cmd.caller /\ Awaited(queue[i])
      BY <1>1, <1>2, <2>1 DEF InTime, OneEach, QueueSafe
    <3>3. QED
      BY <1>1, <1>4, <1>5, <3>1, <3>2 DEF Awaited
  <2>2. QED
    BY <1>1, <2>1 DEF InTime, QueueSafe, Awaited
<1>7. PreparedSafe'
  <2>1. \A c \in Callers : cpc[c] = "prepared" => c # cmd.caller
    BY <1>3
  <2>2. QED
    BY <1>1, <1>4, <1>5, <2>1 DEF InTime, PreparedSafe
<1>8. OneEach' /\ CommandSafe'
  BY <1>1 DEF InTime, OneEach, CommandSafe
<1>9. QED
  BY <1>6, <1>7, <1>8 DEF InTime

\* A caller that starts a call takes a semaphore that no command points to.
LEMMA BeginInTime ==
  ASSUME TypeOK, Owned, Separate, CommandPlace, InTime,
         NEW c \in Callers, NEW op \in CallerOps, Begin(c, op)
  PROVE  InTime'
<1>1. PICK h \in Sems : /\ sem[h] = "free"
                        /\ sem' = [sem EXCEPT ![h] = "empty"]
                        /\ csem' = [csem EXCEPT ![c] = h]
  BY DEF Begin, FreeSem
<1>2. UNCHANGED <<queue, cmd, pc, try, busy>> /\ cpc[c] = "idle"
  BY DEF Begin, task, shared
<1>3. \A d \in Callers \ {c} : UNCHANGED <<cpc[d], csem[d], left[d]>>
  BY <1>1 DEF Begin, TypeOK, TypeCallers
<1>4. cpc'[c] = "prepared" /\ csem'[c] = h /\ sem'[h] = "empty" /\ left'[c] = Expire
  BY <1>1 DEF Begin, TypeOK, TypeCallers
<1>5. \A g \in Sems : g # h => sem'[g] = sem[g]
  BY <1>1 DEF TypeOK, TypeCallers
<1>6. ASSUME NEW m \in Command, Awaited(m)
      PROVE  Awaited(m)' /\ left'[m.caller] = left[m.caller]
  <2>1. m.caller \in Callers /\ m.caller # c /\ m.sem \in Sems /\ m.sem # h
    BY <1>1, <1>2, <1>6 DEF Awaited, Command
  <2>2. QED
    BY <1>3, <1>5, <1>6, <2>1 DEF Awaited
<1>7. \A i \in DOMAIN queue : queue[i] \in Command
  BY DEF TypeOK, TypeShared
<1>8. QueueSafe'
  BY <1>2, <1>6, <1>7 DEF InTime, QueueSafe
<1>9. CommandSafe'
  <2>1. pc = "exec" => cmd \in Command
    BY DEF CommandPlace, TypeOK, TypeTask
  <2>2. QED
    BY <1>2, <1>6, <2>1 DEF InTime, CommandSafe
<1>10. PreparedSafe'
  <2>1. ASSUME NEW d \in Callers, cpc'[d] = "prepared"
        PROVE  left'[d] <= Expire /\ sem'[csem'[d]] = "empty"
    <3>1. CASE d = c
      BY <1>4, <3>1, TimingAssumption
    <3>2. CASE d # c
      <4>1. cpc[d] = "prepared" /\ csem'[d] = csem[d] /\ left'[d] = left[d]
        BY <1>3, <2>1, <3>2
      <4>2. csem[d] # h /\ csem[d] \in Sems
        BY <1>1, <4>1 DEF Separate, Owned, TypeOK, TypeCallers
      <4>3. QED
        BY <1>5, <4>1, <4>2 DEF InTime, PreparedSafe
    <3>3. QED
      BY <3>1, <3>2
  <2>2. QED
    BY <2>1 DEF PreparedSafe
<1>11. OneEach'
  BY <1>2 DEF InTime, OneEach
<1>12. QED
  BY <1>8, <1>9, <1>10, <1>11 DEF InTime

\* A command enters the queue with less time left than its caller will wait.
LEMMA SendInTime ==
  ASSUME TypeOK, Owned, Separate, CommandPlace, InTime, NEW c \in Callers, Send(c)
  PROVE  InTime'
<1> DEFINE m == [caller |-> c, op |-> cop[c], sem |-> csem[c], ttl |-> left[c],
                 live |-> TRUE]
<1>1. /\ UNCHANGED <<cmd, pc, try, busy, csem, sem>> /\ cpc[c] = "prepared"
      /\ cpc' = [cpc EXCEPT ![c] = "wait"] /\ left' = [left EXCEPT ![c] = Wait]
  BY DEF Send, TakeTimeout, task
<1>2. /\ \A d \in Callers \ {c} : UNCHANGED <<cpc[d], left[d]>>
      /\ cpc'[c] = "wait" /\ left'[c] = Wait
  BY <1>1 DEF TypeOK, TypeCallers
<1>3. ASSUME NEW n \in Command, Awaited(n)
      PROVE  Awaited(n)' /\ left'[n.caller] = left[n.caller] /\ n.caller # c
  <2>1. n.caller \in Callers /\ n.caller # c
    BY <1>1, <1>3 DEF Awaited, Command
  <2>2. QED
    BY <1>1, <1>2, <1>3, <2>1 DEF Awaited
<1>4. /\ cpc'[c] = "wait" /\ csem'[c] = csem[c] /\ sem'[csem[c]] = "empty"
      /\ m.live /\ m.caller = c /\ m.sem = csem[c]
  BY <1>1, <1>2 DEF InTime, PreparedSafe
<1>5. left'[c] >= m.ttl + (Wait - Expire)
  <2>1. left[c] \in Nat /\ left[c] <= Expire
    BY <1>1 DEF InTime, PreparedSafe, TypeOK, TypeCallers
  <2>2. QED
    BY <1>2, <2>1, TimingAssumption
<1>6. \A i \in DOMAIN queue : queue[i] \in Command
  BY DEF TypeOK, TypeShared
<1>7. queue' = queue \/ queue' = Append(queue, m)
  BY DEF Send, Enqueue
<1>8. CommandSafe'
  <2>1. pc = "exec" => cmd \in Command
    BY DEF CommandPlace, TypeOK, TypeTask
  <2>2. QED
    BY <1>1, <1>3, <2>1 DEF InTime, CommandSafe
<1>9. PreparedSafe'
  BY <1>1, <1>2 DEF InTime, PreparedSafe
<1>10. ASSUME NEW i \in DOMAIN queue'
       PROVE  (i \in DOMAIN queue /\ queue'[i] = queue[i]) \/ queue'[i] = m
  BY <1>7 DEF TypeOK, TypeShared
<1>11. QueueSafe'
  <2>1. ASSUME NEW i \in DOMAIN queue'
        PROVE  /\ queue'[i].live => Awaited(queue[i])'
               /\ queue'[i].ttl > 0 =>
                    /\ queue'[i].live
                    /\ left'[queue'[i].caller] >= queue'[i].ttl + (Wait - Expire)
    <3>1. CASE i \in DOMAIN queue /\ queue'[i] = queue[i]
      BY <1>3, <1>6, <3>1 DEF InTime, QueueSafe, Awaited
    <3>2. CASE queue'[i] = m
      BY <1>4, <1>5, <3>2 DEF Awaited
    <3>3. QED
      BY <1>10, <3>1, <3>2
  <2>2. QED
    BY <2>1 DEF QueueSafe
<1>12. \A i \in DOMAIN queue : queue[i].live => queue[i].caller # c
  BY <1>3, <1>6 DEF InTime, QueueSafe
<1>13. cmd # NoCommand /\ cmd.live => cmd.caller # c
  BY <1>3 DEF InTime, CommandSafe, CommandPlace, TypeOK, TypeTask
<1>14. OneEach'
  <2>1. ASSUME NEW i \in DOMAIN queue', NEW j \in DOMAIN queue',
               queue'[i].live, queue'[j].live, queue'[i].caller = queue'[j].caller
        PROVE  i = j
    <3>1. CASE queue' = queue
      BY <2>1, <3>1 DEF InTime, OneEach
    <3>2. CASE queue' = Append(queue, m)
      <4>1. \A k \in DOMAIN queue' :
              \/ k \in DOMAIN queue /\ queue'[k] = queue[k]
              \/ k = Len(queue) + 1 /\ queue'[k] = m
        BY <3>2 DEF TypeOK, TypeShared
      <4>2. QED
        BY <1>4, <1>12, <2>1, <4>1 DEF InTime, OneEach
    <3>3. QED
      BY <1>7, <3>1, <3>2
  <2>2. cmd' # NoCommand /\ cmd'.live =>
          \A i \in DOMAIN queue' : queue'[i].live => queue'[i].caller # cmd'.caller
    BY <1>1, <1>4, <1>10, <1>13 DEF InTime, OneEach
  <2>3. QED
    BY <2>1, <2>2 DEF OneEach
<1>15. QED
  BY <1>8, <1>9, <1>11, <1>14 DEF InTime

\* A caller leaves only when nothing that may still start points into its frame.
LEMMA ReturnInTime ==
  ASSUME TypeOK, Owned, Separate, CommandPlace, InTime,
         NEW c \in Callers, cpc[c] = "wait", Return(c),
         left[c] = 0 \/ sem[csem[c]] = "given"
  PROVE  InTime'
<1>1. /\ sem' = [sem EXCEPT ![csem[c]] = "free"]
      /\ csem' = [csem EXCEPT ![c] = NoSem]
      /\ cpc' = [cpc EXCEPT ![c] = "idle"]
      /\ left' = [left EXCEPT ![c] = 0]
      /\ queue' = [i \in DOMAIN queue |-> Orphan(queue[i], c)]
      /\ cmd' = IF cmd = NoCommand THEN NoCommand ELSE Orphan(cmd, c)
      /\ UNCHANGED <<pc, try, busy>>
  BY DEF Return
<1>2. \A d \in Callers \ {c} : UNCHANGED <<cpc[d], csem[d], left[d]>>
  BY <1>1 DEF TypeOK, TypeCallers
<1>3. \A d \in Callers \ {c} : cpc[d] # "idle" => csem[d] # csem[c] /\ csem[d] \in Sems
  BY DEF Separate, Owned, TypeOK, TypeCallers
<1>4. \A d \in Callers \ {c} : cpc[d] # "idle" => sem'[csem[d]] = sem[csem[d]]
  BY <1>1, <1>3 DEF TypeOK, TypeCallers
<1>5. \A i \in DOMAIN queue : queue[i] \in Command
  BY DEF TypeOK, TypeShared
<1>6. ASSUME NEW n \in Command, Awaited(n), n.caller # c
      PROVE  Awaited(n)' /\ left'[n.caller] = left[n.caller]
  <2>1. n.caller \in Callers \ {c}
    BY <1>6 DEF Command
  <2>2. QED
    BY <1>2, <1>4, <1>6, <2>1 DEF Awaited
<1>7. ASSUME NEW n \in Command, Awaited(n), n.caller = c
      PROVE  left[c] = 0
  BY <1>7 DEF Awaited
<1>8. \A i \in DOMAIN queue :
        /\ queue'[i].caller = queue[i].caller /\ queue'[i].sem = queue[i].sem
        /\ queue'[i].ttl = queue[i].ttl
        /\ queue'[i].live = (queue[i].live /\ queue[i].caller # c)
  BY <1>1, <1>5, OrphanType
<1>9. DOMAIN queue' = DOMAIN queue
  BY <1>1
<1>10. QueueSafe'
  <2>1. ASSUME NEW i \in DOMAIN queue, queue'[i].live PROVE Awaited(queue[i])'
    <3>1. queue[i] \in Command /\ queue[i].live /\ queue[i].caller # c
      BY <1>5, <1>8, <2>1
    <3>2. Awaited(queue[i])
      BY <3>1 DEF InTime, QueueSafe
    <3>3. /\ cpc'[queue[i].caller] = "wait" /\ csem'[queue[i].caller] = queue[i].sem
          /\ sem'[queue[i].sem] = "empty"
      BY <1>6, <3>1, <3>2 DEF Awaited
    <3>4. QED
      BY <1>8, <3>3 DEF Awaited
  <2>2. ASSUME NEW i \in DOMAIN queue, queue'[i].ttl > 0
        PROVE  queue'[i].live /\ left'[queue'[i].caller] >= queue'[i].ttl + (Wait - Expire)
    <3>1. /\ queue[i].live /\ Awaited(queue[i])
          /\ left[queue[i].caller] >= queue[i].ttl + (Wait - Expire)
      BY <1>8, <2>2 DEF InTime, QueueSafe
    <3>2. queue[i] \in Command /\ queue[i].ttl > 0
      BY <1>5, <1>8, <2>2
    <3>3. queue[i].ttl \in Int
      BY <3>2 DEF Command
    <3>4. queue[i].caller # c
      <4>1. ASSUME queue[i].caller = c PROVE FALSE
        <5>1. left[c] = 0
          BY <1>7, <3>1, <3>2, <4>1
        <5>2. QED
          BY <3>1, <3>2, <3>3, <4>1, <5>1, TimingAssumption
      <4>2. QED
        BY <4>1
    <3>5. left'[queue[i].caller] = left[queue[i].caller]
      BY <1>6, <3>1, <3>2, <3>4
    <3>6. QED
      BY <1>8, <3>1, <3>4, <3>5
  <2>3. QED
    BY <1>9, <2>1, <2>2 DEF QueueSafe
<1>11. CommandSafe'
  <2>1. ASSUME pc = "exec" PROVE CommandSafe'
    <3>1. cmd \in Command /\ cmd # NoCommand
      BY <2>1 DEF CommandPlace, TypeOK, TypeTask
    <3>2. /\ cmd'.caller = cmd.caller /\ cmd'.sem = cmd.sem
          /\ cmd'.live = (cmd.live /\ cmd.caller # c)
      BY <1>1, <3>1, OrphanType
    <3>3. cmd'.live => Awaited(cmd)'
      BY <1>6, <2>1, <3>1, <3>2 DEF InTime, CommandSafe, Awaited
    <3>4. ASSUME try = Retries PROVE cmd'.live /\ left'[cmd'.caller] > 0
      <4>1. cmd.live /\ left[cmd.caller] > 0 /\ Awaited(cmd)
        BY <2>1, <3>4 DEF InTime, CommandSafe
      <4>2. cmd.caller # c
        BY <1>7, <3>1, <4>1
      <4>3. left'[cmd.caller] = left[cmd.caller]
        BY <1>6, <3>1, <4>1, <4>2
      <4>4. QED
        BY <3>2, <4>1, <4>2, <4>3
    <3>5. try = Retries => busy = 0
      BY <2>1 DEF InTime, CommandSafe
    <3>6. QED
      BY <1>1, <3>3, <3>4, <3>5 DEF CommandSafe
  <2>2. QED
    BY <1>1, <2>1 DEF CommandSafe
<1>12. OneEach'
  <2>1. \A i, j \in DOMAIN queue :
          queue'[i].live /\ queue'[j].live /\ queue'[i].caller = queue'[j].caller => i = j
    BY <1>8 DEF InTime, OneEach
  <2>2. cmd' # NoCommand /\ cmd'.live => cmd # NoCommand /\ cmd.live /\ cmd'.caller = cmd.caller
    BY <1>1, OrphanType DEF TypeOK, TypeTask
  <2>3. cmd' # NoCommand /\ cmd'.live =>
          \A i \in DOMAIN queue : queue'[i].live => queue'[i].caller # cmd'.caller
    BY <1>8, <2>2 DEF InTime, OneEach
  <2>4. QED
    BY <1>9, <2>1, <2>3 DEF OneEach
<1>13. PreparedSafe'
  <2>1. ASSUME NEW d \in Callers, cpc'[d] = "prepared"
        PROVE  left'[d] <= Expire /\ sem'[csem'[d]] = "empty"
    <3>1. d # c
      BY <1>1, <2>1 DEF TypeOK, TypeCallers
    <3>2. QED
      BY <1>2, <1>4, <2>1, <3>1 DEF InTime, PreparedSafe
  <2>2. QED
    BY <2>1 DEF PreparedSafe
<1>14. QED
  BY <1>10, <1>11, <1>12, <1>13 DEF InTime

\* A tick takes as much from a queued command as from its caller's timer.
LEMMA TickInTime ==
  ASSUME TypeOK, Owned, CommandPlace, InTime, Tick
  PROVE  InTime'
<1>1. /\ UNCHANGED <<cpc, csem, sem, pc, try>> /\ busy > 0
      /\ left' = [c \in Callers |-> Down(left[c])]
      /\ queue' = [i \in DOMAIN queue |-> Age(queue[i])]
      /\ cmd' = IF cmd = NoCommand THEN NoCommand ELSE [cmd EXCEPT !.ttl = @ - 1]
  BY DEF Tick
<1>2. \A i \in DOMAIN queue : queue[i] \in Command
  BY DEF TypeOK, TypeShared
<1>3. \A i \in DOMAIN queue :
        /\ queue'[i].caller = queue[i].caller /\ queue'[i].sem = queue[i].sem
        /\ queue'[i].live = queue[i].live /\ queue'[i].ttl = Down(queue[i].ttl)
  BY <1>1, <1>2, AgeType
<1>4. DOMAIN queue' = DOMAIN queue
  BY <1>1
<1>5. QueueSafe'
  <2>1. ASSUME NEW i \in DOMAIN queue, queue'[i].live PROVE Awaited(queue[i])'
    BY <1>1, <1>3, <2>1 DEF InTime, QueueSafe, Awaited
  <2>2. ASSUME NEW i \in DOMAIN queue, queue'[i].ttl > 0
        PROVE  queue'[i].live /\ left'[queue'[i].caller] >= queue'[i].ttl + (Wait - Expire)
    <3>1. queue[i].ttl \in Int /\ queue[i].caller \in Callers
      <4>1. queue[i] \in Command
        BY <1>2
      <4>2. QED
        BY <4>1 DEF Command
    <3>2. queue[i].ttl > 0 /\ queue'[i].ttl = queue[i].ttl - 1
      BY <1>3, <2>2, <3>1 DEF Down
    <3>3. queue[i].live /\ left[queue[i].caller] >= queue[i].ttl + (Wait - Expire)
      BY <3>2 DEF InTime, QueueSafe
    <3>4. left[queue[i].caller] \in Nat /\ left'[queue[i].caller] = Down(left[queue[i].caller])
      BY <1>1, <3>1 DEF TypeOK, TypeCallers
    <3>5. left'[queue[i].caller] >= queue'[i].ttl + (Wait - Expire)
      BY <3>1, <3>2, <3>3, <3>4, TimingAssumption DEF Down
    <3>6. QED
      BY <1>3, <3>3, <3>5
  <2>3. QED
    BY <1>4, <2>1, <2>2 DEF QueueSafe
<1>6. pc = "exec" => /\ try # Retries
                     /\ cmd' # NoCommand => cmd # NoCommand
  BY <1>1 DEF InTime, CommandSafe
<1>7. cmd # NoCommand =>
        cmd'.caller = cmd.caller /\ cmd'.sem = cmd.sem /\ cmd'.live = cmd.live
  BY <1>1 DEF TypeOK, TypeTask, Command
<1>8. CommandSafe'
  BY <1>1, <1>6, <1>7 DEF InTime, CommandSafe, CommandPlace, Awaited
<1>9. OneEach'
  <2>1. cmd' # NoCommand => cmd # NoCommand
    BY <1>1
  <2>2. QED
    BY <1>3, <1>4, <1>7, <2>1 DEF InTime, OneEach
<1>10. PreparedSafe'
  <2>1. ASSUME NEW d \in Callers, cpc[d] = "prepared"
        PROVE  left'[d] <= Expire /\ sem[csem[d]] = "empty"
    <3>1. left[d] <= Expire /\ sem[csem[d]] = "empty"
      BY <2>1 DEF InTime, PreparedSafe
    <3>2. left[d] \in Nat /\ left'[d] = Down(left[d])
      BY <1>1 DEF TypeOK, TypeCallers
    <3>3. QED
      BY <3>1, <3>2, TimingAssumption DEF Down
  <2>2. QED
    BY <1>1, <2>1 DEF PreparedSafe
<1>11. QED
  BY <1>5, <1>8, <1>9, <1>10 DEF InTime

------------------------------------------------------------------------------
(* The theorems                                                            *)

\* InTime is kept by every step after which no command has completed late.
LEMMA InTimeStep ==
  ASSUME IInv, [Next]_vars, ~lateDone'
  PROVE  InTime'
<1>1. TypeOK /\ Owned /\ Separate /\ CommandPlace
  BY DEF IInv
<1>2. ~lateDone
  BY DEF Next, RegulatorConnTSK, Version, StartCycle, WriteTarget, Receive, Execute,
         ReadEnable, ReadMeasure, CheckSlot, RawMessage, DelayUntil, Unanswered, Caller,
         Begin, Send, Wake, GiveUp, Return, TcpServer, TcpRequest, TcpPost, TcpWake,
         TcpGiveUp, TcpReturn, TcpClose, SetTarget, Tick, LinkChange, Trip, vars, history
<1>3. InTime
  BY <1>2 DEF IInv
<1>4. CASE RegulatorConnTSK
  BY <1>1, <1>3, <1>4, TaskInTime, ReceiveInTime, ExecuteInTime
<1>5. ASSUME NEW c \in Callers, Caller(c) PROVE InTime'
  <2>1. CASE Wake(c) \/ GiveUp(c)
    BY <1>1, <1>3, <2>1, ReturnInTime DEF Wake, GiveUp, TakeExpires
  <2>2. CASE (\E op \in CallerOps : Begin(c, op)) \/ Send(c)
    BY <1>1, <1>3, <2>2, BeginInTime, SendInTime
  <2>3. QED
    BY <1>5, <2>1, <2>2 DEF Caller
<1>6. CASE TcpServer \/ (\E t \in Targets : SetTarget(t)) \/ LinkChange \/ Trip
           \/ UNCHANGED vars
  <2>1. UNCHANGED <<callers, queue, cmd, pc, try, busy>>
    BY <1>6
    DEF TcpServer, TcpRequest, TcpPost, TcpWake, TcpGiveUp, TcpReturn, TcpClose,
        SetTarget, LinkChange, Trip, vars, task, shared
  <2>2. CommandSafe'
    BY <1>3, <2>1 DEF InTime, CommandSafe, Awaited, callers
  <2>3. QED
    BY <1>3, <2>1, <2>2, InTimeFrame
<1>7. QED
  BY <1>1, <1>3, <1>4, <1>5, <1>6, TickInTime DEF Next

\* The invariant is inductive.
LEMMA IInvStep == IInv /\ [Next]_vars => IInv'
BY TypeStep, OwnedStep, PlaceStep, InTimeStep DEF IInv

\* In every reachable state every variable has its type, however the tasks, the
\* clients and the line behave.
THEOREM TypeCorrect == Spec => []TypeOK
<1>1. Init => IInv
  BY InitIInv
<1>2. IInv /\ [Next]_vars => IInv'
  BY IInvStep
<1>3. IInv => TypeOK
  BY DEF IInv
<1>4. QED
  BY <1>1, <1>2, <1>3, PTL DEF Spec

\* reg_waitCommand blocks 10 ms longer than its command stays valid, so until a
\* command completes late no command that may still start points into a dead frame.
THEOREM UnexpiredSafe == Spec => []UnexpiredHasCaller
<1>1. Init => IInv
  BY InitIInv
<1>2. IInv /\ [Next]_vars => IInv'
  BY IInvStep
<1>3. IInv => UnexpiredHasCaller
  BY DEF IInv, InTime, QueueSafe, UnexpiredHasCaller
<1>4. QED
  BY <1>1, <1>2, <1>3, PTL DEF Spec

\* A command that the task starts belongs to a caller that still waits for it.
THEOREM StartSafe == Spec => []StartsForCaller
<1>1. Init => IInv
  BY InitIInv
<1>2. IInv /\ [Next]_vars => IInv'
  BY IInvStep
<1>3. IInv => StartsForCaller
  BY DEF IInv, InTime, CommandSafe, StartsForCaller
<1>4. QED
  BY <1>1, <1>2, <1>3, PTL DEF Spec

\* A caller is woken by the end of its own command only, while none ended late.
THEOREM WakeSafe == Spec => []WakeIsOwn
<1>1. Init => IInv
  BY InitIInv
<1>2. IInv /\ [Next]_vars => IInv'
  BY IInvStep
<1>3. IInv => WakeIsOwn
  <2>1. ASSUME IInv, ~lateDone, NEW c \in Callers, cpc[c] = "wait", sem[csem[c]] = "given"
        PROVE  /\ \A i \in DOMAIN queue : queue[i].live => queue[i].caller # c
               /\ cmd # NoCommand => ~(cmd.live /\ cmd.caller = c)
    BY <2>1 DEF IInv, InTime, QueueSafe, CommandSafe, CommandPlace, Awaited
  <2>2. QED
    BY <2>1 DEF WakeIsOwn
<1>4. QED
  BY <1>1, <1>2, <1>3, PTL DEF Spec

\* The retries of a command end within (Retries - 1) response timeouts of its expiry.
THEOREM EffectBounded == Spec => []EffectBound
<1>1. Init => IInv
  BY InitIInv
<1>2. IInv /\ [Next]_vars => IInv'
  BY IInvStep
<1>3. IInv => EffectBound
  <2>1. ASSUME IInv, pc = "exec", busy = 0, try > 0
        PROVE  Expire - cmd.ttl < Expire + (Retries - 1) * RespTimeout
    <3>1. cmd \in Command /\ cmd.ttl \in Int /\ try \in Nat /\ try <= Retries
      BY <2>1 DEF IInv, CommandPlace, TypeOK, TypeTask, Command
    <3>2. cmd.ttl + (Retries - try) * RespTimeout >= 1
      BY <2>1 DEF IInv, Paced
    <3>3. (try - 1) * RespTimeout >= 0
      BY <2>1, <3>1, TimingAssumption
    <3>4. (Retries - 1) * RespTimeout = (Retries - try) * RespTimeout + (try - 1) * RespTimeout
      BY <3>1, TimingAssumption
    <3>5. (Retries - 1) * RespTimeout \in Int /\ (Retries - try) * RespTimeout \in Int
          /\ (try - 1) * RespTimeout \in Int
      BY <3>1, TimingAssumption
    <3>6. QED
      BY <3>1, <3>2, <3>3, <3>4, <3>5, TimingAssumption
  <2>2. QED
    BY <2>1 DEF EffectBound
<1>4. QED
  BY <1>1, <1>2, <1>3, PTL DEF Spec

=============================================================================
