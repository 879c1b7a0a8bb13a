---------------------------- MODULE RegulatorLink ----------------------------
(***************************************************************************)
(* The panel's link to the regulator board (regulator/src).               *)
(*                                                                         *)
(* regulatorConnTSK owns the Modbus RTU line.  Each cycle it writes the    *)
(* target (unless a TCP client holds remote control), executes at most one *)
(* command of commandQueue, reads the enable register and the measures,    *)
(* and passes on at most one raw request of the Modbus TCP server.  The    *)
(* other tasks call reg_waitCommand, which puts a command with pointers    *)
(* into the caller's own stack frame on the queue and waits on a semaphore *)
(* that it creates and deletes for this one command.                       *)
(*                                                                         *)
(* Time passes in ticks and only while the task is blocked: its own code   *)
(* and an answered exchange take less than a tick.  A timer is the number  *)
(* of ticks it has left, so the 2^32 ms wrap of the tick counter is not    *)
(* represented.  An accepted answer is the answer to the last request.     *)
(***************************************************************************)
EXTENDS Integers, Sequences, FiniteSets

CONSTANTS
  Callers,         \* tasks that call reg_waitCommand
  Clients,         \* {} or the one Modbus TCP server task
  Sems,            \* addresses at which the heap can place a semaphore
  Targets,         \* abstract values of regTarget_t
  Remote,          \* the target written by the TCP client
  CallerOps,       \* commands of the callers: "on", "off", "other"
  RawOps,          \* raw requests of the client: "target", "on", "off", "other"
  NoCommand,       \* no command is being executed
  NoSem,           \* the caller holds no semaphore
  QueueLen,        \* xQueueCreate(8, ...)
  Retries,         \* try = 3
  InitTries,       \* 16 attempts to read the version
  ErrorThreshold,  \* errorThreshold = 5
  RespTimeout,     \* response_timeout, 100 ms
  Expire,          \* expire = 150 ms
  Wait,            \* expire + 10 ms
  TcpWait,         \* xSemaphoreTake(tcpSem, 1000)
  Period,          \* vTaskDelayUntil period, 10 ms
  LagMax,          \* bound: how many ticks of an overrun are caught up
  LinkStates,      \* of the line: TRUE, it answers; FALSE, it answers or not
  PromptSend       \* no tick passes between computing expireTime and xQueueSend

ASSUME CallersAssumption ==
  /\ IsFiniteSet(Callers) /\ IsFiniteSet(Sems)
  /\ CallerOps \subseteq {"on", "off", "other"}
  /\ RawOps \subseteq {"target", "on", "off", "other"}
  /\ Remote \notin Targets
  /\ NoSem \notin Sems

ASSUME TimingAssumption ==
  /\ QueueLen \in Nat \ {0} /\ Retries \in Nat \ {0} /\ InitTries \in Nat \ {0}
  /\ ErrorThreshold \in Nat \ {0}
  /\ RespTimeout \in Nat \ {0} /\ Period \in Nat \ {0}
  /\ Expire \in Nat \ {0} /\ Wait \in Nat /\ Expire < Wait
  /\ TcpWait \in Nat /\ LagMax \in Nat /\ Period <= LagMax
  /\ LinkStates \subseteq BOOLEAN /\ PromptSend \in BOOLEAN

VARIABLES
  \* regulatorConnTSK
  pc,          \* where the task is in its cycle
  try,         \* attempts left in the current exchange
  busy,        \* ticks until the response timeout or the next period
  lag,         \* ticks since the last scheduled wake-up
  lpcal,       \* lpcalRegTarget, the local copy of the target
  cmd,         \* the command being executed
  errorCount,
  \* memory shared between the tasks
  regTarget, enabled, connected, gremote, queue,
  \* the callers of reg_waitCommand
  cpc, cop, csem, left, sem,
  \* the Modbus TCP server
  tpc, tleft, slot, lenSet, tcpResult, tcpSem,
  \* the regulator board and the line (external)
  linkUp, devOn, devTarget,
  \* history: a command completed after its caller had left, a request of the
  \* client timed out, the client wrote the target and still has control
  \* of the line, and how many cycles have passed without a good exchange
  lateDone, tcpGaveUp, held, silent

task    == <<pc, try, busy, lag, lpcal, cmd, errorCount>>
shared  == <<regTarget, enabled, connected, gremote, queue>>
callers == <<cpc, cop, csem, left, sem>>
tcp     == <<tpc, tleft, slot, lenSet, tcpResult, tcpSem>>
device  == <<devOn, devTarget>>
history == <<lateDone, tcpGaveUp, held, silent>>
vars    == <<task, shared, callers, tcp, linkUp, device, history>>

Ops == {"on", "off", "other"}

\* command_t; live: the caller's frame (result, src, dst) still exists
Command == [caller: Callers, op: Ops, sem: Sems, ttl: Int, live: BOOLEAN]

ASSUME NoCommandAssumption == NoCommand \notin Command

\* Stages in which the task exchanges a request and an answer
Exchanges == {"version", "target", "exec", "enable", "measure", "raw"}
Stages    == Exchanges \cup {"start", "receive", "slot", "delay"}

Init ==
  /\ pc = "version" /\ try = InitTries /\ busy = 0 /\ lag = 0
  /\ cmd = NoCommand /\ errorCount = 0
  /\ regTarget \in Targets /\ lpcal = regTarget
  /\ enabled = FALSE /\ connected = TRUE /\ gremote = FALSE /\ queue = <<>>
  /\ cpc = [c \in Callers |-> "idle"] /\ cop = [c \in Callers |-> "other"]
  /\ csem = [c \in Callers |-> NoSem] /\ left = [c \in Callers |-> 0]
  /\ sem = [h \in Sems |-> "free"]
  /\ tpc = "idle" /\ tleft = 0 /\ slot = "empty" /\ lenSet = FALSE
  /\ tcpResult = FALSE /\ tcpSem = FALSE
  /\ linkUp \in LinkStates
  /\ devOn \in BOOLEAN /\ devTarget = regTarget
  /\ lateDone = FALSE /\ tcpGaveUp = FALSE /\ held = FALSE /\ silent = 0

------------------------------------------------------------------------------
(* Faulty variants of definitions below: each is a plausible slip that one *)
(* of the properties must detect.                                          *)

FaultErrorCount     == errorCount + 1            \* no saturation at the threshold
FaultGood           == UNCHANGED errorCount /\ silent' = 0        \* missing reset
FaultTakeTimeout    == Expire - (Wait - Expire)                   \* expire - 10
FaultTakeExpires(c) == FALSE                                   \* portMAX_DELAY
FaultFreeSem(h)     == TRUE                      \* one static semaphore for all
FaultExpired(m)     == FALSE                              \* no expiry check
FaultEnqueue(m)     == <<m>> \o queue                  \* xQueueSendToFront
FaultLocalMode      == TRUE                             \* gremote not tested
FaultTargetCopy     == lpcal                     \* the copy is taken once only
FaultWriteChanged   == ~gremote /\ regTarget # lpcal  \* only a new target is written
FaultEnableRead     == enabled                 \* read into a local, not stored
FaultClearSlot      == UNCHANGED slot           \* mobusRequstData not cleared

------------------------------------------------------------------------------
(* The callers: setters and reg_waitCommand                                *)

\* reg_voltageSet, reg_currentSet, ... : the field is set under regulatorMutex
SetTarget(t) ==
  /\ t # regTarget
  /\ regTarget' = t
  /\ UNCHANGED <<task, enabled, connected, gremote, queue, callers, tcp,
                 linkUp, device, history>>

\* reg_enableSet sends nothing when the cached state is the wanted one
Wanted(op) == op = "other" \/ (op = "on") # enabled

\* xSemaphoreCreateBinary
FreeSem(h) == sem[h] = "free"

\* reg_waitCommand up to the computation of expireTime: it returns false on a
\* lost link, a full queue, and when the heap has no semaphore (a stutter here)
Begin(c, op) ==
  /\ cpc[c] = "idle"
  /\ Wanted(op)
  /\ connected /\ Len(queue) < QueueLen
  /\ \E h \in Sems :
       /\ FreeSem(h)
       /\ sem' = [sem EXCEPT ![h] = "empty"]
       /\ csem' = [csem EXCEPT ![c] = h]
  /\ cpc' = [cpc EXCEPT ![c] = "prepared"]
  /\ cop' = [cop EXCEPT ![c] = op]
  /\ left' = [left EXCEPT ![c] = Expire]
  /\ UNCHANGED <<task, shared, tcp, linkUp, device, history>>

\* xQueueSend appends; xSemaphoreTake waits pdMS_TO_TICKS(expire + 10)
Enqueue(m)  == Append(queue, m)
TakeTimeout == Wait

\* xQueueSend(commandQueue, cmd, 0): its result is ignored, a full queue loses
\* the command; then the caller blocks on its semaphore
Send(c) ==
  /\ cpc[c] = "prepared"
  /\ queue' = IF Len(queue) < QueueLen
                THEN Enqueue([caller |-> c, op |-> cop[c], sem |-> csem[c],
                              ttl |-> left[c], live |-> TRUE])
                ELSE queue
  /\ cpc' = [cpc EXCEPT ![c] = "wait"]
  /\ left' = [left EXCEPT ![c] = TakeTimeout]
  /\ UNCHANGED <<task, regTarget, enabled, connected, gremote, cop, csem, sem,
                 tcp, linkUp, device, history>>

\* The frame of c dies; commands that point into it stay where they are
Orphan(m, c) == IF m.caller = c THEN [m EXCEPT !.live = FALSE] ELSE m

\* vSemaphoreDelete and the return of reg_waitCommand (always true)
Return(c) ==
  /\ sem' = [sem EXCEPT ![csem[c]] = "free"]
  /\ csem' = [csem EXCEPT ![c] = NoSem]
  /\ cpc' = [cpc EXCEPT ![c] = "idle"]
  /\ cop' = [cop EXCEPT ![c] = "other"]
  /\ left' = [left EXCEPT ![c] = 0]
  /\ queue' = [i \in DOMAIN queue |-> Orphan(queue[i], c)]
  /\ cmd' = IF cmd = NoCommand THEN NoCommand ELSE Orphan(cmd, c)
  /\ UNCHANGED <<pc, try, busy, lag, lpcal, errorCount, regTarget, enabled,
                 connected, gremote, tcp, linkUp, device, history>>

\* xSemaphoreTake succeeds
Wake(c) == cpc[c] = "wait" /\ sem[csem[c]] = "given" /\ Return(c)

\* xSemaphoreTake times out
TakeExpires(c) == left[c] = 0

GiveUp(c) == cpc[c] = "wait" /\ TakeExpires(c) /\ sem[csem[c]] # "given" /\ Return(c)

------------------------------------------------------------------------------
(* The Modbus TCP server: reg_tcpModbusRequest, reg_tcpModbusClosedConnection *)

\* reg_setremote(true), then reg_modbusRequest stores the data pointer ...
TcpRequest(op) ==
  /\ Clients # {} /\ tpc = "idle"
  /\ gremote' = TRUE
  /\ slot' = op /\ lenSet' = FALSE
  /\ tpc' = "posting"
  /\ UNCHANGED <<task, regTarget, enabled, connected, queue, callers, tleft,
                 tcpResult, tcpSem, linkUp, device, history>>

\* ... and only then the length pointer, and blocks on tcpSem
TcpPost ==
  /\ tpc = "posting"
  /\ lenSet' = TRUE
  /\ tpc' = "wait" /\ tleft' = TcpWait
  /\ UNCHANGED <<task, shared, callers, slot, tcpResult, tcpSem, linkUp,
                 device, history>>

TcpReturn ==
  /\ tpc' = "idle" /\ tleft' = 0
  /\ UNCHANGED <<task, shared, callers, slot, tcpResult, linkUp, device,
                 lateDone, held, silent>>

\* mobusRequstResult is returned
TcpWake ==
  /\ tpc = "wait" /\ tcpSem
  /\ tcpSem' = FALSE /\ UNCHANGED <<lenSet, tcpGaveUp>>
  /\ TcpReturn

\* After a timeout the request stays posted, but the length it points to is in
\* the frame of a function that has returned
TcpGiveUp ==
  /\ tpc = "wait" /\ ~tcpSem /\ tleft = 0
  /\ tcpGaveUp' = TRUE /\ lenSet' = FALSE /\ UNCHANGED tcpSem
  /\ TcpReturn

\* The connection is lost while the server waits in netconn_recv
TcpClose ==
  /\ tpc = "idle" /\ gremote
  /\ gremote' = FALSE /\ held' = FALSE
  /\ UNCHANGED <<task, regTarget, enabled, connected, queue, callers, tcp,
                 linkUp, device, lateDone, tcpGaveUp, silent>>

------------------------------------------------------------------------------
(* The exchange of one request and its answer, with retries                *)

\* What the regulator does with the request of the current stage
RegulatorTakes ==
  /\ devOn' = CASE pc = "exec" /\ cmd.op = "on"  -> TRUE
                [] pc = "exec" /\ cmd.op = "off" -> FALSE
                [] pc = "raw" /\ slot = "on"     -> TRUE
                [] pc = "raw" /\ slot = "off"    -> FALSE
                [] OTHER                         -> devOn
  /\ devTarget' = CASE pc = "target"                  -> lpcal
                    [] pc = "raw" /\ slot = "target"  -> Remote
                    [] OTHER                          -> devTarget
  /\ held' = IF pc = "raw" /\ slot = "target" THEN gremote ELSE held

\* A valid answer arrives
Answered(stage) ==
  /\ pc = stage /\ try > 0 /\ busy = 0
  /\ RegulatorTakes

\* No answer within response_timeout, or an answer that is refused at once; the
\* regulator may have taken the request.  A raw request sent with the length of
\* an earlier one, or of one that has timed out, can also fail on a good line.
Unanswered ==
  /\ pc \in Exchanges /\ try > 0 /\ busy = 0
  /\ ~linkUp \/ (pc = "raw" /\ ~lenSet)
  /\ try' = try - 1
  /\ busy' \in {0, RespTimeout}
  /\ RegulatorTakes \/ UNCHANGED <<device, held>>
  /\ UNCHANGED <<pc, lag, lpcal, cmd, errorCount, shared, callers, tcp, linkUp,
                 lateDone, tcpGaveUp, silent>>

\* All attempts were used up
Exhausted(stage) ==
  /\ pc = stage /\ try = 0 /\ busy = 0
  /\ UNCHANGED <<device, held>>

Goto(stage, tries) == pc' = stage /\ try' = tries /\ UNCHANGED busy

\* A periodic exchange succeeded, or failed
Good       == errorCount' = 0 /\ silent' = 0

NextErrorCount == IF errorCount < ErrorThreshold THEN errorCount + 1 ELSE errorCount

CountError == errorCount' = NextErrorCount /\ UNCHANGED silent

------------------------------------------------------------------------------
(* regulatorConnTSK                                                        *)

\* readRegs(ctx, 0x0000, &regVersion, 3, 16): the outcome is ignored
Version ==
  /\ Answered("version") \/ Exhausted("version")
  /\ Goto("start", 0)
  /\ UNCHANGED <<lag, lpcal, cmd, errorCount, shared, callers, tcp, linkUp,
                 lateDone, tcpGaveUp, silent>>

\* The copy taken under regulatorMutex, and if(gremote == false)
TargetCopy == regTarget
LocalMode  == ~gremote

\* The top of the cycle: copy the target, skip its write in remote mode
StartCycle ==
  /\ pc = "start" /\ busy = 0
  /\ lpcal' = TargetCopy
  /\ IF LocalMode THEN Goto("target", Retries) ELSE Goto("receive", 0)
  /\ silent' = IF silent < ErrorThreshold THEN silent + 1 ELSE silent
  /\ UNCHANGED <<lag, cmd, errorCount, shared, callers, tcp, linkUp, device,
                 lateDone, tcpGaveUp, held>>

WriteTarget ==
  /\ \/ Answered("target") /\ Good
     \/ Exhausted("target") /\ CountError
  /\ Goto("receive", 0)
  /\ UNCHANGED <<lag, lpcal, cmd, shared, callers, tcp, linkUp, lateDone,
                 tcpGaveUp>>

\* not command.expireTime > currentTime
Expired(m) == m.ttl <= 0

\* xQueueReceive(commandQueue, &command, 0): an expired command is dropped
Receive ==
  /\ pc = "receive"
  /\ IF queue = <<>>
       THEN Goto("enable", Retries) /\ UNCHANGED <<cmd, queue>>
       ELSE /\ queue' = Tail(queue)
            /\ IF Expired(Head(queue))
                 THEN UNCHANGED cmd /\ Goto("enable", Retries)
                 ELSE cmd' = Head(queue) /\ Goto("exec", Retries)
  /\ UNCHANGED <<lag, lpcal, errorCount, regTarget, enabled, connected,
                 gremote, callers, tcp, linkUp, device, history>>

\* *command.result = result; xSemaphoreGive(command.semaphore): the semaphore may
\* be deleted, or its memory may hold the semaphore of a later command
Execute ==
  /\ Answered("exec") \/ Exhausted("exec")
  /\ sem' = [sem EXCEPT ![cmd.sem] = IF @ = "free" THEN "free" ELSE "given"]
  /\ lateDone' = (lateDone \/ ~cmd.live)
  /\ cmd' = NoCommand
  /\ Goto("enable", Retries)
  /\ UNCHANGED <<lag, lpcal, errorCount, shared, cpc, cop, csem, left, tcp,
                 linkUp, tcpGaveUp, silent>>

\* The value that readRegs stores in enabled
EnableRead == devOn

\* readRegs(ctx, 0x010B, &enabled, 1, 3): a failure keeps the old value
ReadEnable ==
  /\ \/ Answered("enable") /\ Good /\ enabled' = EnableRead
     \/ Exhausted("enable") /\ CountError /\ UNCHANGED enabled
  /\ Goto("measure", Retries)
  /\ UNCHANGED <<lag, lpcal, cmd, regTarget, connected, gremote, queue,
                 callers, tcp, linkUp, lateDone, tcpGaveUp>>

ReadMeasure ==
  /\ \/ Answered("measure") /\ Good
     \/ Exhausted("measure") /\ CountError
  /\ connected' = (errorCount' < ErrorThreshold)
  /\ Goto("slot", 0)
  /\ UNCHANGED <<lag, lpcal, cmd, regTarget, enabled, gremote, queue, callers,
                 tcp, linkUp, lateDone, tcpGaveUp>>

\* if(mobusRequstData)
CheckSlot ==
  /\ pc = "slot"
  /\ IF slot = "empty" THEN Goto("delay", 0) ELSE Goto("raw", 1)
  /\ UNCHANGED <<lag, lpcal, cmd, errorCount, shared, callers, tcp, linkUp,
                 device, history>>

\* mobusRequstData = NULL
ClearSlot == slot' = "empty"

\* rawModbusMessage returns in its first iteration whatever happens
RawMessage ==
  /\ \/ Answered("raw") /\ tcpResult' = TRUE
     \/ Exhausted("raw") /\ tcpResult' = FALSE
  /\ ClearSlot
  /\ tcpSem' = TRUE
  /\ Goto("delay", 0)
  /\ UNCHANGED <<lag, lpcal, cmd, errorCount, shared, callers, tpc, tleft,
                 lenSet, linkUp, lateDone, tcpGaveUp, silent>>

\* vTaskDelayUntil does not block while the schedule is behind
DelayUntil ==
  /\ pc = "delay"
  /\ pc' = "start"
  /\ lag' = lag - Period
  /\ busy' = IF lag < Period THEN Period - lag ELSE 0
  /\ UNCHANGED <<try, lpcal, cmd, errorCount, shared, callers, tcp, linkUp,
                 device, history>>

RegulatorConnTSK ==
  \/ Version \/ StartCycle \/ WriteTarget \/ Receive \/ Execute \/ ReadEnable
  \/ ReadMeasure \/ CheckSlot \/ RawMessage \/ DelayUntil \/ Unanswered

------------------------------------------------------------------------------
(* Time and the environment                                                *)

Down(n) == IF n > 0 THEN n - 1 ELSE 0

Age(m) == [m EXCEPT !.ttl = Down(@)]

\* One tick while the task is blocked on its semaphore or in its delay
Tick ==
  /\ busy > 0
  /\ PromptSend => \A c \in Callers : cpc[c] # "prepared"
  /\ busy' = busy - 1
  /\ lag' = IF lag < LagMax THEN lag + 1 ELSE lag
  /\ left' = [c \in Callers |-> Down(left[c])]
  /\ queue' = [i \in DOMAIN queue |-> Age(queue[i])]
  /\ cmd' = IF cmd = NoCommand THEN NoCommand ELSE [cmd EXCEPT !.ttl = @ - 1]
  /\ tleft' = Down(tleft)
  /\ UNCHANGED <<pc, try, lpcal, errorCount, regTarget, enabled, connected,
                 gremote, cpc, cop, csem, sem, tpc, slot, lenSet, tcpResult,
                 tcpSem, linkUp, device, history>>

LinkChange ==
  /\ linkUp' \in LinkStates \ {linkUp}
  /\ UNCHANGED <<task, shared, callers, tcp, device, history>>

\* The regulator switches its output off by itself (protection, end of charge)
Trip ==
  /\ devOn /\ devOn' = FALSE
  /\ UNCHANGED <<task, shared, callers, tcp, linkUp, devTarget, history>>

Caller(c) == (\E op \in CallerOps : Begin(c, op)) \/ Send(c) \/ Wake(c) \/ GiveUp(c)

TcpServer == (\E op \in RawOps : TcpRequest(op)) \/ TcpPost \/ TcpWake \/ TcpGiveUp
             \/ TcpClose

Next ==
  \/ RegulatorConnTSK
  \/ \E c \in Callers : Caller(c)
  \/ TcpServer
  \/ \E t \in Targets : SetTarget(t)
  \/ Tick \/ LinkChange \/ Trip

Spec == Init /\ [][Next]_vars

\* The task and the tick interrupt always run; a caller that is ready runs, the
\* higher tasks being blocked most of the time.  Nothing makes a client or a key
\* act, and nothing repairs the line.
FairSpec ==
  /\ Spec
  /\ WF_vars(RegulatorConnTSK) /\ WF_vars(Tick)
  /\ \A c \in Callers : WF_vars(Send(c)) /\ WF_vars(Wake(c)) /\ WF_vars(GiveUp(c))
  /\ WF_vars(TcpPost) /\ WF_vars(TcpWake) /\ WF_vars(TcpGiveUp)

------------------------------------------------------------------------------
(* Properties                                                              *)

TypeTask ==
  /\ pc \in Stages /\ try \in Nat /\ busy \in Nat /\ lag \in Int
  /\ lpcal \in Targets /\ cmd \in Command \cup {NoCommand}
  /\ errorCount \in 0 .. ErrorThreshold

TypeShared ==
  /\ regTarget \in Targets /\ enabled \in BOOLEAN /\ connected \in BOOLEAN
  /\ gremote \in BOOLEAN /\ queue \in Seq(Command)

TypeCallers ==
  /\ cpc \in [Callers -> {"idle", "prepared", "wait"}]
  /\ cop \in [Callers -> Ops]
  /\ csem \in [Callers -> Sems \cup {NoSem}]
  /\ left \in [Callers -> Nat]
  /\ sem \in [Sems -> {"free", "empty", "given"}]

TypeTcp ==
  /\ tpc \in {"idle", "posting", "wait"} /\ tleft \in Nat
  /\ slot \in RawOps \cup {"empty"} /\ lenSet \in BOOLEAN
  /\ tcpResult \in BOOLEAN /\ tcpSem \in BOOLEAN

TypeDevice  == devOn \in BOOLEAN /\ devTarget \in Targets \cup {Remote}

TypeHistory == /\ lateDone \in BOOLEAN /\ tcpGaveUp \in BOOLEAN
               /\ held \in BOOLEAN /\ silent \in Nat

\* Every variable keeps its type: the memory of regulatorConnTSK.c:41-54 and of
\* the tasks around it, whatever the line does; errorCount never passes the
\* threshold.
TypeOK == /\ TypeTask /\ TypeShared /\ TypeCallers /\ TypeTcp
          /\ linkUp \in BOOLEAN /\ TypeDevice /\ TypeHistory

\* The 10 ms by which the wait exceeds the expiry keep the caller's stack frame
\* alive under every command that may still start: a queued command that has not
\* expired belongs to a caller that is still blocked on it.  It holds as long as
\* no command has completed late, since a late xSemaphoreGive can hit the
\* semaphore of another command.
UnexpiredHasCaller ==
  ~lateDone => \A i \in DOMAIN queue : queue[i].ttl > 0 => queue[i].live

\* A command that starts finds its caller's frame alive: only an attempt that the
\* regulator does not answer in time can make the task outlive the caller.
StartsForCaller ==
  ~lateDone /\ pc = "exec" /\ try = Retries => cmd.live

\* While nothing has completed late, a caller is woken only when its own command
\* is finished: nothing that points into its frame is queued or being executed.
WakeIsOwn ==
  ~lateDone => \A c \in Callers :
    cpc[c] = "wait" /\ sem[csem[c]] = "given" =>
      /\ \A i \in DOMAIN queue : queue[i].live => queue[i].caller # c
      /\ cmd # NoCommand => ~(cmd.live /\ cmd.caller = c)

\* A command reaches the regulator less than Expire + (Retries - 1) response
\* timeouts after it was issued: the retries of an abandoned command end.
EffectBound ==
  pc = "exec" /\ busy = 0 /\ try > 0 =>
    Expire - cmd.ttl < Expire + (Retries - 1) * RespTimeout

\* On a line that answers, the queue of QueueLen commands is served one per
\* Period before any of them expires, and no call times out.
QuietLink ==
  LinkStates = {TRUE} /\ PromptSend /\ Clients = {} /\ QueueLen * Period < Expire
    /\ Cardinality(Callers) <= QueueLen =>
      /\ pc = "receive" /\ queue # <<>> => Head(queue).ttl > 0
      /\ \A c \in Callers : cpc[c] = "wait" /\ left[c] = 0 => sem[csem[c]] = "given"

\* While the client has control since it wrote the target, the panel's own target
\* is not written over it (gremote is set before the request is posted).
RemoteTargetHeld == held => gremote /\ devTarget = Remote

\* As long as no request of the client timed out, tcpSem is given only to the
\* client that still waits for this answer, and no request is left behind.
AnswerInStep ==
  ~tcpGaveUp =>
    /\ tcpSem => tpc # "idle" /\ slot = "empty"
    /\ slot # "empty" => tpc # "idle"

\* connected is honest at the end of a cycle: one good exchange in the cycle keeps
\* it, and it is dropped after the failures of ErrorThreshold / 2 silent cycles (in
\* remote mode a cycle has only two periodic exchanges).
ConnectedHonest ==
  pc \in {"slot", "raw", "delay"} =>
    /\ silent = 0 /\ ErrorThreshold > 2 => connected
    /\ 2 * silent >= ErrorThreshold => ~connected

\* Every call of reg_waitCommand returns.
CallReturns == \A c \in Callers : cpc[c] = "wait" ~> cpc[c] = "idle"

\* Every posted raw request is taken from the slot.
RequestServed == slot # "empty" ~> slot = "empty"

\* Once the line works for good, the panel reports the regulator connected.
Reconnects == <>[]linkUp => <>[]connected

\* Once the line works and nobody sends commands, the cached enable state is the
\* state of the output.
CacheConverges ==
  <>[](linkUp /\ queue = <<>> /\ cmd = NoCommand /\ slot = "empty")
    => <>[](enabled = devOn)

\* Once the line works without remote control, the target set on the panel, if it
\* stays, reaches the regulator and stays there.
TargetConverges ==
  \A t \in Targets :
    <>[](linkUp /\ ~gremote /\ slot = "empty" /\ regTarget = t) => <>[](devTarget = t)

=============================================================================
