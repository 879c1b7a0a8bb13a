------------------------ MODULE RegulatorServiceProofs ------------------------
(***************************************************************************)
(* Proofs about what RegulatorLink does for those it serves: the remote    *)
(* control, the answers to the Modbus TCP server and the connected flag,   *)
(* and, on a line that answers, every caller of the command queue in time, *)
(* for any number of places and callers.                                   *)
(***************************************************************************)
EXTENDS RegulatorLinkProofs, FiniteSetTheorems

------------------------------------------------------------------------------
(* Remote control, answers and the connected flag                          *)

\* While the client's target is held, the cycle does not come to the exchange that
\* writes the panel's target.
RemoteInv == held => gremote /\ devTarget = Remote /\ pc # "target"

\* AnswerInStep, and the raw exchange always has a request in the slot.
AnswerInv == AnswerInStep /\ (pc = "raw" => slot # "empty")

EndOfCycle == {"slot", "raw", "delay"}

\* The exchanges of a cycle that can have failed after its last good one.
MayHaveFailed == IF pc \in EndOfCycle THEN 2 ELSE IF pc = "measure" THEN 1 ELSE 0

\* The failures still to come in a cycle that stays silent.
StillToFail == IF pc \in {"version", "start"} \cup EndOfCycle THEN 0
               ELSE IF pc = "measure" THEN 1 ELSE 2

\* errorCount counts the failures since the last good exchange and stops at the
\* threshold; a silent cycle has at least two.
CountInv ==
  /\ pc \in EndOfCycle => connected = (errorCount < ErrorThreshold)
  /\ pc = "target" => silent > 0
  /\ pc \notin {"version", "start"} /\ silent = 0 => errorCount <= MayHaveFailed
  /\ errorCount < ErrorThreshold => errorCount >= 2 * silent - StillToFail

------------------------------------------------------------------------------
(* Remote control                                                          *)

\* What any step does to the target in the regulator and to the claim on it.
LEMMA TargetStep ==
  ASSUME [Next]_vars
  PROVE  \/ UNCHANGED <<devTarget, held>>
         \/ RegulatorTakes
         \/ held' = FALSE
BY DEF Next, RegulatorConnTSK, Version, StartCycle, WriteTarget, Receive, Execute,
       ReadEnable, ReadMeasure, CheckSlot, RawMessage, DelayUntil, Unanswered, Answered,
       Exhausted, Caller, Begin, Send, Wake, GiveUp, Return, TcpServer, TcpRequest, TcpPost,
       TcpWake, TcpGiveUp, TcpReturn, TcpClose, SetTarget, Tick, LinkChange, Trip, vars,
       device, history

\* The client gives control back only together with its claim, and the cycle enters
\* the exchange that writes the panel's target only in local mode.
LEMMA ControlStep ==
  ASSUME [Next]_vars
  PROVE  /\ gremote /\ ~gremote' => held' = FALSE
         /\ pc' = "target" /\ pc # "target" => ~gremote /\ UNCHANGED <<devTarget, held>>
<1>1. CASE RegulatorConnTSK
  <2>1. UNCHANGED gremote
    BY <1>1
    DEF RegulatorConnTSK, Version, StartCycle, WriteTarget, Receive, Execute, ReadEnable,
        ReadMeasure, CheckSlot, RawMessage, DelayUntil, Unanswered, shared
  <2>2. CASE StartCycle
    BY <2>1, <2>2 DEF StartCycle, LocalMode, Goto, device
  <2>3. CASE Unanswered
    BY <2>1, <2>3 DEF Unanswered
  <2>4. CASE ~StartCycle /\ ~Unanswered
    <3>1. pc' # "target"
      BY <1>1, <2>4
      DEF RegulatorConnTSK, Version, WriteTarget, Receive, Execute, ReadEnable,
          ReadMeasure, CheckSlot, RawMessage, DelayUntil, Goto
    <3>2. QED
      BY <2>1, <3>1
  <2>5. QED
    BY <2>2, <2>3, <2>4
<1>2. CASE ~RegulatorConnTSK
  <2>1. UNCHANGED pc
    BY <1>2
    DEF Next, Caller, Begin, Send, Wake, GiveUp, Return, TcpServer, TcpRequest, TcpPost,
        TcpWake, TcpGiveUp, TcpReturn, TcpClose, SetTarget, Tick, LinkChange, Trip, vars,
        task
  <2>2. UNCHANGED gremote \/ gremote' = TRUE \/ held' = FALSE
    BY <1>2
    DEF Next, Caller, Begin, Send, Wake, GiveUp, Return, TcpServer, TcpRequest, TcpPost,
        TcpWake, TcpGiveUp, TcpReturn, TcpClose, SetTarget, Tick, LinkChange, Trip, vars,
        shared
  <2>3. QED
    BY <2>1, <2>2
<1>3. QED
  BY <1>1, <1>2

\* The claim of the client survives every step that does not end it.
LEMMA RemoteStep ==
  ASSUME RemoteInv, [Next]_vars
  PROVE  RemoteInv'
<1> SUFFICES ASSUME held' PROVE gremote' /\ devTarget' = Remote /\ pc' # "target"
  BY DEF RemoteInv
<1>1. gremote /\ devTarget' = Remote /\ pc # "target"
  <2>1. CASE UNCHANGED <<devTarget, held>>
    BY <2>1 DEF RemoteInv
  <2>2. CASE RegulatorTakes
    <3>1. CASE pc = "raw" /\ slot = "target"
      BY <2>2, <3>1 DEF RegulatorTakes
    <3>2. CASE ~(pc = "raw" /\ slot = "target")
      BY <2>2, <3>2 DEF RegulatorTakes, RemoteInv
    <3>3. QED
      BY <3>1, <3>2
  <2>3. QED
    BY <2>1, <2>2, TargetStep
<1>2. gremote'
  BY <1>1, ControlStep
<1>3. pc' # "target"
  BY <1>1, ControlStep
<1>4. QED
  BY <1>1, <1>2, <1>3

\* The client's target stays in the regulator as long as the client has control, since
\* gremote is set before a request is posted and cleared only between two requests.
THEOREM RemoteSafe == Spec => []RemoteTargetHeld
<1>1. Init => RemoteInv
  BY DEF Init, RemoteInv
<1>2. RemoteInv /\ [Next]_vars => RemoteInv'
  BY RemoteStep
<1>3. RemoteInv => RemoteTargetHeld
  BY DEF RemoteInv, RemoteTargetHeld
<1>4. QED
  BY <1>1, <1>2, <1>3, PTL DEF Spec

------------------------------------------------------------------------------
(* The answers given to the client                                         *)

\* The task's steps, except the one that answers, leave the mailbox alone.
LEMMA MailboxStep ==
  ASSUME RegulatorConnTSK, ~RawMessage
  PROVE  /\ UNCHANGED <<tpc, slot, tcpSem, tcpGaveUp>>
         /\ pc' = "raw" => pc = "raw" \/ slot # "empty"
BY DEF RegulatorConnTSK, Version, StartCycle, WriteTarget, Receive, Execute, ReadEnable,
       ReadMeasure, CheckSlot, DelayUntil, Unanswered, Goto, tcp, history

\* An answer is given while the client waits, unless it has left once.
LEMMA AnswerStep ==
  ASSUME AnswerInv, [Next]_vars
  PROVE  AnswerInv'
<1> USE DEF AnswerInv, AnswerInStep
<1>1. CASE RegulatorConnTSK /\ ~RawMessage
  BY <1>1, MailboxStep
<1>2. CASE RawMessage
  BY <1>2 DEF RawMessage, ClearSlot, Goto, Answered, Exhausted
<1>3. ASSUME NEW op \in RawOps, TcpRequest(op) PROVE AnswerInv'
  <2>1. op # "empty"
    BY CallersAssumption
  <2>2. QED
    BY <1>3, <2>1 DEF TcpRequest, task, history
<1>4. CASE TcpPost \/ TcpWake \/ TcpGiveUp \/ TcpClose
  BY <1>4 DEF TcpPost, TcpWake, TcpGiveUp, TcpReturn, TcpClose, tcp, task, history
<1>5. CASE ~RegulatorConnTSK /\ ~TcpServer
  <2>1. UNCHANGED <<pc, tpc, slot, tcpSem, tcpGaveUp>>
    BY <1>5
    DEF Next, Caller, Begin, Send, Wake, GiveUp, Return, SetTarget, Tick, LinkChange, Trip,
        vars, task, tcp, history
  <2>2. QED
    BY <2>1
<1>6. QED
  BY <1>1, <1>2, <1>3, <1>4, <1>5 DEF TcpServer

\* Until a request of the client has timed out, no answer waits for a client that has
\* gone and no request is left in the slot.
THEOREM AnswersInStep == Spec => []AnswerInStep
<1>1. Init => AnswerInv
  BY DEF Init, AnswerInv, AnswerInStep
<1>2. AnswerInv /\ [Next]_vars => AnswerInv'
  BY AnswerStep
<1>3. AnswerInv => AnswerInStep
  BY DEF AnswerInv
<1>4. QED
  BY <1>1, <1>2, <1>3, PTL DEF Spec

------------------------------------------------------------------------------
(* The connected flag                                                      *)

\* A failed exchange adds one below the threshold; a good one starts again from 0.
LEMMA CountError1 ==
  ASSUME TypeOK, Good \/ CountError
  PROVE  \/ errorCount' = 0 /\ silent' = 0
         \/ errorCount < ErrorThreshold /\ errorCount' = errorCount + 1 /\ silent' = silent
         \/ errorCount = ErrorThreshold /\ errorCount' = ErrorThreshold /\ silent' = silent
BY TimingAssumption DEF Good, CountError, NextErrorCount, TypeOK, TypeTask

\* The count follows the failures of the cycle.
LEMMA CountStep ==
  ASSUME TypeOK, CountInv, [Next]_vars
  PROVE  CountInv'
<1> USE TimingAssumption DEF CountInv, MayHaveFailed, StillToFail, EndOfCycle
<1>1. errorCount \in 0 .. ErrorThreshold /\ silent \in Nat
  BY DEF TypeOK, TypeTask, TypeHistory
<1>2. CASE Version
  BY <1>1, <1>2 DEF Version, Goto, Answered, Exhausted
<1>3. CASE StartCycle
  BY <1>1, <1>3 DEF StartCycle, Goto
<1>4. CASE WriteTarget
  <2>1. pc = "target" /\ pc' = "receive" /\ (Good \/ CountError) /\ silent > 0
    BY <1>4 DEF WriteTarget, Goto, Answered, Exhausted
  <2>2. QED
    BY <1>1, <2>1, CountError1
<1>5. CASE Receive \/ Execute
  <2>1. pc \in {"receive", "exec"} /\ pc' \in {"exec", "enable"} /\ UNCHANGED <<errorCount, silent>>
    BY <1>5 DEF Receive, Execute, Goto, Answered, Exhausted, history
  <2>2. QED
    BY <1>1, <2>1
<1>6. CASE ReadEnable
  <2>1. pc = "enable" /\ pc' = "measure" /\ (Good \/ CountError)
    BY <1>6 DEF ReadEnable, Goto, Answered, Exhausted
  <2>2. QED
    BY <1>1, <2>1, CountError1
<1>7. CASE ReadMeasure
  <2>1. /\ pc = "measure" /\ pc' = "slot" /\ (Good \/ CountError)
        /\ connected' = (errorCount' < ErrorThreshold)
    BY <1>7 DEF ReadMeasure, Goto, Answered, Exhausted
  <2>2. QED
    BY <1>1, <2>1, CountError1
<1>8. CASE CheckSlot \/ RawMessage
  <2>1. /\ pc \in {"slot", "raw"} /\ pc' \in {"raw", "delay"}
        /\ UNCHANGED <<errorCount, silent, connected>>
    BY <1>8 DEF CheckSlot, RawMessage, Goto, Answered, Exhausted, history, shared
  <2>2. QED
    BY <1>1, <2>1
<1>9. CASE DelayUntil
  <2>1. pc = "delay" /\ pc' = "start" /\ UNCHANGED <<errorCount, silent>>
    BY <1>9 DEF DelayUntil, history
  <2>2. QED
    BY <1>1, <2>1
<1>10. CASE Unanswered
  BY <1>10 DEF Unanswered, shared
<1>11. CASE ~RegulatorConnTSK
  <2>1. UNCHANGED <<pc, errorCount, silent, connected>>
    BY <1>11
    DEF Next, Caller, Begin, Send, Wake, GiveUp, Return, TcpServer, TcpRequest, TcpPost,
        TcpWake, TcpGiveUp, TcpReturn, TcpClose, SetTarget, Tick, LinkChange, Trip, vars,
        task, shared, history
  <2>2. QED
    BY <2>1
<1>12. QED
  BY <1>2, <1>3, <1>4, <1>5, <1>6, <1>7, <1>8, <1>9, <1>10, <1>11 DEF RegulatorConnTSK

\* connected tells the truth within half an ErrorThreshold of cycles, whatever the line
\* answers and whoever has control: one good exchange in a cycle keeps it.
THEOREM ConnectedSafe == Spec => []ConnectedHonest
<1>1. Init => CountInv
  BY TimingAssumption DEF Init, CountInv, EndOfCycle, MayHaveFailed, StillToFail
<1>2. TypeOK /\ CountInv /\ [Next]_vars => CountInv'
  BY CountStep
<1>3. TypeOK /\ CountInv => ConnectedHonest
  <2>1. ASSUME TypeOK, CountInv, pc \in EndOfCycle
        PROVE  /\ silent = 0 /\ ErrorThreshold > 2 => connected
               /\ 2 * silent >= ErrorThreshold => ~connected
    <3>1. errorCount \in Nat /\ silent \in Nat /\ ErrorThreshold \in Nat
      BY <2>1, TimingAssumption DEF TypeOK, TypeTask, TypeHistory
    <3>2. pc # "version" /\ pc # "start" /\ pc # "measure"
      BY <2>1 DEF EndOfCycle
    <3>3. silent = 0 => errorCount <= 2
      BY <2>1, <3>2 DEF CountInv, MayHaveFailed
    <3>4. errorCount < ErrorThreshold => errorCount >= 2 * silent
      BY <2>1, <3>1 DEF CountInv, StillToFail
    <3>5. connected <=> errorCount < ErrorThreshold
      BY <2>1 DEF CountInv
    <3>6. QED
      BY <3>1, <3>3, <3>4, <3>5
  <2>2. QED
    BY <2>1 DEF ConnectedHonest, EndOfCycle
<1>4. QED
  BY <1>1, <1>2, <1>3, TypeCorrect, PTL DEF Spec

------------------------------------------------------------------------------
(* The command queue on a line that answers                                *)

\* The circumstances of QuietLink: the line answers, no client takes part, the queue
\* has a place for every caller and is served before a command expires.
QuietLine ==
  /\ LinkStates = {TRUE} /\ PromptSend /\ Clients = {}
  /\ QueueLen * Period < Expire
  /\ Cardinality(Callers) <= QueueLen

\* What a command in the last place has left when it is taken.
Margin == Expire - QueueLen * Period

\* Ticks until the task next looks into the queue.
NextReceive == IF pc = "start" THEN busy
               ELSE IF pc \in {"version", "target", "receive"} THEN 0 ELSE Period

\* The task never waits for an answer, and each cycle takes one period.
Steady ==
  /\ ~lateDone /\ linkUp = TRUE /\ slot = "empty" /\ pc # "raw"
  /\ pc = "exec" => try = Retries
  /\ lag + busy = 0 /\ busy <= Period
  /\ pc # "start" => busy = 0

\* A queued command has enough left for the cycles until its turn.
OnTime ==
  \A i \in DOMAIN queue : queue[i].ttl >= Margin + NextReceive + (i - 1) * Period

\* No time passes between the computation of expireTime and xQueueSend.
Fresh == \A c \in Callers : cpc[c] = "prepared" => left[c] = Expire

\* A blocked caller has its command queued or being executed.
Pending ==
  \A c \in Callers : cpc[c] = "wait" /\ sem[csem[c]] # "given" =>
    \/ \E i \in DOMAIN queue : queue[i].live /\ queue[i].caller = c
    \/ pc = "exec" /\ cmd.live /\ cmd.caller = c

QuietInv == Steady /\ OnTime /\ Fresh /\ Pending

\* A place further back waits one period longer.
LEMMA OnePlace ==
  ASSUME NEW i \in Int, NEW p \in Int
  PROVE  i * p = (i - 1) * p + p /\ (i - 1) * p \in Int /\ i * p \in Int
OBVIOUS

\* The circumstances leave a margin.
LEMMA MarginPositive ==
  QuietLine => Margin \in Int /\ Margin > 0 /\ QueueLen * Period \in Int
BY TimingAssumption DEF QuietLine, Margin

\* A place in the queue is not before the task's next look.
LEMMA DueType ==
  ASSUME TypeOK, NEW i \in Nat \ {0}
  PROVE  /\ NextReceive \in Nat /\ (i - 1) * Period \in Nat
BY TimingAssumption DEF NextReceive, TypeOK, TypeTask

\* Every queued command is live, since none has expired.
LEMMA AllLive ==
  ASSUME QuietLine, IInv, Steady, OnTime, NEW i \in DOMAIN queue
  PROVE  /\ queue[i] \in Command /\ queue[i].ttl > 0 /\ queue[i].live /\ Awaited(queue[i])
         /\ left[queue[i].caller] > 0
<1>1. queue[i] \in Command /\ queue[i].ttl \in Int /\ queue[i].caller \in Callers /\ i \in Nat \ {0}
  <2>1. queue[i] \in Command
    BY DEF IInv, TypeOK, TypeShared
  <2>2. i \in Nat \ {0}
    BY DEF IInv, TypeOK, TypeShared
  <2>3. QED
    BY <2>1, <2>2 DEF Command
<1>2. queue[i].ttl > 0
  <2>1. NextReceive \in Nat /\ (i - 1) * Period \in Nat
    BY <1>1, DueType DEF IInv
  <2>2. QED
    BY <1>1, <2>1, MarginPositive DEF OnTime
<1>3. QueueSafe
  BY DEF IInv, InTime, Steady
<1>4. queue[i].live /\ Awaited(queue[i])
  BY <1>2, <1>3 DEF QueueSafe
<1>5. left[queue[i].caller] > 0
  <2>1. left[queue[i].caller] >= queue[i].ttl + (Wait - Expire)
    BY <1>2, <1>3 DEF QueueSafe
  <2>2. left[queue[i].caller] \in Nat
    BY <1>1 DEF IInv, TypeOK, TypeCallers
  <2>3. QED
    BY <1>1, <1>2, <2>1, <2>2, TimingAssumption
<1>6. QED
  BY <1>1, <1>2, <1>4, <1>5

\* The places 1 to n are n.
LEMMA Places ==
  ASSUME NEW n \in Nat
  PROVE  Cardinality(1 .. n) = n
<1>1. 1 \in Int /\ n \in Int
  OBVIOUS
<1>2. Cardinality(1 .. n) = IF 1 > n THEN 0 ELSE n - 1 + 1
  BY <1>1, FS_Interval
<1>3. QED
  BY <1>2

\* A caller about to send finds a place: the others have at most one command each.
LEMMA RoomLeft ==
  ASSUME QuietLine, IInv, Steady, OnTime, NEW c \in Callers, cpc[c] = "prepared"
  PROVE  Len(queue) < QueueLen
<1> DEFINE owner == [i \in 1 .. Len(queue) |-> queue[i].caller]
<1>1. DOMAIN queue = 1 .. Len(queue) /\ Len(queue) \in Nat
  BY DEF IInv, TypeOK, TypeShared
<1>2. \A i \in 1 .. Len(queue) : owner[i] \in Callers \ {c}
  <2>1. ASSUME NEW i \in 1 .. Len(queue) PROVE queue[i].caller \in Callers /\ queue[i].caller # c
    <3>1. queue[i] \in Command /\ cpc[queue[i].caller] = "wait"
      BY <1>1, AllLive DEF Awaited
    <3>2. QED
      BY <3>1 DEF Command
  <2>2. QED
    BY <2>1
<1>3. \A i, j \in 1 .. Len(queue) : owner[i] = owner[j] => i = j
  <2>1. OneEach
    BY DEF IInv, InTime, Steady
  <2>2. QED
    BY <1>1, <2>1, AllLive DEF OneEach
<1>4. owner \in Injection(1 .. Len(queue), Callers \ {c})
  BY <1>2, <1>3 DEF Injection, IsInjective
<1>5. IsFiniteSet(Callers \ {c}) /\ Cardinality(Callers \ {c}) = Cardinality(Callers) - 1
  BY CallersAssumption, FS_RemoveElement
<1>6. Cardinality(1 .. Len(queue)) <= Cardinality(Callers \ {c})
  BY <1>4, <1>5, FS_Injection
<1>7. Cardinality(1 .. Len(queue)) = Len(queue)
  BY <1>1, Places
<1>8. Cardinality(Callers) \in Nat
  BY CallersAssumption, FS_CardinalityType
<1>9. QED
  BY <1>1, <1>5, <1>6, <1>7, <1>8, TimingAssumption DEF QuietLine

\* An answered exchange is never repeated, and no command completes late.
LEMMA SteadyStep ==
  ASSUME QuietLine, IInv, Steady, [Next]_vars
  PROVE  Steady'
<1> USE TimingAssumption DEF Steady
<1>1. busy \in Nat /\ lag \in Int /\ try \in Nat
  BY DEF IInv, TypeOK, TypeTask
<1>2. ~Unanswered
  BY DEF Unanswered
<1>3. CASE Version \/ StartCycle \/ WriteTarget \/ Receive \/ ReadEnable \/ ReadMeasure
           \/ CheckSlot \/ RawMessage
  <2>1. /\ UNCHANGED <<lag, busy, linkUp, slot, lateDone>>
        /\ pc' # "raw" /\ busy = 0 /\ (pc' = "exec" => try' = Retries)
    BY <1>3
    DEF Version, StartCycle, WriteTarget, Receive, ReadEnable, ReadMeasure, CheckSlot,
        RawMessage, Goto, Answered, Exhausted, tcp, history
  <2>2. QED
    BY <2>1
<1>4. CASE Execute
  <2>1. cmd.live
    BY <1>4 DEF Execute, Answered, Exhausted, IInv, InTime, CommandSafe
  <2>2. QED
    BY <1>4, <2>1 DEF Execute, Goto, Answered, Exhausted, tcp
<1>5. CASE DelayUntil
  BY <1>1, <1>5 DEF DelayUntil, tcp, history
<1>6. CASE Tick
  BY <1>1, <1>6 DEF Tick, history
<1>7. CASE TcpServer
  <2>1. UNCHANGED <<pc, try, busy, lag, linkUp, slot, lateDone>>
    BY <1>7
    DEF TcpServer, TcpRequest, TcpPost, TcpWake, TcpGiveUp, TcpReturn, TcpClose, QuietLine,
        task, tcp, history
  <2>2. QED
    BY <2>1
<1>8. CASE (\E c \in Callers : Caller(c)) \/ (\E t \in Targets : SetTarget(t)) \/ Trip
           \/ UNCHANGED vars
  <2>1. UNCHANGED <<pc, try, busy, lag, linkUp, slot, lateDone>>
    BY <1>8
    DEF Caller, Begin, Send, Wake, GiveUp, Return, SetTarget, Trip, vars, task, tcp, history
  <2>2. QED
    BY <2>1
<1>9. CASE LinkChange
  BY <1>9 DEF LinkChange, QuietLine
<1>10. QED
  BY <1>2, <1>3, <1>4, <1>5, <1>6, <1>7, <1>8, <1>9 DEF Next, RegulatorConnTSK
------------------------------------------------------------------------------
(* The order of the queue                                                  *)

\* A command that keeps its place and its time while the task comes no later.
LEMMA KeepsPlace ==
  ASSUME TypeOK, OnTime, QuietLine, NEW i \in DOMAIN queue, NEW ttl \in Int,
         ttl = queue[i].ttl, NEW n \in Int, n <= NextReceive
  PROVE  ttl >= Margin + n + (i - 1) * Period
<1>1. i \in Nat \ {0}
  BY DEF TypeOK, TypeShared
<1>2. NextReceive \in Nat /\ (i - 1) * Period \in Nat /\ Margin \in Int
  BY <1>1, DueType, MarginPositive
<1>3. queue[i].ttl >= Margin + NextReceive + (i - 1) * Period
  BY DEF OnTime
<1>4. QED
  BY <1>2, <1>3

\* A queue that the step leaves alone while the task comes no later.
LEMMA OnTimeFrame ==
  ASSUME TypeOK, OnTime, QuietLine, NextReceive' \in Int, NextReceive' <= NextReceive,
         DOMAIN queue' = DOMAIN queue,
         \A i \in DOMAIN queue : queue'[i].ttl = queue[i].ttl
  PROVE  OnTime'
<1>1. ASSUME NEW i \in DOMAIN queue
      PROVE  queue'[i].ttl >= Margin + NextReceive' + (i - 1) * Period
  <2>1. queue[i].ttl \in Int
    <3>1. queue[i] \in Command
      BY DEF TypeOK, TypeShared
    <3>2. QED
      BY <3>1 DEF Command
  <2>2. QED
    BY <2>1, KeepsPlace
<1>2. QED
  BY <1>1 DEF OnTime, Margin

\* Taking the first command moves the others up as the next cycle begins.
LEMMA ReceiveOnTime ==
  ASSUME TypeOK, OnTime, QuietLine, Steady, Receive
  PROVE  OnTime'
<1>1. CASE queue = <<>>
  BY <1>1 DEF Receive, OnTime
<1>2. CASE queue # <<>>
  <2>1. /\ queue \in Seq(Command) /\ queue' = Tail(queue) /\ Len(queue) > 0
        /\ DOMAIN queue' = 1 .. Len(queue) - 1 /\ DOMAIN queue = 1 .. Len(queue)
    BY <1>2 DEF Receive, TypeOK, TypeShared
  <2>2. NextReceive = 0
    BY DEF Receive, NextReceive
  <2>3. NextReceive' = Period
    BY DEF Receive, Goto, NextReceive
  <2>4. ASSUME NEW i \in DOMAIN queue'
        PROVE  queue'[i].ttl >= Margin + Period + (i - 1) * Period
    <3>1. i \in Int /\ i + 1 \in DOMAIN queue /\ queue'[i] = queue[i + 1]
      BY <2>1
    <3>2. queue[i + 1].ttl >= Margin + 0 + ((i + 1) - 1) * Period
      BY <2>2, <3>1 DEF OnTime
    <3>3. (i + 1) - 1 = i /\ i * Period = (i - 1) * Period + Period /\ (i - 1) * Period \in Int
          /\ i * Period \in Int
      BY <3>1, OnePlace, TimingAssumption
    <3>4. Margin \in Int /\ queue[i + 1].ttl \in Int
      <4>1. queue[i + 1] \in Command
        BY <2>1, <3>1
      <4>2. QED
        BY <4>1, MarginPositive DEF Command
    <3>5. QED
      BY <3>1, <3>2, <3>3, <3>4, TimingAssumption
  <2>5. QED
    BY <2>3, <2>4 DEF OnTime, Margin
<1>3. QED
  BY <1>1, <1>2

\* A new command has a place for which its whole expiry is enough.
LEMMA SendOnTime ==
  ASSUME IInv, OnTime, QuietLine, Steady, Fresh, NEW c \in Callers, Send(c)
  PROVE  OnTime'
<1> DEFINE m == [caller |-> c, op |-> cop[c], sem |-> csem[c], ttl |-> left[c], live |-> TRUE]
<1>1. cpc[c] = "prepared" /\ UNCHANGED <<pc, busy>>
  BY DEF Send, task
<1>2. NextReceive' = NextReceive
  BY <1>1 DEF NextReceive
<1>3. /\ queue' = Append(queue, m) /\ queue \in Seq(Command) /\ Len(queue) \in Nat
      /\ DOMAIN queue' = 1 .. Len(queue) + 1 /\ DOMAIN queue = 1 .. Len(queue)
      /\ Len(queue) + 1 <= QueueLen
  <2>1. Len(queue) < QueueLen
    BY <1>1, RoomLeft
  <2>2. queue \in Seq(Command)
    BY DEF IInv, TypeOK, TypeShared
  <2>3. QED
    BY <2>1, <2>2, TimingAssumption DEF Send, Enqueue
<1>4. m.ttl = Expire
  BY <1>1 DEF Fresh
<1>5. Expire >= Margin + NextReceive + (Len(queue) + 1 - 1) * Period
  <2>1. NextReceive \in Nat /\ NextReceive <= Period
    BY TimingAssumption DEF NextReceive, Steady, IInv, TypeOK, TypeTask
  <2>2. QueueLen - 1 - Len(queue) \in Nat
    BY <1>3, TimingAssumption
  <2>3. (QueueLen - 1 - Len(queue)) * Period >= 0
    BY <2>2, TimingAssumption
  <2>4. QueueLen * Period
          = (QueueLen - 1 - Len(queue)) * Period + Len(queue) * Period + Period
    BY <1>3, TimingAssumption
  <2>5. /\ Len(queue) * Period \in Int /\ (QueueLen - 1 - Len(queue)) * Period \in Int
        /\ QueueLen * Period \in Int /\ Len(queue) + 1 - 1 = Len(queue)
    BY <1>3, TimingAssumption
  <2>6. QED
    BY <2>1, <2>3, <2>4, <2>5, TimingAssumption DEF Margin
<1>6. ASSUME NEW i \in DOMAIN queue'
      PROVE  queue'[i].ttl >= Margin + NextReceive + (i - 1) * Period
  <2>1. CASE i = Len(queue) + 1
    <3>1. queue'[i] = m
      BY <1>3, <2>1
    <3>2. QED
      BY <1>4, <1>5, <2>1, <3>1
  <2>2. CASE i # Len(queue) + 1
    <3>1. i \in DOMAIN queue /\ queue'[i] = queue[i]
      BY <1>3, <2>2
    <3>2. QED
      BY <3>1 DEF OnTime
  <2>3. QED
    BY <2>1, <2>2
<1>7. QED
  BY <1>2, <1>6 DEF OnTime, Margin

\* A tick brings a command one closer to its expiry and to its turn.
LEMMA TickOnTime ==
  ASSUME TypeOK, OnTime, QuietLine, Steady, Tick
  PROVE  OnTime'
<1>1. /\ pc = "start" /\ busy > 0 /\ busy' = busy - 1 /\ UNCHANGED pc
      /\ queue' = [i \in DOMAIN queue |-> Age(queue[i])] /\ busy \in Nat
  BY DEF Tick, Steady, TypeOK, TypeTask
<1>2. NextReceive = busy /\ NextReceive' = busy - 1
  BY <1>1 DEF NextReceive
<1>3. ASSUME NEW i \in DOMAIN queue
      PROVE  queue'[i].ttl >= Margin + (busy - 1) + (i - 1) * Period
  <2>1. queue[i] \in Command /\ i \in Nat \ {0}
    BY DEF TypeOK, TypeShared
  <2>2. queue'[i].ttl = Down(queue[i].ttl) /\ queue[i].ttl \in Int
    BY <1>1, <2>1, AgeType DEF Command
  <2>3. queue[i].ttl >= Margin + busy + (i - 1) * Period
    BY <1>2 DEF OnTime
  <2>4. (i - 1) * Period \in Int /\ Margin \in Int
    BY <2>1, DueType, MarginPositive
  <2>5. Down(queue[i].ttl) >= queue[i].ttl - 1
    BY <2>2 DEF Down
  <2>6. QED
    BY <1>1, <2>2, <2>3, <2>4, <2>5 DEF Down
<1>4. QED
  BY <1>1, <1>2, <1>3 DEF OnTime, Margin

\* Every step leaves every queued command enough time.
LEMMA OnTimeStep ==
  ASSUME QuietLine, IInv, Steady, OnTime, Fresh, [Next]_vars
  PROVE  OnTime'
<1>1. TypeOK /\ busy \in Nat /\ lag \in Int /\ Period \in Nat
  BY TimingAssumption DEF IInv, TypeOK, TypeTask
<1>2. CASE RegulatorConnTSK /\ ~Receive
  <2>1. ~Unanswered
    BY DEF Unanswered, Steady
  <2>2. UNCHANGED queue
    BY <1>2, <2>1
    DEF RegulatorConnTSK, Version, StartCycle, WriteTarget, Execute, ReadEnable,
        ReadMeasure, CheckSlot, RawMessage, DelayUntil, shared
  <2>3. NextReceive' \in Int /\ NextReceive' <= NextReceive
    <3>1. CASE DelayUntil
      <4>1. pc = "delay" /\ pc' = "start" /\ lag = 0 /\ busy' <= Period /\ busy' \in Nat
        BY <1>1, <3>1 DEF DelayUntil, Steady
      <4>2. QED
        BY <1>1, <4>1 DEF NextReceive
    <3>2. CASE Version \/ StartCycle \/ WriteTarget
      <4>1. /\ pc \in {"version", "start", "target"} /\ pc' \in {"start", "target", "receive"}
            /\ busy = 0 /\ busy' = 0
        BY <3>2 DEF Version, StartCycle, WriteTarget, Goto, Answered, Exhausted
      <4>2. NextReceive' = 0
        BY <4>1 DEF NextReceive
      <4>3. NextReceive = 0
        BY <4>1 DEF NextReceive
      <4>4. QED
        BY <4>2, <4>3
    <3>3. CASE Execute \/ ReadEnable \/ ReadMeasure \/ CheckSlot \/ RawMessage
      <4>1. /\ pc \in {"exec", "enable", "measure", "slot", "raw"}
            /\ pc' \in {"enable", "measure", "slot", "raw", "delay"}
        BY <3>3
        DEF Execute, ReadEnable, ReadMeasure, CheckSlot, RawMessage, Goto, Answered,
            Exhausted
      <4>2. QED
        BY <1>1, <4>1 DEF NextReceive
    <3>4. QED
      BY <1>2, <2>1, <3>1, <3>2, <3>3 DEF RegulatorConnTSK
  <2>4. QED
    BY <1>1, <2>2, <2>3, OnTimeFrame
<1>3. ASSUME UNCHANGED <<pc, busy>>, DOMAIN queue' = DOMAIN queue,
             \A i \in DOMAIN queue : queue'[i].ttl = queue[i].ttl
      PROVE  OnTime'
  <2>1. NextReceive' = NextReceive /\ NextReceive \in Int
    BY <1>1, <1>3 DEF NextReceive
  <2>2. QED
    BY <1>1, <1>3, <2>1, OnTimeFrame
<1>4. ASSUME NEW c \in Callers, Return(c) PROVE OnTime'
  <2>1. queue' = [i \in DOMAIN queue |-> Orphan(queue[i], c)] /\ UNCHANGED <<pc, busy>>
    BY <1>4 DEF Return
  <2>2. \A i \in DOMAIN queue : queue[i] \in Command
    BY <1>1 DEF TypeOK, TypeShared
  <2>3. \A i \in DOMAIN queue : queue'[i].ttl = queue[i].ttl
    BY <2>1, <2>2, OrphanType
  <2>4. QED
    BY <1>3, <2>1, <2>3
<1>5. ASSUME NEW c \in Callers, NEW op \in CallerOps, Begin(c, op) PROVE OnTime'
  BY <1>3, <1>5 DEF Begin, task, shared
<1>6. CASE TcpServer \/ (\E t \in Targets : SetTarget(t)) \/ LinkChange \/ Trip
           \/ UNCHANGED vars
  <2>1. UNCHANGED <<pc, busy, queue>>
    BY <1>6
    DEF TcpServer, TcpRequest, TcpPost, TcpWake, TcpGiveUp, TcpReturn, TcpClose, SetTarget,
        LinkChange, Trip, vars, task, shared
  <2>2. QED
    BY <1>3, <2>1
<1>7. QED
  BY <1>1, <1>2, <1>4, <1>5, <1>6, ReceiveOnTime, SendOnTime, TickOnTime
  DEF Next, Caller, Wake, GiveUp

------------------------------------------------------------------------------
(* The callers                                                             *)

\* A call in preparation has its whole expiry left.
LEMMA FreshStep ==
  ASSUME QuietLine, IInv, Fresh, [Next]_vars
  PROVE  Fresh'
<1>1. TypeCallers
  BY DEF IInv, TypeOK
<1>2. ASSUME UNCHANGED <<cpc, left>> PROVE Fresh'
  BY <1>2 DEF Fresh
<1>3. CASE RegulatorConnTSK \/ TcpServer \/ (\E t \in Targets : SetTarget(t)) \/ LinkChange
           \/ Trip \/ UNCHANGED vars
  <2>1. UNCHANGED <<cpc, left>>
    BY <1>3
    DEF RegulatorConnTSK, Version, StartCycle, WriteTarget, Receive, Execute, ReadEnable,
        ReadMeasure, CheckSlot, RawMessage, DelayUntil, Unanswered, TcpServer, TcpRequest,
        TcpPost, TcpWake, TcpGiveUp, TcpReturn, TcpClose, SetTarget, LinkChange, Trip, vars,
        callers
  <2>2. QED
    BY <1>2, <2>1
<1>4. ASSUME NEW c \in Callers, NEW op \in CallerOps, Begin(c, op) PROVE Fresh'
  BY <1>1, <1>4, TimingAssumption DEF Begin, Fresh, TypeCallers
<1>5. ASSUME NEW c \in Callers, Send(c) PROVE Fresh'
  BY <1>1, <1>5 DEF Send, Fresh, TypeCallers
<1>6. ASSUME NEW c \in Callers, Return(c) PROVE Fresh'
  BY <1>1, <1>6 DEF Return, Fresh, TypeCallers
<1>7. CASE Tick
  BY <1>7 DEF Tick, QuietLine, Fresh
<1>8. QED
  BY <1>3, <1>4, <1>5, <1>6, <1>7 DEF Next, Caller, Wake, GiveUp

\* The task takes a command from the queue only to execute it, and ends one only by
\* waking its caller.
LEMMA TaskPending ==
  ASSUME QuietLine, IInv, Steady, OnTime, Pending, RegulatorConnTSK
  PROVE  Pending'
<1>1. TypeOK /\ CommandPlace /\ InTime
  BY DEF IInv, Steady
<1>2. CASE ~Receive /\ ~Execute
  <2>1. UNCHANGED <<cpc, csem, sem, queue>> /\ pc # "exec"
    BY <1>2
    DEF RegulatorConnTSK, Version, StartCycle, WriteTarget, ReadEnable, ReadMeasure,
        CheckSlot, RawMessage, DelayUntil, Unanswered, Steady, Answered, Exhausted, callers,
        shared
  <2>2. QED
    BY <2>1 DEF Pending
<1>3. CASE Receive
  <2>1. UNCHANGED <<cpc, csem, sem>> /\ pc = "receive"
    BY <1>3 DEF Receive, callers
  <2>2. CASE queue = <<>>
    BY <1>3, <2>1, <2>2 DEF Receive, Pending
  <2>3. CASE queue # <<>>
    <3>1. /\ queue' = Tail(queue) /\ queue \in Seq(Command) /\ Len(queue) > 0
          /\ DOMAIN queue' = 1 .. Len(queue) - 1 /\ DOMAIN queue = 1 .. Len(queue)
          /\ Head(queue) = queue[1] /\ 1 \in DOMAIN queue
      BY <1>1, <1>3, <2>3 DEF Receive, TypeOK, TypeShared
    <3>2. queue[1].ttl > 0 /\ queue[1] \in Command
      BY <3>1, AllLive
    <3>3. ~Expired(Head(queue))
      BY <3>1, <3>2 DEF Expired, Command
    <3>4. pc' = "exec" /\ cmd' = queue[1]
      BY <1>3, <2>3, <3>1, <3>3 DEF Receive, Goto
    <3>5. ASSUME NEW i \in DOMAIN queue
          PROVE  i = 1 \/ (i - 1 \in DOMAIN queue' /\ queue'[i - 1] = queue[i])
      BY <3>1
    <3>6. ASSUME NEW c \in Callers, cpc[c] = "wait", sem[csem[c]] # "given"
          PROVE  \/ \E i \in DOMAIN queue' : queue'[i].live /\ queue'[i].caller = c
                 \/ pc' = "exec" /\ cmd'.live /\ cmd'.caller = c
      <4>1. PICK i \in DOMAIN queue : queue[i].live /\ queue[i].caller = c
        BY <2>1, <3>6 DEF Pending
      <4>2. QED
        BY <3>4, <3>5, <4>1
    <3>7. QED
      BY <2>1, <3>6 DEF Pending
  <2>4. QED
    BY <2>2, <2>3
<1>4. CASE Execute
  <2>1. /\ UNCHANGED <<cpc, csem, queue>> /\ pc = "exec"
        /\ sem' = [sem EXCEPT ![cmd.sem] = IF @ = "free" THEN "free" ELSE "given"]
    BY <1>4 DEF Execute, Answered, Exhausted, shared
  <2>2. ASSUME NEW c \in Callers, cpc[c] = "wait", sem'[csem[c]] # "given"
        PROVE  \E i \in DOMAIN queue : queue[i].live /\ queue[i].caller = c
    <3>1. csem[c] \in Sems
      BY <1>1, <2>2 DEF IInv, Owned, TypeOK, TypeCallers
    <3>2. sem[csem[c]] # "given" /\ (csem[c] = cmd.sem => sem[csem[c]] = "free")
      BY <1>1, <2>1, <2>2, <3>1 DEF TypeOK, TypeCallers
    <3>3. ~(cmd.live /\ cmd.caller = c)
      BY <1>1, <2>1, <3>2 DEF InTime, CommandSafe, Awaited
    <3>4. QED
      BY <2>2, <3>2, <3>3 DEF Pending
  <2>3. QED
    BY <2>1, <2>2 DEF Pending
<1>5. QED
  BY <1>2, <1>3, <1>4

\* A caller that sends is queued, and one that leaves takes nobody else's command along.
LEMMA PendingStep ==
  ASSUME QuietLine, IInv, Steady, OnTime, Fresh, Pending, [Next]_vars
  PROVE  Pending'
<1>1. TypeOK /\ CommandPlace
  BY DEF IInv
<1>2. ASSUME NEW c \in Callers, NEW op \in CallerOps, Begin(c, op) PROVE Pending'
  <2>1. PICK h \in Sems : /\ sem[h] = "free"
                          /\ sem' = [sem EXCEPT ![h] = "empty"]
                          /\ csem' = [csem EXCEPT ![c] = h]
    BY <1>2 DEF Begin, FreeSem
  <2>2. cpc' = [cpc EXCEPT ![c] = "prepared"] /\ UNCHANGED <<queue, pc, cmd>>
    BY <1>2 DEF Begin, task, shared
  <2>3. ASSUME NEW d \in Callers, cpc'[d] = "wait"
        PROVE  cpc[d] = "wait" /\ csem'[d] = csem[d] /\ sem'[csem[d]] = sem[csem[d]]
    <3>1. d # c /\ cpc[d] = "wait" /\ csem'[d] = csem[d]
      BY <1>1, <2>1, <2>2, <2>3 DEF TypeOK, TypeCallers
    <3>2. csem[d] \in Sems /\ sem[csem[d]] # "free"
      BY <3>1 DEF IInv, Owned, Separate, TypeOK, TypeCallers
    <3>3. QED
      BY <1>1, <2>1, <3>1, <3>2 DEF TypeOK, TypeCallers
  <2>4. QED
    BY <2>2, <2>3 DEF Pending
<1>3. ASSUME NEW c \in Callers, Send(c) PROVE Pending'
  <2>1. /\ cpc[c] = "prepared" /\ cpc' = [cpc EXCEPT ![c] = "wait"]
        /\ UNCHANGED <<pc, cmd, sem, csem>>
    BY <1>3 DEF Send, task
  <2>2. Len(queue) < QueueLen
    BY <2>1, RoomLeft
  <2>3. queue' = Append(queue, [caller |-> c, op |-> cop[c], sem |-> csem[c],
                                ttl |-> left[c], live |-> TRUE])
    BY <1>3, <2>2 DEF Send, Enqueue
  <2>4. /\ \A i \in DOMAIN queue : i \in DOMAIN queue' /\ queue'[i] = queue[i]
        /\ \E i \in DOMAIN queue' : queue'[i].live /\ queue'[i].caller = c
    <3>1. queue \in Seq(Command) /\ Len(queue) \in Nat
      BY <1>1 DEF TypeOK, TypeShared
    <3>2. Len(queue) + 1 \in DOMAIN queue' /\ queue'[Len(queue) + 1].live
          /\ queue'[Len(queue) + 1].caller = c
      BY <2>3, <3>1
    <3>3. \A i \in DOMAIN queue : i \in DOMAIN queue' /\ queue'[i] = queue[i]
      BY <2>3, <3>1
    <3>4. QED
      BY <3>2, <3>3
  <2>5. \A d \in Callers : d # c => cpc'[d] = cpc[d]
    BY <1>1, <2>1 DEF TypeOK, TypeCallers
  <2>6. QED
    BY <2>1, <2>4, <2>5 DEF Pending
<1>4. ASSUME NEW c \in Callers, cpc[c] = "wait", Return(c) PROVE Pending'
  <2>1. /\ cpc' = [cpc EXCEPT ![c] = "idle"] /\ csem' = [csem EXCEPT ![c] = NoSem]
        /\ sem' = [sem EXCEPT ![csem[c]] = "free"] /\ UNCHANGED pc
        /\ queue' = [i \in DOMAIN queue |-> Orphan(queue[i], c)]
        /\ cmd' = IF cmd = NoCommand THEN NoCommand ELSE Orphan(cmd, c)
    BY <1>4 DEF Return
  <2>2. ASSUME NEW d \in Callers, cpc'[d] = "wait"
        PROVE  d # c /\ cpc[d] = "wait" /\ csem'[d] = csem[d] /\ sem'[csem[d]] = sem[csem[d]]
    <3>1. d # c /\ cpc[d] = "wait" /\ csem'[d] = csem[d]
      BY <1>1, <2>1, <2>2 DEF TypeOK, TypeCallers
    <3>2. csem[d] \in Sems /\ csem[d] # csem[c]
      BY <3>1 DEF IInv, Owned, Separate, TypeOK, TypeCallers
    <3>3. QED
      BY <1>1, <2>1, <3>1, <3>2 DEF TypeOK, TypeCallers
  <2>3. ASSUME NEW d \in Callers, d # c, NEW i \in DOMAIN queue, queue[i].live,
               queue[i].caller = d
        PROVE  i \in DOMAIN queue' /\ queue'[i].live /\ queue'[i].caller = d
    BY <2>1, <2>3 DEF Orphan
  <2>4. ASSUME NEW d \in Callers, d # c, pc = "exec", cmd.live, cmd.caller = d
        PROVE  cmd'.live /\ cmd'.caller = d
    <3>1. cmd # NoCommand /\ cmd \in Command
      BY <1>1, <2>4 DEF CommandPlace, TypeOK, TypeTask
    <3>2. QED
      BY <2>1, <2>4, <3>1 DEF Orphan
  <2>5. ASSUME NEW d \in Callers, cpc'[d] = "wait", sem'[csem'[d]] # "given"
        PROVE  \/ \E i \in DOMAIN queue' : queue'[i].live /\ queue'[i].caller = d
               \/ pc' = "exec" /\ cmd'.live /\ cmd'.caller = d
    <3>1. d # c /\ cpc[d] = "wait" /\ sem[csem[d]] # "given"
      BY <2>2, <2>5
    <3>2. CASE \E i \in DOMAIN queue : queue[i].live /\ queue[i].caller = d
      BY <2>3, <3>1, <3>2
    <3>3. CASE pc = "exec" /\ cmd.live /\ cmd.caller = d
      BY <2>1, <2>4, <3>1, <3>3
    <3>4. QED
      BY <3>1, <3>2, <3>3 DEF Pending
  <2>6. QED
    BY <2>5 DEF Pending
<1>5. CASE Tick
  <2>1. /\ UNCHANGED <<cpc, csem, sem, pc>> /\ pc = "start"
        /\ queue' = [i \in DOMAIN queue |-> Age(queue[i])]
    BY <1>5 DEF Tick, Steady, TypeOK
  <2>2. \A i \in DOMAIN queue : queue[i] \in Command
    BY <1>1 DEF TypeOK, TypeShared
  <2>3. \A i \in DOMAIN queue :
          queue'[i].live = queue[i].live /\ queue'[i].caller = queue[i].caller
    BY <2>1, <2>2, AgeType
  <2>4. DOMAIN queue' = DOMAIN queue
    BY <2>1
  <2>5. QED
    BY <2>1, <2>3, <2>4 DEF Pending
<1>6. CASE TcpServer \/ (\E t \in Targets : SetTarget(t)) \/ LinkChange \/ Trip
           \/ UNCHANGED vars
  <2>1. UNCHANGED <<pc, cmd, queue, cpc, csem, sem>>
    BY <1>6
    DEF TcpServer, TcpRequest, TcpPost, TcpWake, TcpGiveUp, TcpReturn, TcpClose, SetTarget,
        LinkChange, Trip, vars, task, shared, callers
  <2>2. QED
    BY <2>1 DEF Pending
<1>7. QED
  BY <1>2, <1>3, <1>4, <1>5, <1>6, TaskPending DEF Next, Caller, Wake, GiveUp

\* The initial states satisfy the invariant.
LEMMA InitQuiet == Init /\ QuietLine => QuietInv
<1> SUFFICES ASSUME Init, QuietLine PROVE QuietInv
  OBVIOUS
<1>1. Steady
  BY TimingAssumption DEF Init, QuietLine, Steady
<1>2. OnTime /\ Fresh /\ Pending
  BY DEF Init, OnTime, Fresh, Pending
<1>3. QED
  BY <1>1, <1>2 DEF QuietInv

\* On a line that answers, a queue of any length whose callers have a place each is
\* served before a command expires, and no call times out.
THEOREM QuietSafe == Spec => []QuietLink
<1>1. Init => IInv /\ (QuietLine => QuietInv)
  BY InitIInv, InitQuiet
<1>2. IInv /\ (QuietLine => QuietInv) /\ [Next]_vars => IInv' /\ (QuietLine => QuietInv)'
  <2>1. IInv /\ [Next]_vars => IInv'
    BY IInvStep
  <2>2. IInv /\ QuietLine /\ QuietInv /\ [Next]_vars => QuietInv'
    BY SteadyStep, OnTimeStep, FreshStep, PendingStep DEF QuietInv
  <2>3. QuietLine' => QuietLine
    BY DEF QuietLine
  <2>4. QED
    BY <2>1, <2>2, <2>3
<1>3. IInv /\ (QuietLine => QuietInv) => QuietLink
  <2>1. ASSUME IInv, QuietLine, QuietInv
        PROVE  /\ pc = "receive" /\ queue # <<>> => Head(queue).ttl > 0
               /\ \A c \in Callers : cpc[c] = "wait" /\ left[c] = 0 => sem[csem[c]] = "given"
    <3>1. Steady /\ OnTime /\ Pending
      BY <2>1 DEF QuietInv
    <3>2. ASSUME queue # <<>> PROVE Head(queue).ttl > 0
      <4>1. 1 \in DOMAIN queue /\ Head(queue) = queue[1]
        BY <2>1, <3>2 DEF IInv, TypeOK, TypeShared
      <4>2. QED
        BY <2>1, <3>1, <4>1, AllLive
    <3>3. ASSUME NEW c \in Callers, cpc[c] = "wait", sem[csem[c]] # "given"
          PROVE  left[c] > 0
      <4>1. CASE \E i \in DOMAIN queue : queue[i].live /\ queue[i].caller = c
        BY <2>1, <3>1, <4>1, AllLive
      <4>2. CASE pc = "exec" /\ cmd.live /\ cmd.caller = c
        BY <2>1, <3>1, <4>2 DEF IInv, InTime, CommandSafe, Steady
      <4>3. QED
        BY <3>1, <3>3, <4>1, <4>2 DEF Pending
    <3>4. QED
      BY <3>2, <3>3
  <2>2. QED
    BY <2>1 DEF QuietLink, QuietLine
<1>4. QED
  BY <1>1, <1>2, <1>3, PTL DEF Spec

=============================================================================
