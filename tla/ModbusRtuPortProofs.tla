------------------------ MODULE ModbusRtuPortProofs ------------------------
(***************************************************************************)
(* Proofs about the serial port.  The inductive invariant says what the    *)
(* receiver may hold (Receiver), whose frames are under way (Answers), how *)
(* often the regulator can still take the request (Counted), and how many  *)
(* attempts an exchange has for what it still has to overcome (Enough).    *)
(***************************************************************************)
EXTENDS ModbusRtuPort, TLAPS

------------------------------------------------------------------------------
(* The inductive invariant                                                 *)

Receiver ==
  /\ rxState = "run" => got = "none"
  /\ dma.on => rxState = "run"
  /\ uartRxSem => rxState = "success" \/ pc = "recv"

Answers ==
  began = "settled" /\ pc # "idle" =>
    /\ tx.own \/ tx \in {NoFrame, Garbage}
    /\ board.own \/ board = NoFrame
    /\ dma.on => dma.dst = Dst
    /\ board.own => taken > 0
    /\ pc = "recv" /\ got # "none" => (buf[Dst].own /\ taken > 0) \/ buf[Dst] = Garbage

\* The attempts that are still to send the request
Sends == IF pc = "send" THEN try ELSE IF pc = "recv" THEN try - 1 ELSE 0

\* An attempt sends the request once, and it is taken once or lost
Counted ==
  taken + (IF tx.own THEN 1 ELSE 0) + Sends =< IF req.raw THEN 1 ELSE Tries

\* Nothing is under way; the receiver waits for the answer; it has it
Clean     == tx = NoFrame /\ board = NoFrame
Listening == rxState = "run" /\ dma = [on |-> TRUE, dst |-> Dst] /\ got = "none"
Arrived   == rxState = "success" /\ uartRxSem /\ got = req.shape /\ buf[Dst] = Own(req.shape)
Asked     ==
  \/ board = Own(req.shape) /\ tx \in {Own(req.shape), NoFrame}
  \/ board = NoFrame /\ tx = Own(req.shape)
AskedOnce == Asked /\ (board = NoFrame \/ tx = NoFrame)

\* This attempt succeeds
Good ==
  \/ pc = "send" /\ ~uartRxSem /\ Clean /\ (Listening \/ rxState = "success")
  \/ pc = "send" /\ ~uartRxSem /\ Listening /\ tx = NoFrame /\ board = Own(req.shape)
  \/ pc = "recv" /\ ~uartRxSem /\ Listening /\ Asked
  \/ pc = "recv" /\ Arrived

\* The next one does at the latest: this one may be cut off, or received elsewhere
GoodNext ==
  \/ pc = "send" /\ ~uartRxSem /\ Listening /\ tx = Own(req.shape) /\ board = NoFrame
  \/ pc = "recv" /\ ~uartRxSem /\ Listening /\ tx \in {Garbage, NoFrame} /\ board = NoFrame
  \/ pc = "send" /\ ~uartRxSem /\ Clean /\ rxState = "run"
  \/ pc = "recv" /\ ~uartRxSem /\ rxState = "run" /\ AskedOnce
  \/ pc = "recv" /\ uartRxSem /\ rxState = "success" /\ Clean

\* The one after it does at the latest: the semaphore came too late
GoodThird ==
  \/ pc = "send" /\ uartRxSem /\ Clean /\ rxState = "success"
  \/ pc = "recv" /\ uartRxSem /\ Listening /\ AskedOnce

Enough ==
  calm /\ began # "outstanding" /\ ~req.raw /\ pc # "idle" =>
    (Good /\ try >= 1) \/ (GoodNext /\ try >= 2) \/ (GoodThird /\ try >= 3)

Positive == pc # "idle" => try > 0 /\ req.shape \in Shapes

Port == TypeOK /\ Positive /\ Receiver /\ Answers /\ AnswerIsOwn
IInv == Port /\ Counted

------------------------------------------------------------------------------
(* Types                                                                   *)

\* Frames are told apart by their shapes.
LEMMA Shapely == "none" \notin Shapes /\ "garbage" \notin Shapes
BY TriesAssumption

LEMMA NoFrames ==
  /\ NoFrame.shape = "none" /\ ~NoFrame.own /\ Garbage.shape = "garbage" /\ ~Garbage.own
  /\ NoFrame # Garbage /\ NoFrame \notin Frame /\ Garbage \notin Frame
BY Shapely DEF NoFrame, Garbage, Frame

LEMMA FrameTypes == ASSUME NEW f \in Frame PROVE f.shape \in Shapes /\ f.own \in BOOLEAN
BY Zenon DEF Frame

LEMMA OwnFrame == ASSUME NEW s \in Shapes
  PROVE Own(s) \in Frame /\ Own(s).shape = s /\ Own(s).own
BY DEF Own, Frame

LEMMA Disowned ==
  /\ \A f \in Frame : Disown(f) \in Frame
  /\ Disown(NoFrame) = NoFrame /\ Disown(Garbage) = Garbage
  /\ \A f : Disown(f).own = FALSE
<1>1. ASSUME NEW f \in Frame PROVE Disown(f) \in Frame
  <2>1. FALSE \in BOOLEAN
    OBVIOUS
  <2>2. QED
    BY <2>1, FrameTypes, Zenon DEF Frame, Disown
<1>2. QED
  BY <1>1 DEF NoFrame, Garbage, Disown

LEMMA InitInv == Init => IInv
<1> SUFFICES ASSUME Init PROVE IInv
  OBVIOUS
<1> USE DEF Init
<1>1. req \in [shape : Shapes \cup {"none"}, raw : BOOLEAN] /\ dma \in [on : BOOLEAN, dst : {"rsp", "raw"}]
  OBVIOUS
<1>2. buf \in [{"rsp", "raw"} -> Frame \cup {Garbage}]
  OBVIOUS
<1>3. try \in 0 .. Tries
  BY TriesAssumption
<1>4. TypeOK
  BY <1>1, <1>2, <1>3 DEF TypeOK
<1>5. Counted
  <2>1. ~tx.own /\ req.raw = FALSE
    BY NoFrames
  <2>2. QED
    BY <2>1, TriesAssumption DEF Counted, Sends
<1>6. QED
  BY <1>4, <1>5 DEF IInv, Port, Positive, Receiver, Answers, AnswerIsOwn

------------------------------------------------------------------------------
(* The line                                                                *)

\* The parts of TypeOK that an interrupt changes, and what it leaves in the receiver
LEMMA Arriving == ASSUME TypeOK, NEW f \in Frame \cup {Garbage}, Arrive(f)
  PROVE /\ dma' \in [on : BOOLEAN, dst : {"rsp", "raw"}] /\ rxState' = "success" /\ uartRxSem' = TRUE
        /\ got' \in Shapes \cup {"none", "garbage"}
        /\ buf' \in [{"rsp", "raw"} -> Frame \cup {Garbage}]
        /\ dma'.on = FALSE /\ dma'.dst = dma.dst
        /\ dma.on => got' = f.shape /\ buf' = [buf EXCEPT ![dma.dst] = f] /\ buf'[dma.dst] = f
        /\ ~dma.on => got' = got /\ buf' = buf
<1> USE DEF Arrive
<1>1. dma \in [on : BOOLEAN, dst : {"rsp", "raw"}] /\ dma.dst \in {"rsp", "raw"}
  BY DEF TypeOK
<1>2. dma' \in [on : BOOLEAN, dst : {"rsp", "raw"}] /\ dma'.on = FALSE /\ dma'.dst = dma.dst
  BY <1>1
<1>3. f.shape \in Shapes \cup {"garbage"}
  BY FrameTypes, NoFrames
<1>4. buf \in [{"rsp", "raw"} -> Frame \cup {Garbage}]
  BY DEF TypeOK
<1>5. /\ got' \in Shapes \cup {"none", "garbage"}
      /\ buf' \in [{"rsp", "raw"} -> Frame \cup {Garbage}]
      /\ dma.on => buf'[dma.dst] = f
  BY <1>1, <1>3, <1>4 DEF TypeOK
<1>6. QED
  BY <1>2, <1>5

LEMMA TxStep == ASSUME IInv, TxComplete PROVE Port'
<1> USE DEF TxComplete, IInv, Port, uart
<1>1. board' \in Frame \cup {NoFrame} /\ tx' \in Frame \cup {NoFrame, Garbage}
  BY DEF TypeOK
<1>a. taken' \in 0 .. Tries
  <2>1. taken \in Nat /\ Tries \in Nat /\ Tries > 0 /\ Sends \in Nat
    BY TriesAssumption DEF TypeOK, Positive, Sends
  <2>2. tx.own => taken + 1 =< Tries
    BY <2>1 DEF Counted
  <2>3. taken' \in {taken, IF tx.own THEN taken + 1 ELSE taken}
    OBVIOUS
  <2>4. QED
    BY <2>1, <2>2, <2>3 DEF TypeOK
<1>2. TypeOK'
  BY <1>1, <1>a DEF TypeOK
<1>3. Answers'
  <2>1. taken \in Nat
    BY DEF TypeOK
  <2>2. QED
    BY <2>1, NoFrames DEF Answers, Dst
<1>4. AnswerIsOwn'
  <2>1. taken \in Nat
    BY DEF TypeOK
  <2>2. taken > 0 => taken' > 0
    BY <2>1
  <2>3. QED
    BY <2>2 DEF AnswerIsOwn
<1>5. QED
  BY <1>2, <1>3, <1>4 DEF Positive, Receiver

LEMMA AnswerStep == ASSUME IInv, Answer PROVE Port'
<1> USE DEF Answer, IInv, Port
<1>1. board \in Frame
  BY DEF TypeOK
<1>2. TypeOK'
  <2>1. calm' \in BOOLEAN
    BY Zenon DEF TypeOK
  <2>2. QED
    BY <1>1, <2>1, Arriving DEF TypeOK
<1>3. Receiver'
  BY <1>1, Arriving DEF Receiver
<1>4. Answers'
  <2> SUFFICES ASSUME began = "settled", pc # "idle" PROVE Answers'
    BY DEF Answers
  <2>1. Dst' = Dst /\ (dma.on => dma.dst = Dst) /\ board.own
    BY NoFrames DEF Dst, Answers
  <2>2. CASE dma.on
    BY <1>1, <2>1, <2>2, Arriving, NoFrames DEF Answers
  <2>3. CASE ~dma.on
    BY <1>1, <2>1, <2>3, Arriving, NoFrames DEF Answers
  <2>4. QED
    BY <2>2, <2>3
<1>5. QED
  BY <1>2, <1>3, <1>4 DEF Positive, AnswerIsOwn

LEMMA StrayStep == ASSUME IInv, NEW b, Arrive(Garbage), board' = b, b \in {board, NoFrame},
    calm' = FALSE, UNCHANGED <<pc, req, try, tx, result, taken, began>>
  PROVE Port'
<1> USE DEF IInv, Port
<1>1. TypeOK'
  BY Arriving DEF TypeOK
<1>2. Receiver'
  BY Arriving DEF Receiver
<1>3. Answers'
  <2> SUFFICES ASSUME began = "settled", pc # "idle" PROVE Answers'
    BY DEF Answers
  <2>1. Dst' = Dst /\ (dma.on => dma.dst = Dst)
    BY DEF Dst, Answers
  <2>2. CASE dma.on
    BY <2>1, <2>2, Arriving, NoFrames DEF Answers
  <2>3. CASE ~dma.on
    BY <2>1, <2>3, Arriving, NoFrames DEF Answers
  <2>4. QED
    BY <2>2, <2>3
<1>4. QED
  BY <1>1, <1>2, <1>3 DEF Positive, AnswerIsOwn

LEMMA LostStep == ASSUME IInv, board' = NoFrame, calm' = FALSE,
    UNCHANGED <<pc, req, try, rxState, dma, got, buf, uartRxSem, tx, result, taken, began>>
  PROVE Port'
<1> USE DEF IInv, Port
<1>1. TypeOK'
  <2>1. TypeOK /\ calm' \in BOOLEAN /\ board' \in Frame \cup {NoFrame}
    OBVIOUS
  <2>2. QED
    BY <2>1 DEF TypeOK
<1>2. Answers'
  BY DEF Answers, Dst
<1>3. QED
  BY <1>1, <1>2 DEF Positive, Receiver, AnswerIsOwn

LEMMA NoAnswerStep == ASSUME IInv, NoAnswer \/ Stray PROVE Port'
BY StrayStep, LostStep DEF NoAnswer, Stray, uart

------------------------------------------------------------------------------
(* The task                                                                *)

LEMMA StartStep == ASSUME IInv, NEW s \in Shapes, NEW raw \in BOOLEAN, Start(s, raw) PROVE Port'
<1> USE DEF Start, IInv, Port
<1>1. req' \in [shape : Shapes \cup {"none"}, raw : BOOLEAN] /\ req'.shape = s /\ req'.raw = raw
  BY Zenon
<1>2. tx' \in Frame \cup {NoFrame, Garbage} /\ board' \in Frame \cup {NoFrame}
  BY Disowned DEF TypeOK
<1>3. buf' \in [{"rsp", "raw"} -> Frame \cup {Garbage}]
  <2>1. buf.rsp \in Frame \cup {Garbage} /\ buf.raw \in Frame \cup {Garbage}
    BY DEF TypeOK
  <2>2. Disown(buf.rsp) \in Frame \cup {Garbage} /\ Disown(buf.raw) \in Frame \cup {Garbage}
    BY <2>1, Disowned
  <2>3. PICK echo \in Frame \cup {Garbage} :
          buf' = [rsp |-> Disown(buf.rsp), raw |-> IF raw THEN echo ELSE Disown(buf.raw)]
    BY OwnFrame
  <2>4. QED
    BY <2>2, <2>3
<1>4. try' \in 0 .. Tries /\ try' > 0 /\ taken' \in 0 .. Tries
  BY TriesAssumption
<1>5. began' \in {"settled", "misled", "outstanding"}
  BY DEF Begins
<1>6. TypeOK'
  BY <1>1, <1>2, <1>3, <1>4, <1>5 DEF TypeOK
<1>7. Positive' /\ Receiver'
  BY <1>1, <1>4 DEF Positive, Receiver
<1>8. Answers'
  <2>1. Dst' = IF raw THEN "raw" ELSE "rsp"
    BY <1>1 DEF Dst
  <2>2. began' = "settled" => tx = NoFrame /\ board = NoFrame /\ (dma.on => dma.dst = Dst')
    BY <2>1 DEF Begins
  <2>3. began' = "settled" => tx' = NoFrame /\ board' = NoFrame
    BY <2>2, Disowned
  <2>4. QED
    BY <2>2, <2>3, NoFrames DEF Answers
<1>9. QED
  BY <1>6, <1>7, <1>8 DEF AnswerIsOwn

LEMMA SendStep == ASSUME IInv, Send PROVE Port'
<1> USE DEF Send, IInv, Port
<1>1. Written \in Frame \cup {Garbage} /\ (Written.own \/ Written = Garbage)
  BY OwnFrame DEF Written, Positive
<1>2. Dst \in {"rsp", "raw"} /\ Dst' = Dst
  BY DEF Dst
<1>3. CASE rxState = "run" /\ UNCHANGED <<uart, board, calm>>
  <2>1. TypeOK'
    BY <1>1, <1>3 DEF TypeOK, uart
  <2>2. Receiver'
    BY <1>3 DEF Receiver, uart
  <2>3. Answers'
    BY <1>1, <1>2, <1>3 DEF Answers, Receiver, uart
  <2>4. QED
    BY <2>1, <2>2, <2>3 DEF Positive, AnswerIsOwn
<1>4. CASE (UartRead /\ UNCHANGED <<board, calm>>) \/ InterruptedRead
  <2>1. /\ dma' \in [on : BOOLEAN, dst : {"rsp", "raw"}] /\ dma'.dst = Dst
        /\ got' = "none" /\ rxState' = "run" /\ buf' = buf /\ uartRxSem' \in BOOLEAN
    <3>1. TRUE \in BOOLEAN /\ FALSE \in BOOLEAN
      OBVIOUS
    <3>2. uartRxSem' \in BOOLEAN
      BY <1>4 DEF UartRead, InterruptedRead, TypeOK
    <3>3. PICK o \in BOOLEAN : dma' = [on |-> o, dst |-> Dst]
      BY <1>4, <3>1 DEF UartRead, InterruptedRead
    <3>4. dma' \in [on : BOOLEAN, dst : {"rsp", "raw"}] /\ dma'.dst = Dst
      BY <1>2, <3>3
    <3>5. QED
      BY <1>4, <3>2, <3>4 DEF UartRead, InterruptedRead
  <2>2. board' \in {board, NoFrame} /\ calm' \in BOOLEAN
    <3>1. calm' = calm \/ calm' = (calm /\ ~board.own)
      BY <1>4 DEF InterruptedRead
    <3>2. calm' \in BOOLEAN
      BY <3>1, Zenon DEF TypeOK
    <3>3. QED
      BY <1>4, <3>2 DEF InterruptedRead
  <2>3. TypeOK'
    BY <1>1, <2>1, <2>2 DEF TypeOK
  <2>4. Receiver'
    BY <2>1 DEF Receiver
  <2>5. Answers'
    BY <1>1, <1>2, <2>1, <2>2 DEF Answers
  <2>6. QED
    BY <2>3, <2>4, <2>5 DEF Positive, AnswerIsOwn
<1>5. QED
  BY <1>3, <1>4

\* An attempt that fails
LEMMA Failing == ASSUME TypeOK, Positive, Failed, pc = "recv"
  PROVE /\ pc' \in {"idle", "send"} /\ try' \in 0 .. Tries
        /\ pc' = "send" <=> try > 1
        /\ try' = try - 1 /\ (pc' # "idle" => try' > 0)
        /\ result' \in {result, "failed"} /\ (pc' = "idle" => result' = "failed")
<1>1. try \in Nat /\ Tries \in Nat /\ try > 0 /\ try =< Tries
  BY TriesAssumption DEF TypeOK, Positive
<1>2. QED
  BY <1>1 DEF Failed, Last

LEMMA ReceivedStep == ASSUME IInv, Received PROVE Port'
<1> USE DEF Received, IInv, Port
<1>1. CASE Accepted /\ End(IF buf[Dst].own THEN "own" ELSE "other")
  <2>1. try' \in 0 .. Tries
    BY <1>1, TriesAssumption DEF End
  <2>2. TypeOK'
    <3>1. /\ uartRxSem' = FALSE /\ pc' = "idle" /\ result' \in {"own", "other"}
          /\ UNCHANGED <<req, rxState, dma, got, buf, tx, board, taken, began, calm>>
      BY <1>1 DEF End
    <3>2. QED
      BY <2>1, <3>1 DEF TypeOK
  <2>3. AnswerIsOwn'
    <3>1. began = "settled" => buf[Dst].own /\ taken' > 0
      BY <1>1 DEF Answers, Accepted
    <3>2. buf[Dst].own => result' = "own"
      BY <1>1 DEF End
    <3>3. QED
      BY <3>1, <3>2 DEF AnswerIsOwn
  <2>4. QED
    BY <1>1, <2>2, <2>3 DEF End, Positive, Receiver, Answers
<1>2. CASE Failed
  <2>1. TypeOK'
    <3>1. /\ uartRxSem' = FALSE
          /\ UNCHANGED <<req, rxState, dma, got, buf, tx, board, taken, began, calm>>
      OBVIOUS
    <3>2. result' \in {"none", "own", "other", "failed"}
      BY <1>2, Failing DEF TypeOK
    <3>3. QED
      BY <1>2, <3>1, <3>2, Failing DEF TypeOK
  <2>2. Positive' /\ Receiver'
    BY <1>2, Failing DEF Positive, Receiver
  <2>3. Answers'
    BY <1>2, Failing DEF Answers, Dst
  <2>4. QED
    BY <1>2, <2>1, <2>2, <2>3, Failing DEF AnswerIsOwn
<1>3. QED
  BY <1>1, <1>2

LEMMA TimeoutStep == ASSUME IInv, Timeout PROVE Port'
<1> USE DEF Timeout, IInv, Port, uart
<1>1. calm' \in BOOLEAN
  BY Zenon DEF TypeOK
<1>2. TypeOK'
  BY <1>1, Failing DEF TypeOK
<1>3. Positive' /\ Receiver'
  BY Failing DEF Positive, Receiver
<1>4. Answers'
  BY Failing DEF Answers, Dst
<1>5. QED
  BY <1>2, <1>3, <1>4, Failing DEF AnswerIsOwn

\* A sum that does not grow keeps its bound.
LEMMA Bounded ==
  ASSUME NEW a \in Nat, NEW b \in Nat, NEW c \in Nat, NEW n \in Nat, a + b + c =< n,
         NEW d \in Nat, NEW e \in Nat, NEW f \in Nat, d + e =< a + b, f =< c
  PROVE  d + e + f =< n
OBVIOUS

\* An attempt that is left becomes a request on the line, if there was none.
LEMMA Spent ==
  ASSUME NEW a \in Nat, NEW b \in Nat, NEW c \in Nat, NEW n \in Nat, a + b + c =< n, c > 0,
         NEW e, e = 0 \/ (e = 1 /\ b = 0)
  PROVE  a + e + (c - 1) =< n
<1>1. CASE e = 0
  BY <1>1
<1>2. CASE e = 1 /\ b = 0
  BY <1>2
<1>3. QED
  BY <1>1, <1>2

\* Each attempt sends the request once: what is cut off is garbage.
LEMMA CountedStep == ASSUME IInv, Next PROVE Counted'
<1> USE DEF IInv, Port
<1>1. /\ taken \in Nat /\ try \in Nat /\ Tries \in Nat /\ Tries > 0
      /\ (pc = "recv" => try > 0) /\ Sends \in Nat /\ (IF req.raw THEN 1 ELSE Tries) \in Nat
  BY TriesAssumption DEF TypeOK, Positive, Sends
<1>2. CASE TxComplete
  <2>1. /\ taken' = taken \/ (tx.own /\ taken' = taken + 1)
        /\ ~tx'.own /\ Sends' = Sends /\ req' = req
    BY <1>2, NoFrames DEF TxComplete, Sends
  <2>2. QED
    <3> DEFINE onWay == IF tx.own THEN 1 ELSE 0
               total == IF req.raw THEN 1 ELSE Tries
    <3>1. onWay \in Nat /\ total \in Nat /\ 0 \in Nat
      BY <1>1
    <3>2. taken' \in Nat /\ taken' + 0 =< taken + onWay
      <4>1. CASE taken' = taken
        <5> HIDE DEF onWay
        <5>1. QED
          BY <1>1, <3>1, <4>1
      <4>2. CASE tx.own /\ taken' = taken + 1
        BY <1>1, <4>2
      <4>3. QED
        BY <2>1, <4>1, <4>2
    <3>3. taken + onWay + Sends =< total /\ Sends =< Sends
      BY <1>1 DEF Counted
    <3>4. taken' + 0 + Sends =< total
      <4> HIDE DEF onWay, total
      <4>1. QED
        BY <1>1, <3>1, <3>2, <3>3, Bounded
    <3>5. QED
      BY <2>1, <3>4 DEF Counted
<1>3. CASE Answer \/ NoAnswer \/ Stray
  <2>1. taken' = taken /\ tx' = tx /\ Sends' = Sends /\ req' = req
    BY <1>3 DEF Answer, NoAnswer, Stray, Sends
  <2>2. QED
    BY <2>1 DEF Counted
<1>4. ASSUME NEW s \in Shapes, NEW raw \in BOOLEAN, Start(s, raw)
      PROVE  Counted'
  <2>1. /\ taken' = 0 /\ ~tx'.own /\ pc' = "send" /\ try' = (IF raw THEN 1 ELSE Tries)
        /\ req'.raw = raw
    BY <1>4, Disowned DEF Start
  <2>2. QED
    BY <1>1, <2>1 DEF Counted, Sends
<1>5. CASE Send
  <2>1. /\ taken' = taken /\ pc = "send" /\ pc' = "recv" /\ try' = try /\ req' = req
        /\ (tx = NoFrame \/ ~tx'.own)
    BY <1>5, NoFrames DEF Send, Written
  <2>2. try > 0 /\ Sends = try /\ Sends' = try - 1
    BY <2>1 DEF Positive, Sends
  <2>3. QED
    <3> DEFINE onWay == IF tx.own THEN 1 ELSE 0
               total == IF req.raw THEN 1 ELSE Tries
    <3>1. onWay \in Nat /\ onWay' \in Nat /\ total \in Nat /\ try - 1 \in Nat /\ total' = total
      BY <1>1, <2>1, <2>2
    <3>2. taken + onWay + try =< total
      BY <2>2 DEF Counted
    <3>3. onWay' = 0 \/ (onWay' = 1 /\ onWay = 0)
      <4>1. CASE tx = NoFrame
        BY <4>1, NoFrames
      <4>2. CASE ~tx'.own
        BY <4>2
      <4>3. QED
        BY <2>1, <4>1, <4>2
    <3>4. taken + onWay' + (try - 1) =< total
      <4> DEFINE after == onWay'
      <4>1. after = 0 \/ (after = 1 /\ onWay = 0)
        BY <3>3
      <4> HIDE DEF onWay, total, after
      <4>2. taken + after + (try - 1) =< total
        BY <1>1, <2>2, <3>1, <3>2, <4>1, Spent
      <4>3. QED
        BY <4>2 DEF after
    <3>5. QED
      BY <2>1, <2>2, <3>1, <3>4 DEF Counted
<1>6. CASE Received \/ Timeout
  <2>1. taken' = taken /\ tx' = tx /\ req' = req /\ pc = "recv"
    BY <1>6 DEF Received, Timeout
  <2>2. Sends' =< Sends
    <3>1. CASE Failed
      BY <1>1, <2>1, <3>1, Failing DEF Sends
    <3>2. CASE pc' = "idle"
      BY <1>1, <3>2 DEF Sends
    <3>3. QED
      BY <1>6, <3>1, <3>2 DEF Received, Timeout, End
  <2>3. Sends' \in Nat
    BY <1>1, <1>6, <2>1, Failing DEF Sends, Received, Timeout, End
  <2>4. QED
    <3> DEFINE onWay == IF tx.own THEN 1 ELSE 0
               total == IF req.raw THEN 1 ELSE Tries
    <3>1. onWay \in Nat /\ total \in Nat /\ taken + onWay =< taken + onWay
      BY <1>1
    <3>2. taken + onWay + Sends =< total
      BY DEF Counted
    <3>3. taken + onWay + Sends' =< total
      <4> HIDE DEF onWay, total
      <4>1. QED
        BY <1>1, <2>2, <2>3, <3>1, <3>2, Bounded
    <3>4. QED
      BY <2>1, <3>3 DEF Counted
<1>7. QED
  BY <1>2, <1>3, <1>4, <1>5, <1>6 DEF Next, Task, Line

LEMMA NextInv == IInv /\ [Next]_vars => IInv'
<1> SUFFICES ASSUME IInv, [Next]_vars PROVE IInv'
  OBVIOUS
<1>1. CASE Next
  <2>1. Port'
    BY <1>1, TxStep, AnswerStep, NoAnswerStep, StartStep, SendStep, ReceivedStep, TimeoutStep
       DEF Next, Task, Line
  <2>2. QED
    BY <1>1, <2>1, CountedStep DEF IInv
<1>2. CASE UNCHANGED vars
  <2>1. UNCHANGED <<pc, req, try, rxState, dma, got, buf, uartRxSem, tx, board, result, taken, began, calm>>
    BY <1>2 DEF vars, uart
  <2>2. TypeOK'
    BY <2>1 DEF IInv, Port, TypeOK
  <2>3. Answers'
    BY <2>1 DEF IInv, Port, Answers, Dst
  <2>4. Counted'
    BY <2>1 DEF IInv, Counted, Sends
  <2>5. QED
    BY <2>1, <2>2, <2>3, <2>4 DEF IInv, Port, Positive, Receiver, AnswerIsOwn
<1>3. QED
  BY <1>1, <1>2

LEMMA Always == Spec => []IInv
BY InitInv, NextInv, PTL DEF Spec

\* Every variable of the port keeps its type (rtuport.c, uart.c:306-353).
THEOREM TypeCorrect == Spec => []TypeOK
<1>1. IInv => TypeOK
  BY DEF IInv, Port
<1>2. QED
  BY <1>1, Always, PTL

\* On a line with nothing outstanding no exchange takes another one's answer
\* (rtuport.c:52-58).
THEOREM OwnAnswers == Spec => []AnswerIsOwn
<1>1. IInv => AnswerIsOwn
  BY DEF IInv, Port
<1>2. QED
  BY <1>1, Always, PTL

------------------------------------------------------------------------------
(* Three attempts.  Calm says that the exchange has had a line that works,  *)
(* and one lemma for each step says that enough attempts remain.           *)

Calm == calm /\ began # "outstanding" /\ ~req.raw /\ pc # "idle"

LEMMA OwnShape == ASSUME IInv, pc # "idle"
  PROVE /\ req.shape \in Shapes /\ Own(req.shape).shape = req.shape
        /\ Own(req.shape) # NoFrame /\ Own(req.shape) # Garbage
        /\ Own(req.shape).own /\ req.shape # "none"
BY OwnFrame, NoFrames, Shapely DEF IInv, Port, Positive

LEMMA EnoughTx == ASSUME IInv, Enough, TxComplete PROVE Enough'
<1> SUFFICES ASSUME Calm PROVE Enough'
  BY DEF Enough, Calm, TxComplete
<1>1. /\ UNCHANGED <<pc, req, try, rxState, dma, got, buf, uartRxSem, calm, began>>
      /\ tx # NoFrame /\ tx' = NoFrame
      /\ \/ board' = IF tx = Garbage THEN board ELSE tx
         \/ board # NoFrame /\ board' = board
  BY DEF TxComplete, uart
<1>2. UNCHANGED <<Dst, Listening, Arrived>> /\ Dst' = Dst
  BY <1>1 DEF Dst, Listening, Arrived
<1> USE <1>1, <1>2, OwnShape DEF Calm, Enough, Clean
<1>3. ASSUME Good PROVE Good'
  BY <1>3 DEF Good, Asked
<1>4. ASSUME GoodNext PROVE (Good \/ GoodNext)'
  BY <1>4 DEF Good, GoodNext, Asked, AskedOnce
<1>5. ASSUME GoodThird PROVE GoodThird'
  BY <1>5 DEF GoodThird, Asked, AskedOnce
<1>6. QED
  BY <1>3, <1>4, <1>5 DEF IInv, Port, TypeOK

LEMMA EnoughAnswer == ASSUME IInv, Enough, Answer PROVE Enough'
<1> SUFFICES ASSUME Calm, ~(pc = "send" /\ board.own) PROVE Enough'
  BY DEF Enough, Calm, Answer
<1>1. /\ UNCHANGED <<pc, req, try, tx, began>>
      /\ board # NoFrame /\ board' = NoFrame /\ board \in Frame
      /\ rxState' = "success" /\ uartRxSem'
      /\ dma.on => got' = board.shape /\ buf'[dma.dst] = board
  BY Arriving DEF Answer, IInv, Port, TypeOK
<1>2. Dst' = Dst
  BY <1>1 DEF Dst
<1>3. Listening /\ board = Own(req.shape) => Arrived'
  BY <1>1, <1>2, OwnShape DEF Listening, Arrived, Calm
<1> USE <1>1, <1>3, OwnShape DEF Calm, Enough, Clean
<1>4. ASSUME Good PROVE Good'
  <2>1. Arrived => Arrived'
    BY Arriving, <1>2 DEF Answer, IInv, Port, Receiver, TypeOK, Arrived
  <2>2. QED
    BY <1>4, <2>1 DEF Good, Asked
<1>5. ASSUME GoodNext PROVE GoodNext'
  BY <1>5 DEF GoodNext, Asked, AskedOnce
<1>6. ASSUME GoodThird PROVE (Good \/ GoodNext)'
  BY <1>6 DEF Good, GoodNext, GoodThird, Asked, AskedOnce
<1>7. QED
  BY <1>4, <1>5, <1>6 DEF IInv, Port, TypeOK

LEMMA EnoughSend == ASSUME IInv, Enough, Send PROVE Enough'
<1> SUFFICES ASSUME Calm, calm' PROVE Enough'
  BY DEF Enough, Calm, Send, InterruptedRead
<1>1. /\ pc = "send" /\ pc' = "recv" /\ UNCHANGED <<req, try, began>>
      /\ tx' = Written /\ Dst' = Dst
  BY DEF Send, Dst
<1>2. \/ rxState = "run" /\ UNCHANGED <<rxState, dma, got, buf, uartRxSem, board>>
      \/ /\ rxState # "run" /\ Listening' /\ uartRxSem' = uartRxSem /\ board' = board
      \/ rxState # "run" /\ board # NoFrame
  BY <1>1 DEF Send, UartRead, InterruptedRead, Listening, uart
<1>3. rxState = "run" => Listening' = Listening
  BY <1>1, <1>2 DEF Listening
<1>4. Written = IF tx = NoFrame THEN Own(req.shape) ELSE Garbage
  BY DEF Written
<1> USE <1>1, <1>2, <1>3, <1>4, OwnShape DEF Calm, Enough, Clean
<1>5. ASSUME Good PROVE Good'
  <2>1. rxState # "run" => board = NoFrame
    BY <1>5 DEF Good, Listening
  <2>2. QED
    BY <2>1, <1>5 DEF Good, Asked
<1>6. ASSUME GoodNext PROVE GoodNext'
  <2>1. rxState = "run"
    BY <1>6 DEF GoodNext, Listening
  <2>2. QED
    BY <2>1, <1>6 DEF GoodNext, Asked, AskedOnce
<1>7. ASSUME GoodThird PROVE GoodThird'
  BY <1>7 DEF GoodThird, Asked, AskedOnce
<1>8. QED
  BY <1>5, <1>6, <1>7 DEF IInv, Port, TypeOK

LEMMA EnoughStart == ASSUME Tries >= 3, IInv, NEW s \in Shapes, NEW raw \in BOOLEAN, Start(s, raw)
  PROVE Enough'
<1> SUFFICES ASSUME Calm' PROVE Enough'
  BY DEF Enough, Calm
<1>1. /\ pc = "idle" /\ pc' = "send" /\ req' = [shape |-> s, raw |-> raw] /\ tx' = Disown(tx)
      /\ try' = (IF raw THEN 1 ELSE Tries) /\ UNCHANGED <<rxState, dma, got, uartRxSem>>
      /\ board' = Disown(board) /\ began' = Begins(IF raw THEN "raw" ELSE "rsp")
  BY DEF Start
<1>2. ~raw /\ try' = Tries
  BY <1>1 DEF Calm
<1>3. Clean'
  <2>1. tx = NoFrame /\ board = NoFrame
    BY <1>1 DEF Begins, Calm
  <2>2. QED
    BY <1>1, <2>1, Disowned DEF Clean
<1>4. uartRxSem \in BOOLEAN /\ (uartRxSem => rxState = "success") /\ rxState \in {"run", "success"}
  BY <1>1 DEF IInv, Port, TypeOK, Receiver
<1>5. Good' \/ GoodNext' \/ GoodThird'
  BY <1>1, <1>3, <1>4 DEF Good, GoodNext, GoodThird
<1>6. Tries \in Nat
  BY TriesAssumption
<1>7. QED
  BY <1>2, <1>5, <1>6 DEF Enough

LEMMA EnoughReceived == ASSUME IInv, Enough, Received PROVE Enough' /\ (TriesSuffice => TriesSuffice')
<1> SUFFICES ASSUME Calm PROVE Enough' /\ TriesSuffice'
  BY DEF Enough, TriesSuffice, Calm, Received
<1>1. /\ pc = "recv" /\ uartRxSem /\ ~uartRxSem'
      /\ UNCHANGED <<req, rxState, dma, got, buf, tx, board, calm, began>> /\ Dst' = Dst
  BY DEF Received, Dst
<1>2. Listening' = Listening /\ try \in Nat
  BY <1>1 DEF Listening, IInv, Port, TypeOK
<1>3. CASE Accepted
  BY <1>1, <1>3 DEF Received, End, Enough, TriesSuffice
<1>4. CASE ~Accepted
  <2>1. Failed
    BY <1>4 DEF Received
  <2>2. ~(Good /\ try >= 1)
    BY <1>1, <1>4, OwnShape DEF Good, Arrived, Accepted, Calm
  <2>3. (GoodNext /\ try >= 2) \/ (GoodThird /\ try >= 3)
    BY <2>2 DEF Enough, Calm
  <2>4. try > 1 /\ pc' = "send" /\ try' = try - 1
    BY <1>1, <1>2, <2>1, <2>3, Failing DEF IInv, Port
  <2>5. GoodNext => Good'
    BY <1>1, <1>2, <2>4 DEF GoodNext, Good, Clean
  <2>6. GoodThird => (Good \/ GoodNext)'
    <3> SUFFICES ASSUME GoodThird PROVE (Good \/ GoodNext)'
      OBVIOUS
    <3>1. Listening' /\ AskedOnce
      BY <1>1, <1>2 DEF GoodThird
    <3>2. QED
      BY <1>1, <2>4, <3>1 DEF GoodNext, Good, Asked, AskedOnce
  <2>7. QED
    BY <1>2, <2>3, <2>4, <2>5, <2>6 DEF Enough, TriesSuffice
<1>5. QED
  BY <1>3, <1>4

LEMMA EnoughTimeout == ASSUME IInv, Enough, Timeout PROVE Enough' /\ (TriesSuffice => TriesSuffice')
<1>1. /\ pc = "recv" /\ ~uartRxSem /\ tx = NoFrame /\ Failed
      /\ UNCHANGED <<req, rxState, dma, got, buf, uartRxSem, tx, board, began>> /\ Dst' = Dst
  BY DEF Timeout, uart, Dst
<1>2. CASE board # NoFrame \/ ~Calm
  <2>1. calm' = FALSE \/ ~(began' # "outstanding" /\ ~req'.raw)
    BY <1>1, <1>2 DEF Timeout, Calm
  <2>2. QED
    BY <2>1 DEF Enough, TriesSuffice
<1>3. CASE board = NoFrame /\ Calm
  <2>1. Listening' = Listening /\ try \in Nat
    BY <1>1 DEF Listening, IInv, Port, TypeOK
  <2>2. ~Good /\ ~GoodThird
    BY <1>1, <1>3, OwnShape DEF Good, GoodThird, Asked, Arrived, Calm
  <2>3. GoodNext /\ Listening /\ try >= 2
    BY <1>1, <1>3, <2>2, OwnShape DEF Enough, GoodNext, AskedOnce, Asked, Calm
  <2>4. pc' = "send" /\ try' = try - 1
    BY <1>1, <2>1, <2>3, Failing DEF IInv, Port
  <2>5. Good'
    BY <1>1, <1>3, <2>1, <2>3, <2>4 DEF Good, Clean
  <2>6. QED
    BY <2>1, <2>3, <2>4, <2>5 DEF Enough, TriesSuffice
<1>4. QED
  BY <1>2, <1>3

LEMMA EnoughNext == ASSUME Tries >= 3, IInv, Enough, TriesSuffice, [Next]_vars
  PROVE Enough' /\ TriesSuffice'
<1>1. CASE TxComplete \/ Answer \/ Send
  <2>1. Enough'
    BY <1>1, EnoughTx, EnoughAnswer, EnoughSend
  <2>2. (pc' = "idle" => pc = "idle") /\ UNCHANGED <<req, began, result>>
    BY <1>1 DEF TxComplete, Answer, Send
  <2>3. calm' => calm
    <3>1. CASE calm' = calm
      BY <3>1
    <3>2. CASE calm' = (calm /\ ~(pc = "send" /\ board.own)) \/ calm' = (calm /\ ~board.own)
      BY <3>2, Zenon
    <3>3. QED
      BY <1>1, <3>1, <3>2 DEF TxComplete, Answer, Send, InterruptedRead
  <2>4. QED
    BY <2>1, <2>2, <2>3 DEF TriesSuffice
<1>2. CASE NoAnswer \/ Stray
  BY <1>2 DEF NoAnswer, Stray, Enough, TriesSuffice
<1>3. ASSUME NEW s \in Shapes, NEW raw \in BOOLEAN, Start(s, raw) PROVE Enough' /\ TriesSuffice'
  BY <1>3, EnoughStart DEF Start, TriesSuffice
<1>4. CASE Received \/ Timeout
  BY <1>4, EnoughReceived, EnoughTimeout
<1>5. CASE UNCHANGED vars
  BY <1>5 DEF vars, uart, Enough, TriesSuffice, Good, GoodNext, GoodThird, Clean, Listening,
              Arrived, Asked, AskedOnce, Dst
<1>6. QED
  BY <1>1, <1>2, <1>3, <1>4, <1>5 DEF Next, Task, Line

\* Three attempts are enough on a line that answers, whatever state the port was
\* left in (rtuport.c:52-55, regulatorConnTSK.c:276-312).
THEOREM ThreeTriesSuffice == ASSUME Tries >= 3 PROVE Spec => []TriesSuffice
<1>1. Init => Enough /\ TriesSuffice
  BY DEF Init, Enough, TriesSuffice
<1>2. IInv /\ Enough /\ TriesSuffice /\ [Next]_vars => Enough' /\ TriesSuffice'
  BY EnoughNext
<1>3. QED
  BY <1>1, <1>2, Always, PTL DEF Spec

=============================================================================
