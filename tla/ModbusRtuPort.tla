--------------------------- MODULE ModbusRtuPort ---------------------------
(***************************************************************************)
(* The serial port to the regulator (libmodbusport/rtuport.c) with the     *)
(* receiver of USART1 (hal/src/uart.c), as libmodbus and the exchanges of  *)
(* the regulator task use it.  Nothing stops a reception that timed out,   *)
(* and nothing takes back a semaphore that came too late: this module says *)
(* what an answer that is accepted may then be.                            *)
(***************************************************************************)
EXTENDS Naturals

CONSTANTS
  Shapes,   \* the function and the number of values of a request and its answer
  Tries     \* of an exchange

ASSUME TriesAssumption == Tries \in Nat \ {0} /\ {"none", "garbage"} \cap Shapes = {}

\* own: it belongs to the present exchange
Frame   == [shape : Shapes, own : BOOLEAN]
NoFrame == [shape |-> "none", own |-> FALSE]
Garbage == [shape |-> "garbage", own |-> FALSE]

VARIABLES
  pc,           \* of the task: "idle", "send" or "recv"
  req,          \* the request: its shape, and whether it is a raw message
  try,          \* attempts left, as in the loops
  rxState,      \* of the UART: "run" or "success"
  dma,          \* the receive stream: whether it is on, and the buffer it fills
  got,          \* the shape of what came since uart_read (256 - NDTR tells its length)
  buf,          \* the frames in the two buffers, rsp of libmodbus and the raw message
  uartRxSem,
  tx, board,    \* the request on the line, and the one that the regulator handles
  result,       \* of the last exchange: "own", "other" (the answer of an earlier one), "failed"
  taken,        \* history: how many times the regulator has taken its request
  began,        \* history: with what the exchange began, see Begins
  calm          \* history: since then the line did what it should

uart == <<rxState, dma, got, buf, uartRxSem>>
vars == <<pc, req, try, uart, tx, board, result, taken, began, calm>>

Init ==
  /\ pc = "idle" /\ req = [shape |-> "none", raw |-> FALSE] /\ try = 0
  /\ rxState = "success" /\ dma = [on |-> FALSE, dst |-> "rsp"] /\ got = "none"
  /\ buf = [rsp |-> Garbage, raw |-> Garbage] /\ uartRxSem = FALSE
  /\ tx = NoFrame /\ board = NoFrame
  /\ result = "none" /\ taken = 0 /\ began = "settled" /\ calm = TRUE

Disown(f) == [shape |-> f.shape, own |-> FALSE]
Own(s)    == [shape |-> s, own |-> TRUE]
Dst       == IF req.raw THEN "raw" ELSE "rsp"

------------------------------------------------------------------------------
(* Faulty variants of definitions below: each is a plausible slip that one *)
(* of the properties must detect.                                          *)

FaultUartRead ==                       \* NDTR is not set again
  /\ dma' = [on |-> TRUE, dst |-> Dst] /\ rxState' = "run" /\ UNCHANGED <<got, buf, uartRxSem>>
FaultTries == try =< 2                 \* while(--try)

------------------------------------------------------------------------------
(* The line and the interrupt                                              *)

\* The end of a frame on the line: the DMA has stored it if it was on, the IDLE
\* interrupt stops it and gives the semaphore
Arrive(f) ==
  /\ IF dma.on THEN got' = f.shape /\ buf' = [buf EXCEPT ![dma.dst] = f]
               ELSE UNCHANGED <<got, buf>>
  /\ dma' = [dma EXCEPT !.on = FALSE]
  /\ rxState' = "success" /\ uartRxSem' = TRUE

\* The request is out; a regulator that still handles another one drops either
TxComplete ==
  /\ tx # NoFrame
  /\ tx' = NoFrame
  /\ \/ board' = (IF tx = Garbage THEN board ELSE tx) /\ taken' = IF tx.own THEN taken + 1 ELSE taken
     \/ board # NoFrame /\ UNCHANGED <<board, taken>>
  /\ UNCHANGED <<pc, req, try, uart, result, began, calm>>

\* The answer ends; between two attempts that of the exchange itself is late
Answer ==
  /\ board # NoFrame
  /\ board' = NoFrame /\ calm' = (calm /\ ~(pc = "send" /\ board.own))
  /\ Arrive(board)
  /\ UNCHANGED <<pc, req, try, tx, result, taken, began>>

\* The answer does not come, or is damaged
NoAnswer ==
  /\ board # NoFrame
  /\ board' = NoFrame /\ calm' = FALSE
  /\ UNCHANGED uart \/ Arrive(Garbage)
  /\ UNCHANGED <<pc, req, try, tx, result, taken, began>>

Stray ==
  /\ Arrive(Garbage) /\ calm' = FALSE
  /\ UNCHANGED <<pc, req, try, tx, board, result, taken, began>>

------------------------------------------------------------------------------
(* The task                                                                *)

\* An earlier request is still unanswered; or the answer of a lost one is still
\* awaited, in the other buffer
Begins(dst) ==
  IF tx # NoFrame \/ board # NoFrame THEN "outstanding"
  ELSE IF dma.on /\ dma.dst # dst THEN "misled" ELSE "settled"

\* writeReg, writeRegs, readRegs, rawModbusMessage.  The raw buffer holds the
\* request, which of some functions looks like the answer.
Start(s, raw) ==
  /\ pc = "idle"
  /\ pc' = "send" /\ req' = [shape |-> s, raw |-> raw]
  /\ try' = IF raw THEN 1 ELSE Tries
  /\ tx' = Disown(tx) /\ board' = Disown(board)
  /\ \E echo \in {Garbage, Own(s)} :
       buf' = [rsp |-> Disown(buf.rsp), raw |-> IF raw THEN echo ELSE Disown(buf.raw)]
  /\ began' = Begins(IF raw THEN "raw" ELSE "rsp") /\ calm' = TRUE /\ taken' = 0
  /\ UNCHANGED <<rxState, dma, got, uartRxSem, result>>

\* uart_write starts over: what is still being sent is cut off
Written == IF tx = NoFrame THEN Own(req.shape) ELSE Garbage

UartRead ==
  /\ dma' = [on |-> TRUE, dst |-> Dst] /\ got' = "none" /\ rxState' = "run"
  /\ UNCHANGED <<buf, uartRxSem>>

\* An answer ends while uart_read runs: its interrupt is over when rxState is set
InterruptedRead ==
  /\ board # NoFrame
  /\ board' = NoFrame /\ calm' = (calm /\ ~board.own)
  /\ dma' = [on |-> FALSE, dst |-> Dst] /\ got' = "none" /\ rxState' = "run"
  /\ uartRxSem' = TRUE /\ UNCHANGED buf

\* modbus_serial_send and the begin of modbus_serial_recv
Send ==
  /\ pc = "send"
  /\ pc' = "recv" /\ tx' = Written
  /\ \/ rxState = "run" /\ UNCHANGED <<uart, board, calm>>
     \/ rxState # "run" /\ UartRead /\ UNCHANGED <<board, calm>>
     \/ rxState # "run" /\ InterruptedRead
  /\ UNCHANGED <<req, try, result, taken, began>>

\* The checks of libmodbus: the length by what stands in the buffer, its CRC, and
\* against the request; those of a raw message leave the last one out
Accepted ==
  /\ got # "none" /\ got = buf[Dst].shape /\ buf[Dst] # Garbage
  /\ req.raw \/ got = req.shape

End(r) == pc' = "idle" /\ try' = 0 /\ result' = r

Last == try = 1

Failed ==
  /\ try' = try - 1
  /\ IF Last THEN pc' = "idle" /\ result' = "failed" ELSE pc' = "send" /\ UNCHANGED result

Received ==
  /\ pc = "recv" /\ uartRxSem
  /\ uartRxSem' = FALSE
  /\ IF Accepted THEN End(IF buf[Dst].own THEN "own" ELSE "other") ELSE Failed
  /\ UNCHANGED <<req, rxState, dma, got, buf, tx, board, taken, began, calm>>

\* A request is out long before the 100 ms are over; an answer that is still to
\* come will be late
Timeout ==
  /\ pc = "recv" /\ ~uartRxSem /\ tx = NoFrame
  /\ Failed
  /\ calm' = (calm /\ board = NoFrame)
  /\ UNCHANGED <<req, uart, tx, board, taken, began>>

Task == (\E s \in Shapes, raw \in BOOLEAN : Start(s, raw)) \/ Send \/ Received \/ Timeout
Line == TxComplete \/ Answer \/ NoAnswer \/ Stray

Next == Task \/ Line

Spec == Init /\ [][Next]_vars

------------------------------------------------------------------------------
(* Properties                                                              *)

TypeOK ==
  /\ pc \in {"idle", "send", "recv"}
  /\ req \in [shape : Shapes \cup {"none"}, raw : BOOLEAN] /\ try \in 0 .. Tries
  /\ rxState \in {"run", "success"} /\ dma \in [on : BOOLEAN, dst : {"rsp", "raw"}]
  /\ got \in Shapes \cup {"none", "garbage"}
  /\ buf \in [{"rsp", "raw"} -> Frame \cup {Garbage}] /\ uartRxSem \in BOOLEAN
  /\ tx \in Frame \cup {NoFrame, Garbage} /\ board \in Frame \cup {NoFrame}
  /\ result \in {"none", "own", "other", "failed"} /\ taken \in 0 .. Tries
  /\ began \in {"settled", "misled", "outstanding"} /\ calm \in BOOLEAN

\* libmodbus does not match an answer with its request beyond function and length.
\* Still an exchange accepts only its own answer, and only after the regulator has
\* taken its request, whatever came late or strayed before it, unless an answer was
\* outstanding when it began, or the receiver was left to the other buffer by a message
\* without an answer (rtuport.c:52-58).
AnswerIsOwn ==
  pc = "idle" /\ result \in {"own", "other"} /\ began = "settled" => result = "own" /\ taken > 0

\* A semaphore that came too late, a reception that was left on, a wrong buffer: on a
\* line that answers, the three attempts make up for whatever the port was left with
\* (rtuport.c:52-55, regulatorConnTSK.c:276-312).
TriesSuffice ==
  pc = "idle" /\ calm /\ began # "outstanding" /\ ~req.raw => result # "failed"

=============================================================================
