------------------------------ MODULE LogRing ------------------------------
(***************************************************************************)
(* The log output (systems/src/write.c): tasks and interrupts write into a *)
(* ring that the DMA of UART4 sends.  A write runs with the interrupts     *)
(* masked that could disturb it; the DMA goes on meanwhile.                *)
(***************************************************************************)
EXTENDS Integers, Sequences

CONSTANTS
  Size,     \* bffSize
  MaxLen    \* the longest text of a single write

ASSUME SizeAssumption == Size \in Nat /\ Size > 1 /\ MaxLen \in Nat

End == Size - 1   \* bffEnd, an index as are the other pointers

VARIABLES
  bffWr, bffRd,
  pc,           \* of _write
  numBytes, numBytesToWrite,
  txState,      \* of the UART: "run" or "success"
  dma,          \* the next byte that the DMA sends, and how many are left
  unsent,       \* history: the places of the bytes that were written and not sent
  tooMuch       \* history: with some write, Size - 1 bytes or more were unsent

vars == <<bffWr, bffRd, pc, numBytes, numBytesToWrite, txState, dma, unsent, tooMuch>>

Init ==
  /\ bffWr = 0 /\ bffRd = 0 /\ pc = "idle" /\ numBytes = 0 /\ numBytesToWrite = 0
  /\ txState = "success" /\ dma = [at |-> 0, left |-> 0]
  /\ unsent = <<>> /\ tooMuch = FALSE

Smallest(m, n) == IF m < n THEN m ELSE n

------------------------------------------------------------------------------
(* Faulty variants of definitions below: each is a plausible slip that one *)
(* of the properties must detect.                                          *)

FaultAfterEnd    == bffWr               \* the bytes at the begin are taken as sent
FaultTxHandler   ==                     \* no txHoock
  txState' = "success" /\ UNCHANGED <<bffRd, dma>>
FaultDone        == numBytes < 0        \* while(numBytes >= 0)

------------------------------------------------------------------------------
(* uart_write and its two callers                                          *)

UartWrite(from, to) ==
  dma' = [at |-> from, left |-> to - from] /\ txState' = "run"

\* Where bffRd goes on after the bytes up to bffEnd
AfterEnd == 0

\* The ifs of _write and of txHandler; only one of the two can hold
SendRing ==
  \/ bffRd < bffWr /\ UartWrite(bffRd, bffWr) /\ bffRd' = bffWr
  \/ bffRd > bffWr /\ UartWrite(bffRd, End) /\ bffRd' = AfterEnd

\* USART_IRQHandler and txHandler
TxHandler ==
  \/ SendRing
  \/ bffRd = bffWr /\ txState' = "success" /\ UNCHANGED <<bffRd, dma>>

\* The interrupt comes after the last byte, but not into a write
TxComplete ==
  /\ txState = "run" /\ dma.left = 0 /\ pc = "idle"
  /\ TxHandler
  /\ UNCHANGED <<bffWr, pc, numBytes, numBytesToWrite, unsent, tooMuch>>

\* The DMA sends a byte
DmaByte ==
  /\ dma.left > 0
  /\ dma' = [at |-> dma.at + 1, left |-> dma.left - 1]
  /\ unsent' = IF tooMuch THEN unsent ELSE Tail(unsent)
  /\ UNCHANGED <<bffWr, bffRd, pc, numBytes, numBytesToWrite, txState, tooMuch>>

------------------------------------------------------------------------------
(* _write                                                                  *)

Write(len) ==
  /\ pc = "idle"
  /\ pc' = "loop" /\ numBytes' = len
  /\ tooMuch' = (tooMuch \/ Len(unsent) + len >= End)
  /\ unsent' = IF tooMuch' THEN <<>> ELSE unsent
  /\ UNCHANGED <<bffWr, bffRd, numBytesToWrite, txState, dma>>

Free == IF bffRd > bffWr THEN bffRd - bffWr - 1 ELSE Size - (bffWr - bffRd + 1)

UntilWrap == End - bffWr

Loop ==
  /\ pc = "loop"
  /\ numBytesToWrite' = Smallest(Smallest(Free, UntilWrap), numBytes)
  /\ numBytes' = numBytes - numBytesToWrite'
  /\ pc' = "copy"
  /\ UNCHANGED <<bffWr, bffRd, txState, dma, unsent, tooMuch>>

Copy ==
  /\ pc = "copy" /\ numBytesToWrite > 0
  /\ bffWr' = bffWr + 1 /\ numBytesToWrite' = numBytesToWrite - 1
  /\ unsent' = IF tooMuch THEN unsent ELSE Append(unsent, bffWr)
  /\ UNCHANGED <<bffRd, pc, numBytes, txState, dma, tooMuch>>

Done == numBytes = 0

\* while(numBytes): a full ring keeps the loop for ever
Copied ==
  /\ pc = "copy" /\ numBytesToWrite = 0
  /\ bffWr' = IF bffWr = End THEN 0 ELSE bffWr
  /\ pc' = IF Done THEN "send" ELSE "loop"
  /\ UNCHANGED <<bffRd, numBytes, numBytesToWrite, txState, dma, unsent, tooMuch>>

Send ==
  /\ pc = "send"
  /\ pc' = "idle"
  /\ \/ txState # "run" /\ SendRing
     \/ (txState = "run" \/ bffRd = bffWr) /\ UNCHANGED <<bffRd, txState, dma>>
  /\ UNCHANGED <<bffWr, numBytes, numBytesToWrite, unsent, tooMuch>>

Writing == Loop \/ Copy \/ Copied \/ Send

Next == (\E len \in 0 .. MaxLen : Write(len)) \/ Writing \/ DmaByte \/ TxComplete

Spec == Init /\ [][Next]_vars

\* A write that has begun goes on.  Nobody must write.
FairSpec == Spec /\ WF_vars(Writing)

------------------------------------------------------------------------------
(* Properties                                                              *)

\* The pointers stay in the buffer, and so does the DMA: only inside a write is bffWr
\* at bffEnd (write.c:96, 111).
TypeOK ==
  /\ bffWr \in 0 .. End /\ bffRd \in 0 .. End - 1
  /\ bffWr = End => pc = "copy"
  /\ pc \in {"idle", "loop", "copy", "send"} /\ numBytes \in Nat
  /\ numBytesToWrite \in 0 .. (IF pc = "copy" THEN End - bffWr ELSE 0)
  /\ txState \in {"run", "success"}
  /\ dma \in [at : 0 .. End, left : 0 .. End] /\ dma.at + dma.left =< End
  /\ unsent \in Seq(0 .. End - 1) /\ tooMuch \in BOOLEAN

\* The places of n bytes from at on, and those of the bytes that wait in the ring
Places(at, n) == [i \in 1 .. n |-> at + i - 1]
Waiting ==
  IF bffRd =< bffWr THEN Places(bffRd, bffWr - bffRd)
                    ELSE Places(bffRd, End - bffRd) \o Places(0, bffWr)

\* As long as less than Size - 1 bytes are unsent, the DMA and the ring have exactly
\* the bytes that were written, in their order, each at a place of its own: none is
\* overwritten although bffRd is past a byte before it is sent (write.c:40-45, 119-124).
NothingLost ==
  ~tooMuch =>
    /\ unsent = Places(dma.at, dma.left) \o Waiting
    /\ \A i, j \in 1 .. Len(unsent) : unsent[i] = unsent[j] => i = j

\* Outside of a write an idle UART has nothing to send: no text stays in the
\* ring until somebody logs again.
NothingStranded == pc = "idle" /\ txState # "run" => bffRd = bffWr

\* A write returns, with the interrupts unmasked, unless the ring is overrun.
WriteReturns == pc # "idle" ~> pc = "idle" \/ tooMuch

=============================================================================
