--------------------------- MODULE LogRingProofs ---------------------------
(***************************************************************************)
(* Proofs about LogRing for a buffer of any size and texts of any length.  *)
(***************************************************************************)
EXTENDS LogRing, SequenceTheorems, TLAPS

\* The DMA ends where the ring begins
DmaPlace ==
  dma.left > 0 =>
    txState = "run" /\ dma.at + dma.left = (IF bffRd = 0 THEN End ELSE bffRd)

\* What a write still wants to store
Wanted ==
  /\ pc \in {"idle", "send"} => numBytes = 0
  /\ ~tooMuch => Len(unsent) + numBytes + numBytesToWrite < End

\* The unsent bytes follow each other around the buffer
Around(n)   == IF n < End THEN n ELSE n - End
First       == IF dma.left > 0 THEN dma.at ELSE bffRd
WaitingLen  == IF bffRd =< bffWr THEN bffWr - bffRd ELSE End - bffRd + bffWr
Circle ==
  ~tooMuch =>
    /\ Len(unsent) = dma.left + WaitingLen
    /\ \A i \in 1 .. Len(unsent) : unsent[i] = Around(First + i - 1)

IInv == TypeOK /\ DmaPlace /\ Wanted /\ Circle /\ NothingStranded

\* All that the proofs need of the size
LEMMA EndNat == End \in Nat /\ End > 0 /\ Size = End + 1
BY SizeAssumption DEF End

\* Nothing is written at the start.
LEMMA InitInv == Init => IInv
<1> SUFFICES ASSUME Init PROVE IInv
  OBVIOUS
<1> USE EndNat DEF Init
<1>1. unsent \in Seq(0 .. End - 1) /\ Len(unsent) = 0
  OBVIOUS
<1>2. dma \in [at : 0 .. End, left : 0 .. End] /\ dma.at + dma.left =< End
  OBVIOUS
<1>3. /\ bffWr \in 0 .. End /\ bffRd \in 0 .. End - 1 /\ bffWr # End
      /\ numBytes \in Nat /\ numBytesToWrite \in 0 .. 0
  OBVIOUS
<1>4. TypeOK
  <2>1. tooMuch \in BOOLEAN
    BY Zenon
  <2>2. QED
    BY <1>1, <1>2, <1>3, <2>1 DEF TypeOK
<1>5. Wanted /\ Circle
  BY <1>1 DEF Wanted, Circle, WaitingLen
<1>6. QED
  BY <1>4, <1>5 DEF IInv, DmaPlace, NothingStranded

------------------------------------------------------------------------------
(* One lemma for each step of _write, of the DMA and of its interrupt: it   *)
(* keeps the invariant.                                                    *)

LEMMA WriteStep == ASSUME IInv, NEW len \in 0 .. MaxLen, Write(len) PROVE IInv'
<1> USE EndNat DEF Write, IInv
<1>1. unsent' \in Seq(0 .. End - 1) /\ (~tooMuch' => unsent' = unsent /\ ~tooMuch)
  <2>1. unsent \in Seq(0 .. End - 1) /\ <<>> \in Seq(0 .. End - 1)
    BY DEF TypeOK
  <2>2. QED
    BY <2>1
<1>2. TypeOK'
  <2>1. len \in Nat /\ tooMuch' \in BOOLEAN
    BY SizeAssumption
  <2>2. QED
    BY <1>1, <2>1 DEF TypeOK
<1>3. DmaPlace' /\ NothingStranded'
  BY DEF DmaPlace, NothingStranded
<1>4. Wanted'
  <2>1. Len(unsent) \in Nat /\ len \in Nat
    BY SizeAssumption DEF TypeOK
  <2>2. Len(unsent) + len >= End => tooMuch'
    BY Zenon
  <2>3. ~tooMuch' => Len(unsent) + len < End
    BY <2>1, <2>2
  <2>4. QED
    BY <1>1, <2>1, <2>3 DEF TypeOK, Wanted
<1>5. Circle'
  BY <1>1 DEF Circle, WaitingLen, First, Around
<1>6. QED
  BY <1>2, <1>3, <1>4, <1>5

LEMMA LoopStep == ASSUME IInv, Loop PROVE IInv'
<1> USE EndNat DEF Loop, IInv
<1>1. /\ numBytesToWrite' \in 0 .. End - bffWr /\ numBytes' \in Nat
      /\ numBytes' + numBytesToWrite' = numBytes /\ numBytesToWrite = 0
  BY DEF TypeOK, Free, UntilWrap, Smallest
<1>2. TypeOK' /\ DmaPlace' /\ NothingStranded'
  BY <1>1 DEF TypeOK, DmaPlace, NothingStranded
<1>3. Wanted' /\ Circle'
  BY <1>1 DEF TypeOK, Wanted, Circle, WaitingLen, First, Around
<1>4. QED
  BY <1>2, <1>3

LEMMA CopyStep == ASSUME IInv, Copy PROVE IInv'
<1> USE EndNat DEF IInv
<1>1. bffWr \in 0 .. End - 1 /\ bffWr' = bffWr + 1 /\ pc = "copy"
  BY DEF Copy, TypeOK
<1>2. unsent' \in Seq(0 .. End - 1)
  <2>1. unsent \in Seq(0 .. End - 1)
    BY DEF TypeOK
  <2>2. Append(unsent, bffWr) \in Seq(0 .. End - 1)
    BY <1>1, <2>1
  <2>3. QED
    BY <2>1, <2>2 DEF Copy
<1>3. TypeOK' /\ DmaPlace' /\ NothingStranded'
  BY <1>1, <1>2 DEF Copy, TypeOK, DmaPlace, NothingStranded
<1>4. ASSUME ~tooMuch
      PROVE  /\ unsent' = Append(unsent, bffWr) /\ unsent \in Seq(0 .. End - 1)
             /\ Len(unsent') = Len(unsent) + 1
             /\ \A i \in 1 .. Len(unsent) : unsent'[i] = unsent[i]
             /\ unsent'[Len(unsent) + 1] = bffWr
  BY <1>1, <1>4 DEF Copy, TypeOK
<1>5. Wanted'
  BY <1>1, <1>4 DEF Copy, TypeOK, Wanted
<1>6. Circle'
  <2> SUFFICES ASSUME ~tooMuch
               PROVE  /\ Len(unsent') = dma'.left + WaitingLen'
                      /\ \A i \in 1 .. Len(unsent') : unsent'[i] = Around(First' + i - 1)
    BY DEF Copy, Circle, Around
  <2>1. WaitingLen' = WaitingLen + 1 /\ dma' = dma /\ First' = First
    BY <1>1 DEF Copy, TypeOK, Wanted, Circle, WaitingLen, First
  <2>2. Len(unsent) = dma.left + WaitingLen /\ Len(unsent) \in Nat
    BY DEF Circle, TypeOK
  <2>3. /\ bffRd \in 0 .. End - 1 /\ First \in Int /\ WaitingLen \in Int
        /\ dma.at \in Nat /\ dma.left \in Nat
    BY <1>1 DEF TypeOK, First, WaitingLen
  <2>4. bffWr = Around(First + dma.left + WaitingLen)
    BY <1>1, <2>3 DEF WaitingLen, First, Around, DmaPlace
  <2>5. Len(unsent') = dma'.left + WaitingLen'
    BY <1>4, <2>1, <2>2, <2>3
  <2>6. ASSUME NEW i \in 1 .. Len(unsent')
        PROVE  unsent'[i] = Around(First + i - 1)
    <3>1. CASE i \in 1 .. Len(unsent)
      BY <1>4, <3>1 DEF Circle
    <3>2. CASE i = Len(unsent) + 1
      <4>1. First + i - 1 = First + dma.left + WaitingLen
        BY <2>2, <2>3, <3>2
      <4>2. QED
        BY <1>4, <2>4, <3>2, <4>1
    <3>3. QED
      BY <1>4, <2>2, <3>1, <3>2
  <2>7. QED
    BY <2>1, <2>5, <2>6
<1>7. QED
  BY <1>3, <1>5, <1>6

LEMMA CopiedStep == ASSUME IInv, Copied PROVE IInv'
<1> USE EndNat DEF Copied, IInv
<1>1. TypeOK' /\ DmaPlace' /\ NothingStranded'
  BY DEF TypeOK, DmaPlace, NothingStranded, Done
<1>2. Wanted'
  BY DEF TypeOK, Wanted, Done
<1>3. ~tooMuch => WaitingLen' = WaitingLen /\ First' = First
  BY DEF TypeOK, Wanted, Circle, WaitingLen, First
<1>4. Circle'
  BY <1>3 DEF Circle, Around
<1>5. QED
  BY <1>1, <1>2, <1>4

\* When the DMA takes over the ring, or its first part, the unsent bytes stay.
LEMMA SendRingStep ==
  ASSUME IInv, SendRing, pc \in {"idle", "send"}, pc' = "idle", dma.left = 0,
         UNCHANGED <<bffWr, numBytes, numBytesToWrite, unsent, tooMuch>>
  PROVE  IInv'
<1> USE EndNat DEF IInv, SendRing, UartWrite, AfterEnd
<1>1. TypeOK' /\ DmaPlace' /\ NothingStranded'
  BY DEF TypeOK, DmaPlace, NothingStranded
<1>2. Wanted'
  BY DEF TypeOK, Wanted
<1>3. dma'.left + WaitingLen' = WaitingLen /\ First' = First
  BY DEF TypeOK, WaitingLen, First
<1>4. Circle'
  <2>1. dma.left + WaitingLen = dma'.left + WaitingLen'
    BY <1>3 DEF TypeOK, WaitingLen
  <2>2. QED
    BY <1>3, <2>1 DEF Circle, Around
<1>5. QED
  BY <1>1, <1>2, <1>4

LEMMA SendStep == ASSUME IInv, Send PROVE IInv'
<1>1. CASE txState # "run" /\ SendRing
  BY <1>1, SendRingStep DEF Send, IInv, DmaPlace, TypeOK
<1>2. CASE (txState = "run" \/ bffRd = bffWr) /\ UNCHANGED <<bffRd, txState, dma>>
  BY <1>2 DEF Send, IInv, TypeOK, DmaPlace, Wanted, Circle, WaitingLen, First, Around,
              NothingStranded
<1>3. QED
  BY <1>1, <1>2 DEF Send

LEMMA TxCompleteStep == ASSUME IInv, TxComplete PROVE IInv'
<1>1. CASE SendRing
  BY <1>1, SendRingStep DEF TxComplete
<1>2. CASE bffRd = bffWr /\ txState' = "success" /\ UNCHANGED <<bffRd, dma>>
  BY <1>2 DEF TxComplete, IInv, TypeOK, DmaPlace, Wanted, Circle, WaitingLen, First, Around,
              NothingStranded
<1>3. QED
  BY <1>1, <1>2 DEF TxComplete, TxHandler

LEMMA DmaByteStep == ASSUME IInv, DmaByte PROVE IInv'
<1> USE EndNat DEF IInv
<1>1. ASSUME ~tooMuch
      PROVE  /\ unsent' = Tail(unsent) /\ Len(unsent) > 0 /\ unsent \in Seq(0 .. End - 1)
             /\ unsent' \in Seq(0 .. End - 1) /\ Len(unsent') = Len(unsent) - 1
             /\ \A i \in 1 .. Len(unsent') : unsent'[i] = unsent[i + 1]
  <2>1. unsent' = Tail(unsent) /\ Len(unsent) > 0
    BY <1>1 DEF DmaByte, TypeOK, Circle, WaitingLen
  <2>2. QED
    BY <2>1 DEF TypeOK
<1>2. unsent' \in Seq(0 .. End - 1)
  BY <1>1 DEF DmaByte, TypeOK
<1>3. TypeOK' /\ DmaPlace' /\ NothingStranded'
  BY <1>2 DEF DmaByte, TypeOK, DmaPlace, NothingStranded
<1>4. Wanted'
  BY <1>1 DEF DmaByte, Wanted, TypeOK
<1>5. Circle'
  <2> SUFFICES ASSUME ~tooMuch
               PROVE  /\ Len(unsent') = dma'.left + WaitingLen'
                      /\ \A i \in 1 .. Len(unsent') : unsent'[i] = Around(First' + i - 1)
    BY DEF DmaByte, Circle, Around
  <2>1. dma'.left = dma.left - 1 /\ WaitingLen' = WaitingLen
    BY DEF DmaByte, TypeOK, WaitingLen
  <2>2. ASSUME NEW i \in 1 .. Len(unsent')
        PROVE  unsent'[i] = Around(First' + i - 1)
    <3>1. unsent'[i] = Around(First + i)
      BY <1>1 DEF Circle, DmaByte, TypeOK, First
    <3>2. First = dma.at /\ First' = (IF dma.left > 1 THEN dma.at + 1 ELSE bffRd)
      BY DEF DmaByte, TypeOK, First
    <3>3. i < End
      BY <1>1 DEF Wanted, TypeOK
    <3>4. /\ i \in Nat /\ i > 0 /\ dma.at \in Nat /\ dma.left \in Nat
          /\ bffRd \in 0 .. End - 1 /\ dma.left > 0
      BY <1>1 DEF DmaByte, TypeOK
    <3>5. CASE dma.left > 1
      <4>1. First + i = First' + i - 1
        BY <3>2, <3>4, <3>5
      <4>2. QED
        BY <3>1, <4>1
    <3>6. CASE dma.left = 1
      <4>1. Around(dma.at + i) = Around(bffRd + i - 1)
        BY <3>3, <3>4, <3>6 DEF Around, DmaPlace
      <4>2. QED
        BY <3>1, <3>2, <3>6, <4>1
    <3>7. QED
      BY <3>4, <3>5, <3>6
  <2>3. Len(unsent') = dma'.left + WaitingLen'
    <3>1. /\ Len(unsent) = dma.left + WaitingLen /\ dma.left \in Int
          /\ WaitingLen \in Int
      BY DEF Circle, TypeOK, WaitingLen
    <3>2. QED
      BY <1>1, <2>1, <3>1
  <2>4. QED
    BY <2>2, <2>3
<1>6. QED
  BY <1>3, <1>4, <1>5

\* Every step keeps the invariant.
LEMMA Inductive == IInv /\ [Next]_vars => IInv'
<1> SUFFICES ASSUME IInv, [Next]_vars PROVE IInv'
  OBVIOUS
<1>1. CASE UNCHANGED vars
  BY <1>1 DEF vars, IInv, TypeOK, DmaPlace, Wanted, Circle, WaitingLen, First, Around,
              NothingStranded
<1>2. QED
  BY <1>1, WriteStep, LoopStep, CopyStep, CopiedStep, SendStep, TxCompleteStep, DmaByteStep
  DEF Next, Writing

------------------------------------------------------------------------------
(* What the invariant says of the bytes themselves                         *)

\* Places(at, n) is a sequence of n consecutive indices (used for the DMA and the ring).
LEMMA PlacesValue ==
  ASSUME NEW at \in Nat, NEW n \in Nat
  PROVE  /\ Places(at, n) \in Seq(Int) /\ Len(Places(at, n)) = n
         /\ \A i \in 1 .. n : Places(at, n)[i] = at + i - 1
BY DEF Places

\* The ring has its bytes at the places from bffRd on, around the buffer.
LEMMA WaitingValue ==
  ASSUME TypeOK
  PROVE  /\ Waiting \in Seq(Int) /\ Len(Waiting) = WaitingLen
         /\ \A j \in 1 .. WaitingLen : Waiting[j] = Around(bffRd + j - 1)
<1> USE EndNat
<1>1. bffWr \in 0 .. End /\ bffRd \in 0 .. End - 1
  BY DEF TypeOK
<1>2. CASE bffRd =< bffWr
  <2>1. bffWr - bffRd \in Nat /\ bffRd \in Nat
    BY <1>1, <1>2
  <2>2. Waiting = Places(bffRd, bffWr - bffRd) /\ WaitingLen = bffWr - bffRd
    BY <1>2 DEF Waiting, WaitingLen
  <2>3. \A j \in 1 .. WaitingLen : Around(bffRd + j - 1) = bffRd + j - 1
    BY <1>1, <1>2, <2>2 DEF Around
  <2>4. QED
    BY <2>1, <2>2, <2>3, PlacesValue
<1>3. CASE bffRd > bffWr
  <2> DEFINE Upper == Places(bffRd, End - bffRd)
             Lower == Places(0, bffWr)
  <2>1. bffWr \in Nat /\ bffRd \in Nat /\ End - bffRd \in Nat
    BY <1>1
  <2>2. /\ Upper \in Seq(Int) /\ Len(Upper) = End - bffRd
        /\ \A j \in 1 .. End - bffRd : Upper[j] = bffRd + j - 1
    BY <2>1, PlacesValue
  <2>3. /\ Lower \in Seq(Int) /\ Len(Lower) = bffWr
        /\ \A j \in 1 .. bffWr : Lower[j] = 0 + j - 1
    BY <2>1, PlacesValue
  <2>4. Waiting = Upper \o Lower /\ WaitingLen = Len(Upper) + Len(Lower)
    <3>1. ~(bffRd =< bffWr)
      BY <1>1, <1>3
    <3>2. Waiting = Upper \o Lower
      BY <3>1 DEF Waiting
    <3>3. WaitingLen = End - bffRd + bffWr
      BY <3>1 DEF WaitingLen
    <3>4. QED
      BY <2>2, <2>3, <3>2, <3>3
  <2> HIDE DEF Upper, Lower
  <2>5. /\ Upper \o Lower \in Seq(Int) /\ Len(Upper \o Lower) = WaitingLen
        /\ \A j \in 1 .. WaitingLen :
             (Upper \o Lower)[j] = IF j =< Len(Upper) THEN Upper[j] ELSE Lower[j - Len(Upper)]
    BY <2>2, <2>3, <2>4, ConcatProperties
  <2>6. ASSUME NEW j \in 1 .. WaitingLen
        PROVE  Waiting[j] = Around(bffRd + j - 1)
    <3>1. CASE j =< End - bffRd
      BY <1>1, <2>2, <2>4, <2>5, <3>1 DEF Around
    <3>2. CASE j > End - bffRd
      <4>1. j - Len(Upper) \in 1 .. bffWr
        BY <1>1, <2>2, <2>3, <2>4, <3>2
      <4>2. Waiting[j] = Lower[j - Len(Upper)]
        BY <1>1, <2>2, <2>4, <2>5, <3>2
      <4>3. QED
        BY <1>1, <2>2, <2>3, <3>2, <4>1, <4>2 DEF Around
    <3>3. QED
      BY <1>1, <3>1, <3>2
  <2>7. QED
    BY <2>4, <2>5, <2>6
<1>4. QED
  BY <1>1, <1>2, <1>3

\* The DMA and the ring have the unsent bytes, each at a place of its own.
LEMMA NothingLostInv == IInv => NothingLost
<1> SUFFICES ASSUME IInv, ~tooMuch
             PROVE  /\ unsent = Places(dma.at, dma.left) \o Waiting
                    /\ \A i, j \in 1 .. Len(unsent) : unsent[i] = unsent[j] => i = j
  BY DEF NothingLost
<1> DEFINE Sending == Places(dma.at, dma.left)
<1> USE EndNat
<1>1. /\ bffWr \in 0 .. End /\ bffRd \in 0 .. End - 1 /\ dma.at \in Nat /\ dma.left \in Nat
      /\ dma.at + dma.left =< End
  BY DEF IInv, TypeOK
<1>2. unsent \in Seq(0 .. End - 1) /\ Len(unsent) \in Nat
  BY DEF IInv, TypeOK
<1>3. /\ Len(unsent) = dma.left + WaitingLen /\ Len(unsent) < End
      /\ \A i \in 1 .. Len(unsent) : unsent[i] = Around(First + i - 1)
  BY <1>1, <1>2 DEF IInv, Circle, Wanted, TypeOK
<1>4. First \in 0 .. End /\ WaitingLen \in 0 .. End
  BY <1>1 DEF First, WaitingLen
<1>5. unsent = Sending \o Waiting
  <2>1. /\ Sending \in Seq(Int) /\ Len(Sending) = dma.left
        /\ \A i \in 1 .. dma.left : Sending[i] = dma.at + i - 1
    BY <1>1, PlacesValue
  <2>2. /\ Waiting \in Seq(Int) /\ Len(Waiting) = WaitingLen
        /\ \A j \in 1 .. WaitingLen : Waiting[j] = Around(bffRd + j - 1)
    BY WaitingValue DEF IInv
  <2> HIDE DEF Sending
  <2>0. Len(unsent) = Len(Sending) + Len(Waiting)
    BY <1>3, <2>1, <2>2
  <2>3. /\ Sending \o Waiting \in Seq(Int) /\ Len(Sending \o Waiting) = Len(unsent)
        /\ \A i \in 1 .. Len(unsent) :
             (Sending \o Waiting)[i] =
               IF i =< Len(Sending) THEN Sending[i] ELSE Waiting[i - Len(Sending)]
    <3>1. Sending \in Seq(Int) /\ Waiting \in Seq(Int)
      BY <2>1, <2>2
    <3>2. QED
      BY <2>0, <3>1, ConcatProperties
  <2>4. ASSUME NEW i \in 1 .. Len(unsent)
        PROVE  unsent[i] = (Sending \o Waiting)[i]
    <3>0. i \in Int /\ i >= 1 /\ i =< dma.left + WaitingLen
      BY <1>2, <1>3
    <3>1. CASE i =< dma.left
      <4>1. (Sending \o Waiting)[i] = dma.at + i - 1
        BY <1>1, <2>1, <2>3, <3>1
      <4>2. First = dma.at /\ dma.at + i - 1 < End
        BY <1>1, <3>1 DEF First
      <4>3. QED
        BY <1>3, <4>1, <4>2 DEF Around
    <3>2. CASE i > dma.left
      <4>1. i - dma.left \in 1 .. WaitingLen
        BY <1>1, <1>4, <3>0, <3>2
      <4>2. (Sending \o Waiting)[i] = Around(bffRd + (i - dma.left) - 1)
        <5>1. (Sending \o Waiting)[i] = Waiting[i - dma.left]
          BY <1>1, <2>1, <2>3, <3>0, <3>2
        <5>2. QED
          BY <2>2, <4>1, <5>1
      <4>3. Around(bffRd + (i - dma.left) - 1) = Around(First + i - 1)
        <5>1. CASE dma.left = 0
          BY <1>1, <5>1 DEF First
        <5>2. CASE dma.left > 0
          <6>1. First = dma.at /\ dma.at + dma.left = (IF bffRd = 0 THEN End ELSE bffRd)
            BY <5>2 DEF First, IInv, DmaPlace
          <6>2. CASE bffRd = 0
            <7>1. i - dma.left - 1 \in 0 .. End - 1 /\ i \in Int
              BY <1>1, <1>4, <3>0, <4>1
            <7>2. First = dma.at /\ dma.at + dma.left = End
              BY <6>1, <6>2
            <7>3. First + i - 1 = End + (i - dma.left - 1)
              BY <1>1, <3>0, <7>2
            <7>4. QED
              BY <6>2, <7>1, <7>3 DEF Around
          <6>3. CASE bffRd # 0
            <7>1. bffRd + (i - dma.left) - 1 = First + i - 1
              BY <1>1, <3>0, <6>1, <6>3
            <7>2. QED
              BY <7>1
          <6>4. QED
            BY <6>2, <6>3
        <5>3. QED
          BY <1>1, <5>1, <5>2
      <4>4. QED
        BY <1>3, <4>2, <4>3
    <3>3. i \in Int /\ dma.left \in Int
      BY <1>1, <3>0
    <3>4. i =< dma.left \/ i > dma.left
      BY <3>3
    <3>5. QED
      BY <3>1, <3>2, <3>4
  <2>5. unsent \in Seq(Int)
    BY <1>2
  <2>6. QED
    BY <2>3, <2>4, <2>5, SeqEqual
<1>6. ASSUME NEW i \in 1 .. Len(unsent), NEW j \in 1 .. Len(unsent), unsent[i] = unsent[j]
      PROVE  i = j
  <2>1. Around(First + i - 1) = Around(First + j - 1)
    BY <1>3, <1>6
  <2>2. QED
    BY <1>2, <1>3, <1>4, <2>1 DEF Around
<1>7. QED
  BY <1>5, <1>6

------------------------------------------------------------------------------
(* The theorems                                                            *)

\* The inductive invariant holds in every reachable state.
THEOREM Invariance == Spec => []IInv
BY InitInv, Inductive, PTL DEF Spec

\* The pointers and the DMA stay in the buffer.
THEOREM TypeCorrect == Spec => []TypeOK
BY Invariance, PTL DEF IInv

\* Without an overrun, no byte is lost, overwritten or sent out of order.
THEOREM NeverLost == Spec => []NothingLost
BY Invariance, NothingLostInv, PTL

\* No text stays in the ring of an idle UART.
THEOREM NeverStranded == Spec => []NothingStranded
BY Invariance, PTL DEF IInv

=============================================================================
