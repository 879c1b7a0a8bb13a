-------------------------- MODULE BootloaderProofs --------------------------
(***************************************************************************)
(* Proofs about Bootloader for any number and size of sectors and images.  *)
(***************************************************************************)
EXTENDS Bootloader, TLAPS

\* What each stage of the bootloader and of the program relies on, even when the
\* flash fails silently.
Grounded ==
  /\ Bootable
  /\ stage \in {"eraseMain", "copy", "verify"} => Valid(store)
  /\ stage \in {"eraseStored", "clean", "serve"} => Valid(main)
  /\ stage = "copy" => pos <= Size[store[1]]

\* The inductive invariant behind Bootable and AppIntact.
IInv == TypeOK /\ Grounded

\* The region has at least as many cells as sectors, and at least one.
LEMMA CellCount ==
  /\ Sectors * SectorCells \in Nat /\ Sectors <= Sectors * SectorCells
  /\ 1 \in Cells /\ 1 <= Sectors
<1>1. Sectors \in Nat /\ SectorCells \in Nat /\ Sectors >= 1 /\ SectorCells >= 1
  BY FlashAssumption
<1>2. Sectors * SectorCells \in Nat
  BY <1>1
<1>3. Sectors * (SectorCells - 1) >= 0
  BY <1>1
<1>4. Sectors * SectorCells = Sectors * (SectorCells - 1) + Sectors
  BY <1>1
<1>5. Sectors <= Sectors * SectorCells
  BY <1>1, <1>2, <1>3, <1>4
<1>6. QED
  BY <1>1, <1>2, <1>5 DEF Cells

\* Every cell lies in one of the sectors that the erasing loops visit.
LEMMA SectorRange ==
  ASSUME NEW c \in Cells
  PROVE  SectorOf(c) \in Nat /\ 1 <= SectorOf(c) /\ SectorOf(c) <= Sectors
<1> DEFINE q == (c - 1) \div SectorCells
<1>1. /\ Sectors \in Nat /\ SectorCells \in Nat /\ SectorCells >= 1
      /\ c \in Nat /\ 1 <= c /\ c <= Sectors * SectorCells
  BY FlashAssumption, CellCount DEF Cells
<1>2. q \in Nat /\ q * SectorCells <= c - 1
  BY <1>1
<1>3. q < Sectors
  <2>1. ASSUME q >= Sectors PROVE FALSE
    <3>1. q * SectorCells = Sectors * SectorCells + (q - Sectors) * SectorCells
      BY <1>1, <1>2
    <3>2. (q - Sectors) * SectorCells >= 0
      BY <1>1, <1>2, <2>1
    <3>3. Sectors * SectorCells \in Nat /\ (q - Sectors) * SectorCells \in Int
      BY <1>1, <1>2
    <3>4. QED
      BY <1>1, <1>2, <3>1, <3>2, <3>3
  <2>2. QED
    BY <1>1, <1>2, <2>1
<1>4. QED
  BY <1>1, <1>2, <1>3 DEF SectorOf

\* Erasing and writing leave a region of cells.
LEMMA FlashType ==
  ASSUME NEW r \in Region, NEW k, NEW c \in Cells, NEW v \in Images \cup {Blank, Torn}
  PROVE  /\ Fill(r, k, v) \in Region
         /\ Erased(r, k) \subseteq Region
         /\ Written(r, c, v) \subseteq Region
<1>1. Fill(r, k, v) \in Region /\ Fill(r, k, Blank) \in Region /\ Fill(r, k, Torn) \in Region
  BY DEF Fill, Region
<1>2. [r EXCEPT ![c] = Programmed(@, v)] \in Region /\ [r EXCEPT ![c] = Torn] \in Region
  BY DEF Region, Programmed
<1>3. QED
  BY <1>1, <1>2 DEF Erased, Written

\* The header tells a size within the region.
LEMMA ValidSize ==
  ASSUME NEW r \in Region, Valid(r)
  PROVE  /\ r[1] \in Images /\ Size[r[1]] \in Cells
         /\ \A c \in Cells : c <= Size[r[1]] => r[c] = r[1]
BY FlashAssumption DEF Valid, Cells

\* What a reset leaves are regions of cells.
LEMMA TornType ==
  ASSUME TypeOK
  PROVE  TornMain \subseteq Region /\ TornStore \subseteq Region
<1>1. \A k : Fill(main, k, Torn) \in Region /\ Fill(store, k, Torn) \in Region
  BY DEF TypeOK, Fill, Region
<1>2. \A c \in Cells : [main EXCEPT ![c] = Torn] \in Region /\ [store EXCEPT ![c] = Torn] \in Region
  BY DEF TypeOK, Region
<1>3. main \in Region /\ store \in Region
  BY DEF TypeOK
<1>4. TornMain \subseteq Region
  BY <1>1, <1>2, <1>3 DEF TornMain, TypeOK
<1>5. TornStore \subseteq Region
  BY <1>1, <1>2, <1>3 DEF TornStore
<1>6. QED
  BY <1>4, <1>5

\* The panel is delivered with an image in main.
LEMMA InitIInv == Init => IInv
<1> SUFFICES ASSUME Init PROVE IInv
  OBVIOUS
<1>1. PICK i \in Images : main = [c \in Cells |-> IF c <= Size[i] THEN i ELSE Blank]
  BY DEF Init
<1>2. Size[i] \in Cells /\ 1 \in Cells
  BY FlashAssumption, CellCount
<1>3. Valid(main)
  <2>1. main[1] = i
    BY <1>1, <1>2 DEF Cells
  <2>2. \A c \in 1 .. Size[i] : c \in Cells /\ c <= Size[i]
    BY <1>2, CellCount DEF Cells
  <2>3. \A c \in 1 .. Size[i] : main[c] = i
    BY <1>1, <2>2
  <2>4. QED
    BY <2>1, <2>3 DEF Valid
<1>4. TypeOK
  <2>1. main \in Region
    BY <1>1 DEF Region
  <2>2. store \in Region
    BY DEF Init, Region
  <2>3. QED
    BY <2>1, <2>2, CellCount DEF Init, TypeOK, Stages, BootStages
<1>5. QED
  BY <1>3, <1>4 DEF Init, IInv, Grounded, Bootable

\* Every step keeps the types: the loops stop at the last sector and at the last
\* cell of the image.
LEMMA TypeStep == IInv /\ [Next]_vars => TypeOK'
<1> SUFFICES ASSUME IInv, [Next]_vars PROVE TypeOK'
  OBVIOUS
<1> USE CellCount DEF IInv, Stages, BootStages
<1>1. \A p \in Cells : p < Sectors => p + 1 \in Cells /\ p + 1 <= Sectors
  BY FlashAssumption DEF Cells
<1>2. CASE Check \/ Verify \/ Start
  BY <1>2 DEF Check, Verify, Start, TypeOK
<1>3. CASE EraseMain
  <2>1. main' \in Region
    BY <1>3, FlashType DEF EraseMain, TypeOK
  <2>2. QED
    BY <1>1, <1>3, <2>1 DEF EraseMain, TypeOK, LastSector
<1>4. CASE Copy
  <2>1. pos \in Cells /\ store[pos] \in Images \cup {Blank, Torn}
    BY DEF TypeOK, Region
  <2>2. main' \in Region
    BY <1>4, <2>1, FlashType DEF Copy, TypeOK
  <2>3. Size[store[1]] \in Cells
    BY <1>4, ValidSize DEF Copy, Grounded, TypeOK
  <2>4. pos < Size[store[1]] => pos + 1 \in Cells
    BY <2>1, <2>3 DEF Cells
  <2>5. QED
    BY <1>4, <2>2, <2>4 DEF Copy, TypeOK
<1>5. CASE EraseStored
  <2>1. store' \in Region
    BY <1>5, FlashType DEF EraseStored, TypeOK
  <2>2. QED
    BY <1>1, <1>5, <2>1 DEF EraseStored, TypeOK
<1>6. CASE CleanStore
  <2>1. store' \in Region
    BY <1>6, FlashType DEF CleanStore, TypeOK
  <2>2. QED
    BY <1>1, <1>6, <2>1 DEF CleanStore, TypeOK
<1>7. ASSUME NEW c \in Cells, NEW v \in Images \cup {Torn}, FileRecord(c, v) PROVE TypeOK'
  <2>1. store' \in Region
    BY <1>7, FlashType DEF FileRecord, TypeOK
  <2>2. QED
    BY <1>7, <2>1 DEF FileRecord, TypeOK
<1>8. CASE Reset
  BY <1>8, TornType DEF Reset, TypeOK
<1>9. CASE UNCHANGED vars
  BY <1>9 DEF vars, TypeOK
<1>10. QED
  BY <1>2, <1>3, <1>4, <1>5, <1>6, <1>7, <1>8, <1>9 DEF Next, Boot

\* Whatever an operation does to one region, the other one holds a whole image.
LEMMA GroundedStep == IInv /\ [Next]_vars => Grounded'
<1> SUFFICES ASSUME IInv, [Next]_vars PROVE Grounded'
  OBVIOUS
<1>1. TypeOK /\ Grounded
  BY DEF IInv
<1>2. ASSUME UNCHANGED <<main, store>> PROVE /\ Valid(main)' <=> Valid(main)
                                             /\ Valid(store)' <=> Valid(store)
  BY <1>2 DEF Valid
<1>3. CASE Check
  BY <1>1, <1>2, <1>3 DEF Check, Upgrade, Grounded, Bootable
<1>4. CASE EraseMain
  <2>1. Valid(store) /\ UNCHANGED store
    BY <1>1, <1>4 DEF EraseMain, Grounded
  <2>2. Valid(store)'
    BY <2>1 DEF Valid
  <2>3. 1 <= Size[store[1]]
    BY <1>1, <2>1, ValidSize DEF TypeOK, Cells
  <2>4. QED
    BY <1>4, <2>1, <2>2, <2>3 DEF EraseMain, Grounded, Bootable
<1>5. CASE Copy
  <2>1. Valid(store) /\ UNCHANGED store
    BY <1>1, <1>5 DEF Copy, Grounded
  <2>2. Valid(store)'
    BY <2>1 DEF Valid
  <2>3. pos \in Int /\ Size[store[1]] \in Int
    BY <1>1, <2>1, ValidSize DEF TypeOK, Cells
  <2>4. QED
    BY <1>5, <2>1, <2>2, <2>3 DEF Copy, Grounded, Bootable
<1>6. CASE Verify
  BY <1>1, <1>2, <1>6 DEF Verify, Verified, Grounded, Bootable
<1>7. CASE EraseStored \/ CleanStore \/ (\E c \in Cells, v \in Images \cup {Torn} : FileRecord(c, v))
  <2>1. Valid(main) /\ UNCHANGED main
    BY <1>1, <1>7 DEF EraseStored, CleanStore, FileRecord, Grounded
  <2>2. Valid(main)'
    BY <2>1 DEF Valid
  <2>3. stage' \in {"eraseStored", "start", "clean", "serve"}
    BY <1>7 DEF EraseStored, CleanStore, FileRecord
  <2>4. QED
    BY <2>2, <2>3 DEF Grounded, Bootable
<1>8. CASE Start
  BY <1>1, <1>2, <1>8 DEF Start, Startable, Grounded, Bootable
<1>9. CASE Reset
  <2>1. CASE stage \in {"eraseMain", "copy"}
    <3>1. store' = store /\ Valid(store)
      BY <1>1, <1>9, <2>1 DEF Reset, TornStore, Grounded
    <3>2. QED
      BY <1>9, <3>1 DEF Reset, Grounded, Bootable, Valid
  <2>2. CASE stage \in {"eraseStored", "clean", "serve"}
    <3>1. main' = main /\ Valid(main)
      BY <1>1, <1>9, <2>2 DEF Reset, TornMain, Grounded
    <3>2. QED
      BY <1>9, <3>1 DEF Reset, Grounded, Bootable, Valid
  <2>3. CASE stage \in {"check", "verify", "start", "halt"}
    <3>1. UNCHANGED <<main, store>>
      BY <1>9, <2>3 DEF Reset, TornMain, TornStore
    <3>2. QED
      BY <1>1, <1>2, <1>9, <3>1 DEF Reset, Grounded, Bootable
  <2>4. QED
    BY <1>1, <2>1, <2>2, <2>3 DEF TypeOK, Stages, BootStages
<1>10. CASE UNCHANGED vars
  BY <1>1, <1>2, <1>10 DEF vars, Grounded, Bootable
<1>11. QED
  BY <1>3, <1>4, <1>5, <1>6, <1>7, <1>8, <1>9, <1>10 DEF Next, Boot

\* In every reachable state the panel can start an image: no sequence of power
\* failures and of silent flash failures leaves it without one.
THEOREM NeverBricked == Spec => []Bootable
<1>1. IInv /\ [Next]_vars => IInv'
  BY TypeStep, GroundedStep DEF IInv
<1>2. IInv => Bootable
  BY DEF IInv, Grounded
<1>3. QED
  BY InitIInv, <1>1, <1>2, PTL DEF Spec

\* The running program is whole as long as it runs.
THEOREM AppStaysIntact == Spec => []AppIntact
<1>1. IInv /\ [Next]_vars => IInv'
  BY TypeStep, GroundedStep DEF IInv
<1>2. IInv => AppIntact
  BY DEF IInv, Grounded, AppIntact
<1>3. QED
  BY InitIInv, <1>1, <1>2, PTL DEF Spec

\* Every variable keeps its type.
THEOREM TypeCorrect == Spec => []TypeOK
<1>1. IInv /\ [Next]_vars => IInv'
  BY TypeStep, GroundedStep DEF IInv
<1>2. IInv => TypeOK
  BY DEF IInv
<1>3. QED
  BY InitIInv, <1>1, <1>2, PTL DEF Spec

------------------------------------------------------------------------------
(* A flash that does what it is told: the update is atomic                 *)

\* How far the loops over the sectors and the cells have come.
Progress ==
  /\ stage = "eraseMain" => \A c \in Cells : SectorOf(c) < pos => main[c] = Blank
  /\ stage = "copy" => \A c \in Cells : main[c] = IF c < pos THEN store[1] ELSE Blank
  /\ stage = "clean" => \A c \in Cells : SectorOf(c) < pos => store[c] = Blank

\* From the verified copy to the end of the cleaning the two regions agree.
Agree ==
  /\ stage = "verify" => Valid(main) /\ main[1] = store[1]
  /\ stage \in {"eraseStored", "start", "clean"} =>
       Valid(main) /\ (Valid(store) => store[1] = main[1])
  /\ stage # "halt"

\* The inductive invariant behind AtomicUpdate and UploadPure.
FInv == IInv /\ Progress /\ Agree /\ UploadPure

\* A region some of whose cells were torn or erased is a whole image only if it was
\* the same one before.
LEMMA Wiped ==
  ASSUME NEW r \in Region, NEW s \in Region, Valid(s),
         \A c \in Cells : s[c] = r[c] \/ s[c] \notin Images
  PROVE  Valid(r) /\ r[1] = s[1]
<1>1. s[1] \in Images /\ 1 \in Cells /\ Size[s[1]] \in Cells
  BY ValidSize, CellCount
<1>2. \A c \in 1 .. Size[s[1]] : c \in Cells /\ s[c] = s[1]
  BY <1>1, CellCount DEF Valid, Cells
<1>3. r[1] = s[1]
  BY <1>1
<1>4. \A c \in 1 .. Size[s[1]] : r[c] = s[1]
  BY <1>1, <1>2
<1>5. QED
  BY <1>1, <1>3, <1>4 DEF Valid

\* Filling a sector with something that is no image, or tearing a cell, only wipes.
LEMMA Wipes ==
  ASSUME NEW r \in Region, NEW k, NEW d \in Cells, NEW v \in {Blank, Torn}
  PROVE  /\ \A c \in Cells : Fill(r, k, v)[c] = r[c] \/ Fill(r, k, v)[c] \notin Images
         /\ \A c \in Cells : [r EXCEPT ![d] = Torn][c] = r[c]
                             \/ [r EXCEPT ![d] = Torn][c] \notin Images
BY FlashAssumption DEF Fill, Region

\* Before any step the loops have done nothing, and the regions need not agree.
LEMMA InitFInv == Init => FInv
<1> SUFFICES ASSUME Init PROVE FInv
  OBVIOUS
<1>1. stage = "check"
  BY DEF Init
<1>2. QED
  BY <1>1, InitIInv DEF FInv, Progress, Agree, UploadPure

\* One step of a loop does one sector or one cell; the last one completes the region.
LEMMA ProgressStep ==
  ASSUME ~FlashMayFail, FInv, [Next]_vars
  PROVE  Progress'
<1>1. TypeOK /\ Grounded /\ Progress
  BY DEF FInv, IInv
<1>2. \A c \in Cells : SectorOf(c) \in Nat /\ 1 <= SectorOf(c) /\ SectorOf(c) <= Sectors
  BY SectorRange
<1>3. pos \in Nat /\ Sectors \in Nat /\ \A c \in Cells : c \in Nat /\ c >= 1
  BY <1>1, FlashAssumption DEF TypeOK, Cells
<1>4. CASE Check \/ Start
  <2>1. pos' = 1 /\ stage' \in {"eraseMain", "start", "clean", "halt"}
    BY <1>4 DEF Check, Start
  <2>2. QED
    BY <1>2, <2>1 DEF Progress
<1>5. CASE EraseMain
  <2>1. main' = Fill(main, pos, Blank) /\ stage = "eraseMain" /\ UNCHANGED store
    BY <1>5 DEF EraseMain, Erased
  <2>2. \A c \in Cells : SectorOf(c) < pos + 1 => main'[c] = Blank
    BY <1>1, <1>2, <1>3, <2>1 DEF Progress, Fill
  <2>3. CASE pos < Sectors
    BY <1>5, <2>2, <2>3 DEF EraseMain, LastSector, Progress
  <2>4. CASE ~(pos < Sectors)
    <3>1. \A c \in Cells : main'[c] = Blank
      BY <1>2, <1>3, <2>2, <2>4
    <3>2. pos' = 1 /\ stage' = "copy"
      BY <1>5, <2>4 DEF EraseMain, LastSector
    <3>3. QED
      BY <1>3, <3>1, <3>2 DEF Progress
  <2>5. QED
    BY <2>3, <2>4
<1>6. CASE Copy
  <2>1. /\ stage = "copy" /\ UNCHANGED store /\ pos \in Cells
        /\ main' = [main EXCEPT ![pos] = Programmed(@, store[pos])]
    BY <1>1, <1>6 DEF Copy, Written, TypeOK
  <2>2. main[pos] = Blank /\ store[pos] = store[1]
    <3>1. pos <= Size[store[1]] /\ Valid(store) /\ store \in Region
      BY <1>1, <2>1 DEF Grounded, TypeOK
    <3>2. QED
      BY <1>1, <1>3, <2>1, <3>1, ValidSize DEF Progress
  <2>3. \A c \in Cells : main'[c] = IF c < pos + 1 THEN store[1] ELSE Blank
    BY <1>1, <1>3, <2>1, <2>2 DEF Progress, Programmed, TypeOK, Region
  <2>4. (stage' = "copy" /\ pos' = pos + 1) \/ stage' = "verify"
    BY <1>6 DEF Copy
  <2>5. QED
    BY <2>1, <2>3, <2>4 DEF Progress
<1>7. CASE CleanStore
  <2>1. \A c \in Cells : SectorOf(c) < pos + 1 => store'[c] = Blank
    <3>1. CASE SectorUsed(pos)
      <4>1. store' = Fill(store, pos, Blank)
        BY <1>7, <3>1 DEF CleanStore, Erased
      <4>2. QED
        BY <1>1, <1>2, <1>3, <1>7, <4>1 DEF CleanStore, Progress, Fill
    <3>2. CASE ~SectorUsed(pos)
      BY <1>1, <1>2, <1>3, <1>7, <3>2 DEF CleanStore, Progress, SectorUsed
    <3>3. QED
      BY <3>1, <3>2
  <2>2. QED
    BY <1>7, <2>1 DEF CleanStore, Progress
<1>8. CASE Verify \/ EraseStored \/ Reset
           \/ (\E c \in Cells, v \in Images \cup {Torn} : FileRecord(c, v))
  <2>1. stage' \in {"eraseStored", "start", "check", "serve"}
    BY <1>8 DEF Verify, EraseStored, Reset, FileRecord
  <2>2. QED
    BY <2>1 DEF Progress
<1>9. CASE UNCHANGED vars
  BY <1>1, <1>9 DEF vars, Progress
<1>10. QED
  BY <1>4, <1>5, <1>6, <1>7, <1>8, <1>9 DEF Next, Boot

\* The storage is erased, or the program started, only with its image in main.
LEMMA AgreeStep ==
  ASSUME ~FlashMayFail, FInv, IInv', Progress', [Next]_vars
  PROVE  Agree'
<1>1. TypeOK /\ Grounded /\ Progress /\ Agree /\ main' \in Region /\ store' \in Region
  BY DEF FInv, IInv, TypeOK
<1>2. ASSUME UNCHANGED <<main, store>> PROVE /\ Valid(main)' <=> Valid(main)
                                             /\ Valid(store)' <=> Valid(store)
  BY <1>2 DEF Valid
<1>3. CASE Check
  BY <1>1, <1>2, <1>3 DEF Check, Upgrade, Grounded, Bootable, Agree
<1>4. CASE EraseMain \/ Reset \/ (\E c \in Cells, v \in Images \cup {Torn} : FileRecord(c, v))
  <2>1. stage' \in {"eraseMain", "copy", "check", "serve"}
    BY <1>4 DEF EraseMain, Reset, FileRecord
  <2>2. QED
    BY <2>1 DEF Agree
<1>5. CASE Copy
  <2>1. CASE pos < Size[store[1]]
    BY <1>5, <2>1 DEF Copy, Agree
  <2>2. CASE ~(pos < Size[store[1]])
    <3>1. /\ stage = "copy" /\ stage' = "verify" /\ UNCHANGED store /\ pos \in Cells
          /\ main' = [main EXCEPT ![pos] = Programmed(@, store[pos])]
      BY <1>1, <1>5, <2>2 DEF Copy, Written, TypeOK
    <3>2. /\ Valid(store) /\ store[1] \in Images /\ Size[store[1]] \in Cells
          /\ pos = Size[store[1]] /\ store[pos] = store[1]
      <4>1. Valid(store) /\ pos <= Size[store[1]] /\ store \in Region
        BY <1>1, <3>1 DEF Grounded, TypeOK
      <4>2. store[1] \in Images /\ Size[store[1]] \in Cells
        BY <4>1, ValidSize
      <4>3. pos = Size[store[1]]
        BY <2>2, <3>1, <4>1, <4>2, CellCount DEF Cells
      <4>4. store[pos] = store[1]
        BY <3>1, <4>1, ValidSize
      <4>5. QED
        BY <4>1, <4>2, <4>3, <4>4
    <3>3. \A c \in Cells : c <= pos => main'[c] = store[1]
      BY <1>1, <3>1, <3>2, CellCount DEF Progress, Programmed, TypeOK, Region, Cells
    <3>4. 1 \in Cells /\ 1 <= pos
      BY <3>1, CellCount DEF Cells
    <3>5. main'[1] = store[1]
      BY <3>3, <3>4
    <3>6. \A c \in 1 .. Size[main'[1]] : main'[c] = main'[1]
      BY <3>2, <3>3, <3>5, CellCount DEF Cells
    <3>7. Valid(main)'
      BY <3>2, <3>5, <3>6 DEF Valid
    <3>8. QED
      BY <3>1, <3>5, <3>7 DEF Agree
  <2>3. QED
    BY <2>1, <2>2
<1>6. CASE Verify
  BY <1>1, <1>2, <1>6 DEF Verify, Verified, Agree
<1>7. CASE EraseStored \/ CleanStore
  <2>1. UNCHANGED main /\ Valid(main) /\ (Valid(store) => store[1] = main[1])
    BY <1>1, <1>7 DEF EraseStored, CleanStore, Agree
  <2>2. \A c \in Cells : store'[c] = store[c] \/ store'[c] \notin Images
    BY <1>1, <1>7, Wipes DEF EraseStored, CleanStore, Erased, TypeOK
  <2>3. Valid(store)' => store'[1] = main[1]
    <3>1. Valid(store') => Valid(store) /\ store[1] = store'[1]
      BY <1>1, <2>2, Wiped DEF TypeOK
    <3>2. QED
      BY <2>1, <3>1 DEF Valid
  <2>4. Valid(main)' /\ stage' \in {"eraseStored", "start", "clean", "serve"}
    BY <1>7, <2>1 DEF EraseStored, CleanStore, Valid
  <2>5. QED
    BY <2>1, <2>3, <2>4 DEF Agree
<1>8. CASE Start
  BY <1>1, <1>2, <1>8 DEF Start, Startable, Agree
<1>9. CASE UNCHANGED vars
  BY <1>1, <1>2, <1>9 DEF vars, Agree
<1>10. QED
  BY <1>3, <1>4, <1>5, <1>6, <1>7, <1>8, <1>9 DEF Next, Boot

\* The server listens on a blank storage, and records of one image add cells of it.
LEMMA UploadStep ==
  ASSUME ~FlashMayFail, FInv, [Next]_vars
  PROVE  UploadPure'
<1>1. TypeOK /\ Progress /\ UploadPure
  BY DEF FInv, IInv
<1>2. CASE CleanStore /\ stage' = "serve"
  <2>1. \A c \in Cells : SectorOf(c) \in Nat /\ SectorOf(c) <= Sectors
    BY SectorRange
  <2>2. pos \in Nat /\ ~(pos < Sectors) /\ Sectors \in Nat /\ stage = "clean"
    BY <1>1, <1>2, FlashAssumption, CellCount DEF CleanStore, TypeOK, Cells
  <2>3. \A c \in Cells : store'[c] = Blank
    <3>1. CASE SectorUsed(pos)
      <4>1. store' = Fill(store, pos, Blank)
        BY <1>2, <3>1 DEF CleanStore, Erased
      <4>2. QED
        BY <1>1, <2>1, <2>2, <4>1 DEF Progress, Fill
    <3>2. CASE ~SectorUsed(pos)
      BY <1>1, <1>2, <2>1, <2>2, <3>2 DEF CleanStore, Progress, SectorUsed
    <3>3. QED
      BY <3>1, <3>2
  <2>4. QED
    BY <2>3 DEF UploadPure
<1>3. ASSUME NEW d \in Cells, NEW v \in Images \cup {Torn}, FileRecord(d, v)
      PROVE  UploadPure'
  <2>1. /\ store' = [store EXCEPT ![d] = Programmed(@, v)] /\ sent' = sent \cup {v}
        /\ stage = "serve"
    BY <1>3 DEF FileRecord, Written
  <2>2. ASSUME NEW i \in Images, sent' \subseteq {i}, NEW c \in Cells
        PROVE  store'[c] \in {i, Blank} /\ sent' # {}
    <3>1. v = i /\ sent \subseteq {i} /\ sent' # {}
      BY <2>1, <2>2
    <3>2. store[c] \in {i, Blank} /\ store[d] \in {i, Blank}
      BY <1>1, <2>1, <3>1 DEF UploadPure
    <3>3. QED
      BY <1>1, <2>1, <3>1, <3>2 DEF Programmed, TypeOK, Region
  <2>3. QED
    BY <2>2 DEF UploadPure
<1>4. CASE Boot \/ Reset \/ (CleanStore /\ stage' # "serve")
  <2>1. stage' # "serve"
    BY <1>4 DEF Boot, Check, EraseMain, Copy, Verify, EraseStored, Start, Reset
  <2>2. QED
    BY <2>1 DEF UploadPure
<1>5. CASE UNCHANGED vars
  BY <1>1, <1>5 DEF vars, UploadPure
<1>6. QED
  BY <1>2, <1>3, <1>4, <1>5 DEF Next

\* The invariant of the fault-free flash is inductive.
LEMMA FInvStep == ~FlashMayFail /\ FInv /\ [Next]_vars => FInv'
<1> SUFFICES ASSUME ~FlashMayFail, FInv, [Next]_vars PROVE FInv'
  OBVIOUS
<1>1. IInv'
  BY TypeStep, GroundedStep DEF FInv, IInv
<1>2. Progress' /\ UploadPure'
  BY ProgressStep, UploadStep
<1>3. Agree'
  BY <1>1, <1>2, AgreeStep
<1>4. QED
  BY <1>1, <1>2, <1>3 DEF FInv

------------------------------------------------------------------------------
(* The refinement                                                          *)

\* The chosen image is an image, and so is the running one.
LEMMA ChosenType ==
  ASSUME IInv
  PROVE  /\ Chosen \in Images
         /\ stage \in {"clean", "serve"} => Running \in Images /\ Running = main[1]
         /\ stage \notin {"clean", "serve"} => Running = NoImage
BY DEF IInv, Grounded, Bootable, Chosen, Running, Valid

\* The program starts nothing but the chosen image.
LEMMA InitMaps == Init => Update!Init
<1> SUFFICES ASSUME Init PROVE Update!Init
  OBVIOUS
<1>1. IInv /\ stage = "check"
  BY InitIInv DEF Init
<1>2. QED
  BY <1>1, ChosenType DEF Update!Init

\* While the bootloader works nothing changes for the abstract update.
LEMMA BootMaps ==
  ASSUME FInv, FInv', Check \/ EraseMain \/ Copy \/ Verify \/ EraseStored
  PROVE  UNCHANGED <<Chosen, Running>>
<1>1. stage \in BootStages /\ stage' \in BootStages
  BY DEF Check, EraseMain, Copy, Verify, EraseStored, BootStages
<1>2. Running = NoImage /\ Running' = NoImage
  BY <1>1 DEF Running, BootStages
<1>3. CASE Check \/ Verify
  BY <1>2, <1>3 DEF Check, Verify, Chosen, Valid
<1>4. CASE EraseMain \/ Copy
  <2>1. Valid(store) /\ UNCHANGED store
    BY <1>4 DEF EraseMain, Copy, FInv, IInv, Grounded
  <2>2. QED
    BY <1>2, <2>1 DEF Chosen, Valid
<1>5. CASE EraseStored
  <2>1. UNCHANGED main /\ stage = "eraseStored" /\ stage' \in {"eraseStored", "start"}
    BY <1>5 DEF EraseStored
  <2>2. (Valid(store) => store[1] = main[1]) /\ (Valid(store') => store'[1] = main'[1])
    BY <2>1 DEF FInv, Agree, Valid
  <2>3. Chosen = main[1]
    BY <2>2 DEF Chosen
  <2>4. Chosen' = main'[1]
    BY <2>2 DEF Chosen, Valid
  <2>5. QED
    BY <1>2, <2>1, <2>3, <2>4
<1>6. QED
  BY <1>3, <1>4, <1>5

\* The start runs the chosen image.
LEMMA StartMaps ==
  ASSUME FInv, Start
  PROVE  Update!Run
<1>1. /\ Valid(main) /\ (Valid(store) => store[1] = main[1])
      /\ UNCHANGED <<main, store>> /\ stage = "start" /\ stage' = "clean"
  BY DEF Start, Startable, FInv, Agree
<1>2. Chosen = main[1] /\ Chosen' = Chosen
  BY <1>1 DEF Chosen, Valid
<1>3. Running = NoImage /\ Running' = main[1]
  BY <1>1 DEF Running
<1>4. QED
  BY <1>2, <1>3 DEF Update!Run

\* Cleaning the storage takes no choice away: it held no other whole image.
LEMMA CleanMaps ==
  ASSUME FInv, FInv', CleanStore
  PROVE  UNCHANGED <<Chosen, Running>>
<1>1. /\ UNCHANGED main /\ stage = "clean" /\ stage' \in {"clean", "serve"}
      /\ Valid(store) => store[1] = main[1]
  BY DEF CleanStore, FInv, Agree
<1>2. UNCHANGED Running
  BY <1>1 DEF Running
<1>3. Valid(store') => store'[1] = main[1]
  <2>1. \A c \in Cells : store'[c] = store[c] \/ store'[c] \notin Images
    BY Wipes, FlashAssumption DEF CleanStore, Erased, FInv, IInv, TypeOK
  <2>2. Valid(store') => Valid(store) /\ store[1] = store'[1]
    BY <2>1, Wiped DEF FInv, IInv, TypeOK
  <2>3. QED
    BY <1>1, <2>2
<1>4. Chosen = main[1]
  BY <1>1 DEF Chosen
<1>5. Chosen' = main[1]
  BY <1>1, <1>3 DEF Chosen, Valid
<1>6. QED
  BY <1>2, <1>4, <1>5

\* A record completes an upload, spoils one, or does neither.
LEMMA RecordMaps ==
  ASSUME ~FlashMayFail, FInv, FInv', NEW d \in Cells, NEW v \in Images \cup {Torn},
         FileRecord(d, v)
  PROVE  [Update!Next]_(Update!vars)
<1>1. /\ UNCHANGED main /\ stage = "serve" /\ stage' = "serve"
      /\ store' = [store EXCEPT ![d] = Programmed(@, v)]
  BY DEF FileRecord, Written
<1>2. Running = main[1] /\ Running' = Running /\ main[1] \in Images
  BY <1>1, ChosenType DEF Running, FInv
<1>3. Chosen \in Images /\ Chosen' \in Images
  BY ChosenType DEF FInv, IInv, Grounded, Bootable, Chosen, Valid
<1>4. Valid(store) /\ Valid(store') => store'[1] = store[1]
  <2>1. store[1] \in Images => store'[1] \in {store[1], Torn}
    BY <1>1, CellCount, FlashAssumption DEF Programmed, FInv, IInv, TypeOK, Region
  <2>2. QED
    BY <2>1, FlashAssumption DEF Valid
<1>5. Chosen # main[1] => Chosen' \in {Chosen, main[1]}
  <2>1. ASSUME Chosen # main[1] PROVE Chosen' \in {Chosen, main[1]}
    <3>1. Valid(store) /\ Chosen = store[1]
      BY <2>1 DEF Chosen
    <3>2. (Chosen' = store'[1] /\ Valid(store')) \/ Chosen' = main'[1]
      BY DEF Chosen, Valid
    <3>3. QED
      BY <1>1, <1>4, <3>1, <3>2
  <2>2. QED
    BY <2>1
<1>6. Running # NoImage
  BY <1>2, FlashAssumption
<1>7. CASE Chosen' = Chosen
  BY <1>2, <1>7 DEF Update!vars
<1>8. CASE Chosen' # Chosen /\ Chosen = main[1]
  BY <1>2, <1>3, <1>6, <1>8 DEF Update!Next, Update!Offer
<1>9. CASE Chosen' # Chosen /\ Chosen # main[1]
  BY <1>2, <1>5, <1>6, <1>9 DEF Update!Next, Update!Withdraw
<1>10. QED
  BY <1>7, <1>8, <1>9

\* A reset never changes the choice, except that it may undo an upload.
LEMMA ResetMaps ==
  ASSUME FInv, Reset
  PROVE  [Update!Next]_(Update!vars)
<1>1. stage' = "check" /\ Running' = NoImage /\ TypeOK
  BY DEF Reset, Running, FInv, IInv
<1>2. stage \in {"eraseMain", "copy"} => Valid(store) /\ UNCHANGED store
  BY DEF Reset, TornStore, FInv, IInv, Grounded
<1>3. stage \notin {"eraseMain", "copy"} => UNCHANGED main
  BY DEF Reset, TornMain
<1>4. \A c \in Cells : store'[c] = store[c] \/ store'[c] \notin Images
  BY <1>1, Wipes DEF Reset, TornStore, TypeOK
<1>5. store' \in Region
  BY <1>1, TornType DEF Reset
<1>6. Valid(store') => Valid(store) /\ store[1] = store'[1]
  BY <1>1, <1>4, <1>5, Wiped DEF TypeOK
<1>7. CASE stage \in {"eraseMain", "copy"}
  <2>1. Chosen' = Chosen /\ Running = NoImage
    BY <1>2, <1>7 DEF Chosen, Valid, Running
  <2>2. QED
    BY <1>1, <2>1 DEF Update!vars
<1>8. CASE stage \in {"check", "verify", "start", "halt"}
  <2>1. UNCHANGED <<main, store>> /\ Running = NoImage
    BY <1>8 DEF Reset, TornMain, TornStore, Running
  <2>2. Chosen' = Chosen
    BY <2>1 DEF Chosen, Valid
  <2>3. QED
    BY <1>1, <2>1, <2>2 DEF Update!vars
<1>9. CASE stage = "eraseStored"
  <2>1. UNCHANGED main /\ Running = NoImage /\ (Valid(store) => store[1] = main[1])
    BY <1>3, <1>9 DEF Running, FInv, Agree
  <2>2. Chosen = main[1]
    BY <2>1 DEF Chosen
  <2>3. Chosen' = main[1]
    BY <1>6, <2>1 DEF Chosen, Valid
  <2>4. QED
    BY <1>1, <2>1, <2>2, <2>3 DEF Update!vars
<1>10. CASE stage \in {"clean", "serve"}
  <2>1. UNCHANGED main /\ Running = main[1] /\ Running \in Images /\ Running # NoImage
    BY <1>3, <1>10, ChosenType, FlashAssumption DEF FInv
  <2>2. CASE Valid(store')
    <3>1. Chosen = store[1] /\ Chosen' = store'[1]
      BY <1>6, <2>2 DEF Chosen, Valid
    <3>2. QED
      BY <1>1, <1>6, <2>1, <2>2, <3>1 DEF Update!Next, Update!Reset
  <2>3. CASE ~Valid(store')
    <3>1. Chosen' = main[1]
      BY <2>1, <2>3 DEF Chosen, Valid
    <3>2. QED
      BY <1>1, <2>1, <3>1 DEF Update!Next, Update!Reset
  <2>4. QED
    BY <2>2, <2>3
<1>11. QED
  BY <1>1, <1>7, <1>8, <1>9, <1>10 DEF TypeOK, Stages, BootStages

\* Every step of the flash is a step of the abstract update, or none.
LEMMA StepMaps ==
  ~FlashMayFail /\ FInv /\ FInv' /\ [Next]_vars => [Update!Next]_(Update!vars)
<1> SUFFICES ASSUME ~FlashMayFail, FInv, FInv', [Next]_vars
             PROVE  [Update!Next]_(Update!vars)
  OBVIOUS
<1>1. CASE Check \/ EraseMain \/ Copy \/ Verify \/ EraseStored
  BY <1>1, BootMaps DEF Update!vars
<1>2. CASE Start
  BY <1>2, StartMaps DEF Update!Next
<1>3. CASE CleanStore
  BY <1>3, CleanMaps DEF Update!vars
<1>4. CASE \E c \in Cells, v \in Images \cup {Torn} : FileRecord(c, v)
  BY <1>4, RecordMaps
<1>5. CASE Reset
  BY <1>5, ResetMaps
<1>6. CASE UNCHANGED vars
  BY <1>6 DEF vars, Update!vars, Chosen, Running, Valid
<1>7. QED
  BY <1>1, <1>2, <1>3, <1>4, <1>5, <1>6 DEF Next, Boot

\* The bootloader, the cleaning of the storage and the file records implement the
\* atomic update of FirmwareUpdate, whenever the power fails.
THEOREM UpdateIsAtomic == ~FlashMayFail => (Spec => AtomicUpdate)
<1> SUFFICES ASSUME ~FlashMayFail PROVE Spec => AtomicUpdate
  OBVIOUS
<1>1. FInv /\ [Next]_vars => FInv'
  BY FInvStep
<1>2. FInv /\ FInv' /\ [Next]_vars => [Update!Next]_(Update!vars)
  BY StepMaps
<1>3. Init => FInv /\ Update!Init
  BY InitFInv, InitMaps
<1>4. QED
  BY <1>1, <1>2, <1>3, PTL DEF Spec, AtomicUpdate, Update!Spec

\* Uploads start on a blank storage and add nothing but what the hosts write.
THEOREM UploadsArePure == Spec => []UploadPure
<1>1. CASE FlashMayFail
  <2>1. UploadPure
    BY <1>1 DEF UploadPure
  <2>2. QED
    BY <2>1, PTL
<1>2. CASE ~FlashMayFail
  <2>1. FInv /\ [Next]_vars => FInv'
    BY <1>2, FInvStep
  <2>2. FInv => UploadPure
    BY DEF FInv
  <2>3. QED
    BY <2>1, <2>2, InitFInv, PTL DEF Spec
<1>3. QED
  BY <1>1, <1>2

=============================================================================
