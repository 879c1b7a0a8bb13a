----------------------------- MODULE Bootloader -----------------------------
(***************************************************************************)
(* The firmware update: the bootloader (boot.cpp), the erasure of the      *)
(* storage when the program's Modbus TCP server starts, and the file       *)
(* records that it writes there (portfreemodbus/src/porttcp.cpp).          *)
(*                                                                         *)
(* The flash holds two regions, main and storage, of Sectors sectors of    *)
(* SectorCells cells each.  A cell is what one file record fills; it is    *)
(* blank, holds the data of an image at this place, or anything else       *)
(* (Torn).  The power may fail, or the panel be reset, at any point: the   *)
(* sector or the cell in work is then torn.  The CRC accepts a region only *)
(* if it holds all the cells of one image.                                 *)
(***************************************************************************)
EXTENDS Integers

CONSTANTS
  Images,        \* firmware images, told apart by version and CRC
  NoImage,       \* no program runs
  Blank,         \* an erased cell
  Torn,          \* a cell with neither the data of an image nor blank
  Sectors,       \* 3 sectors of 128 KiB in each region
  SectorCells,   \* 1024 records of 128 bytes in a sector
  Size,          \* number of cells of an image
  FlashMayFail   \* an erasure or a write may silently have no or a wrong effect

Cells == 1 .. Sectors * SectorCells

ASSUME FlashAssumption ==
  /\ Sectors \in Nat \ {0} /\ SectorCells \in Nat \ {0}
  /\ Size \in [Images -> Cells]
  /\ NoImage \notin Images /\ Blank \notin Images /\ Torn \notin Images
  /\ Blank # Torn
  /\ FlashMayFail \in BOOLEAN

VARIABLES
  stage,   \* what the processor executes
  pos,     \* the sector or the cell in work
  main,    \* _main_flash_start: the region the program runs from
  store,   \* _fwstorage_flash_start: the region that takes the upload
  sent     \* history: what the hosts have written since the storage was erased

vars == <<stage, pos, main, store, sent>>

Region == [Cells -> Images \cup {Blank, Torn}]

\* The bootloader's stages; "clean" and "serve" are the program's
BootStages == {"check", "eraseMain", "copy", "verify", "eraseStored", "start"}
Stages     == BootStages \cup {"clean", "serve", "halt"}

SectorOf(c) == (c - 1) \div SectorCells + 1

\* The panel as delivered: one image in main, the storage erased
Init ==
  /\ stage = "check" /\ pos = 1
  /\ \E i \in Images : main = [c \in Cells |-> IF c <= Size[i] THEN i ELSE Blank]
  /\ store = [c \in Cells |-> Blank]
  /\ sent = {}

------------------------------------------------------------------------------
(* Flash memory: hal/src/flash.c                                           *)

Fill(region, k, v) == [c \in Cells |-> IF SectorOf(c) = k THEN v ELSE region[c]]

\* flash_erasePage reports success whatever happens
Erased(region, k) ==
  {Fill(region, k, Blank)}
    \cup (IF FlashMayFail THEN {region, Fill(region, k, Torn)} ELSE {})

\* Programming only clears bits, so a cell can be written once
Programmed(old, new) ==
  IF old = Blank THEN new ELSE IF old = new THEN old ELSE Torn

\* flash_write does not verify
Written(region, c, v) ==
  {[region EXCEPT ![c] = Programmed(@, v)]}
    \cup (IF FlashMayFail THEN {region, [region EXCEPT ![c] = Torn]} ELSE {})

\* checkProgram: the magic, and the CRC over the size that the header tells
Valid(region) ==
  /\ region[1] \in Images
  /\ \A c \in 1 .. Size[region[1]] : region[c] = region[1]

------------------------------------------------------------------------------
(* Faulty variants of definitions below: each is a plausible slip that one *)
(* of the properties must detect.                                          *)

FaultVerified      == TRUE            \* the copy is not verified
FaultStartable     == TRUE            \* main is executed unchecked
FaultUpgrade       == FALSE           \* a valid main is never replaced
FaultLastSector    == Sectors - 1     \* p < fwstorage_flash_start - FLASH_PAGE_SIZE
FaultSectorUsed(k) ==                 \* only the first word of a sector is looked at
  \E c \in Cells : SectorOf(c) = k /\ (c - 1) % SectorCells = 0 /\ store[c] # Blank

------------------------------------------------------------------------------
(* The bootloader: main of boot.cpp                                        *)

\* upgrade: a valid image in the storage, and an invalid or another one in main
Upgrade == Valid(store) /\ (~Valid(main) \/ main[1] # store[1])

Check ==
  /\ stage = "check"
  /\ stage' = IF Upgrade THEN "eraseMain" ELSE "start"
  /\ pos' = 1
  /\ UNCHANGED <<main, store, sent>>

\* The loop over the sectors from main_flash_start up to fwstorage_flash_start
LastSector == Sectors

EraseMain ==
  /\ stage = "eraseMain"
  /\ main' \in Erased(main, pos)
  /\ IF pos < LastSector THEN pos' = pos + 1 /\ UNCHANGED stage
                         ELSE pos' = 1 /\ stage' = "copy"
  /\ UNCHANGED <<store, sent>>

\* flash_write(main, storage, storageImageHeader->size)
Copy ==
  /\ stage = "copy"
  /\ main' \in Written(main, pos, store[pos])
  /\ IF pos < Size[store[1]] THEN pos' = pos + 1 /\ UNCHANGED stage
                             ELSE pos' = 1 /\ stage' = "verify"
  /\ UNCHANGED <<store, sent>>

\* checkProgram(main_flash_start) after the copy
Verified == Valid(main)

Verify ==
  /\ stage = "verify"
  /\ stage' = IF Verified THEN "eraseStored" ELSE "start"
  /\ UNCHANGED <<pos, main, store, sent>>

EraseStored ==
  /\ stage = "eraseStored"
  /\ store' \in Erased(store, pos)
  /\ IF pos < Sectors THEN pos' = pos + 1 /\ UNCHANGED stage
                      ELSE pos' = 1 /\ stage' = "start"
  /\ UNCHANGED <<main, sent>>

\* checkProgram(main_flash_start) before cm4_executeprogram; else while(1)
Startable == Valid(main)

Start ==
  /\ stage = "start"
  /\ stage' = IF Startable THEN "clean" ELSE "halt"
  /\ pos' = 1
  /\ UNCHANGED <<main, store, sent>>

------------------------------------------------------------------------------
(* The program: xMBTCPPortInit and eMBFileRecordCB                         *)

\* Any word of the sector that is not 0xFFFFFFFF
SectorUsed(k) == \E c \in Cells : SectorOf(c) = k /\ store[c] # Blank

\* xMBTCPPortInit erases the used sectors of the storage, then listens
CleanStore ==
  /\ stage = "clean"
  /\ store' \in (IF SectorUsed(pos) THEN Erased(store, pos) ELSE {store})
  /\ IF pos < Sectors THEN pos' = pos + 1 /\ UNCHANGED <<stage, sent>>
                      ELSE pos' = 1 /\ stage' = "serve" /\ sent' = {}
  /\ UNCHANGED main

\* eMBFileRecordCB: a host writes a record of some image, or of something else,
\* anywhere in the storage
FileRecord(c, v) ==
  /\ stage = "serve"
  /\ store' \in Written(store, c, v)
  /\ sent' = sent \cup {v}
  /\ UNCHANGED <<stage, pos, main>>

------------------------------------------------------------------------------
(* Resets and power failures                                               *)

\* What the interrupted operation can leave in main and in the storage
TornMain ==
  CASE stage = "eraseMain" -> {main, Fill(main, pos, Torn)}
    [] stage = "copy"      -> {main, [main EXCEPT ![pos] = Torn]}
    [] OTHER               -> {main}

TornStore ==
  CASE stage = "eraseStored" -> {store, Fill(store, pos, Torn)}
    [] stage = "clean" /\ SectorUsed(pos) -> {store, Fill(store, pos, Torn)}
    [] stage = "serve"       -> {store} \cup {[store EXCEPT ![c] = Torn] : c \in Cells}
    [] OTHER                 -> {store}

\* A power failure, the reset button, or Prm::reboot through NVIC_SystemReset
Reset ==
  /\ main' \in TornMain
  /\ store' \in TornStore
  /\ stage' = "check" /\ pos' = 1 /\ sent' = {}

Boot == Check \/ EraseMain \/ Copy \/ Verify \/ EraseStored \/ Start

Next ==
  \/ Boot
  \/ CleanStore
  \/ \E c \in Cells, v \in Images \cup {Torn} : FileRecord(c, v)
  \/ Reset

Spec == Init /\ [][Next]_vars

\* The processor executes; nothing forces a host to upload or the power to fail
FairSpec == Spec /\ WF_vars(Boot \/ CleanStore)

------------------------------------------------------------------------------
(* Properties                                                              *)

\* Every variable keeps its type: the two flash regions and the loop index of
\* boot.cpp:54-63 and porttcp.cpp:168-180.
TypeOK ==
  /\ stage \in Stages /\ pos \in Cells
  /\ stage \in {"eraseMain", "verify", "eraseStored", "clean"} => pos <= Sectors
  /\ main \in Region /\ store \in Region
  /\ sent \subseteq Images \cup {Torn}

\* The panel is never bricked: at every instant, even in the middle of an erasure
\* and when the flash fails silently, one of the regions holds a whole image
\* (boot.cpp:60 erases the storage only after main was verified).
Bootable == Valid(main) \/ Valid(store)

\* The program that runs is whole all the time it runs: nothing half copied is
\* started, and neither the cleaning nor the records touch main.
AppIntact == stage \in {"clean", "serve"} => Valid(main)

\* An upload starts on a blank storage: if all that hosts have written since the
\* program started is one image, the storage has nothing but cells of it.
UploadPure ==
  ~FlashMayFail /\ stage = "serve" =>
    \A i \in Images : sent \subseteq {i} =>
      \A c \in Cells : store[c] \in {i, Blank} /\ (sent = {} => store[c] = Blank)

\* The image that the next undisturbed start runs, and the one that runs
Chosen  == IF Valid(store) THEN store[1] ELSE main[1]
Running == IF stage \in {"clean", "serve"} THEN main[1] ELSE NoImage

Update == INSTANCE FirmwareUpdate WITH chosen <- Chosen, running <- Running

\* The update is atomic however often the power fails (boot.cpp:38-72): from the
\* reset to the start of the program the chosen image never changes, and it is
\* the one that is started.
AtomicUpdate == Update!Spec

\* Once the power stays, the bootloader starts the image that is chosen, whatever
\* the earlier power failures left in the flash; it does not end in while(1).
PowerStays  == <>[][~Reset]_vars
UpgradeRuns ==
  PowerStays => \A i \in Images : (Running = NoImage /\ Chosen = i) ~> Running = i

=============================================================================
