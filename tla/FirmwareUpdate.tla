--------------------------- MODULE FirmwareUpdate ---------------------------
(***************************************************************************)
(* What the bootloader and the firmware storage promise together: there is *)
(* always one chosen image, the one that the next undisturbed start runs.  *)
(* Only an upload to the running program changes the choice; a reset may   *)
(* undo an upload that it interrupts, and from the reset to the start of   *)
(* the program the choice is fixed, however often the power fails.         *)
(***************************************************************************)
CONSTANTS Images, NoImage

VARIABLES chosen, running

vars == <<chosen, running>>

Init == chosen \in Images /\ running = NoImage

\* The bootloader starts the chosen image
Run == running = NoImage /\ running' = chosen /\ UNCHANGED chosen

\* An upload is complete: another image is chosen
Offer == /\ running # NoImage /\ chosen = running
         /\ chosen' \in Images \ {running}
         /\ UNCHANGED running

\* The uploaded image is overwritten, or the reset interrupts such a write
Withdraw == /\ running # NoImage /\ chosen # running
            /\ chosen' = running
            /\ UNCHANGED running

Reset == /\ running # NoImage
         /\ chosen' \in {chosen, running}
         /\ running' = NoImage

Next == Run \/ Offer \/ Withdraw \/ Reset

Spec == Init /\ [][Next]_vars

=============================================================================
