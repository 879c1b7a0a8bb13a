---------------------------- MODULE MCBootloader ----------------------------
(***************************************************************************)
(* Small instances of Bootloader for TLC: regions of two sectors of two    *)
(* cells, and images that end inside the first sector, inside the second   *)
(* one, and that fill the region.                                          *)
(***************************************************************************)
EXTENDS Bootloader

CONSTANTS i1, i2, i3

\* Each image can replace a larger and a smaller one
MCSize == [i \in {i1, i2, i3} |-> CASE i = i1 -> 3 [] i = i2 -> 1 [] i = i3 -> 4]

=============================================================================
