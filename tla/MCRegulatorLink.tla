--------------------------- MODULE MCRegulatorLink ---------------------------
(***************************************************************************)
(* Small instances of RegulatorLink for TLC.  One tick stands for 50 ms in *)
(* the instances with RespTimeout = 2, so that the order of the source's   *)
(* times (10 < 100 < 150 < 160 < 1000 ms) is kept.                         *)
(***************************************************************************)
EXTENDS RegulatorLink, TLC

\* Callers and semaphore addresses are interchangeable in the safety runs
Symmetry == Permutations(Callers) \cup Permutations(Sems)

=============================================================================
