-------------------------- MODULE ParameterMemory --------------------------
(***************************************************************************)
(* What the panel's parameter memory promises for each area.  A save that  *)
(* was reported complete lasts until the next save of that area begins.    *)
(* While a save is open, and after it was cut off, a start finds the       *)
(* settings whose checksum is stored, which are older or those being       *)
(* saved, or it finds nothing; it never finds a mixture.                   *)
(***************************************************************************)
CONSTANTS Areas, Settings, Lost, Unsure, Closed

VARIABLES
  last,   \* the settings whose checksum is stored
  kept,   \* what a start would load: last, or Lost
  open,   \* the settings of a save that is not finished, or Closed
  saved   \* the settings of the last complete save, Unsure since the next began

vars == <<last, kept, open, saved>>

Init ==
  /\ last = [a \in Areas |-> Lost] /\ kept = [a \in Areas |-> Lost]
  /\ open = [a \in Areas |-> Closed] /\ saved = [a \in Areas |-> Unsure]

Begin(a, s) ==
  /\ open[a] = Closed
  /\ open' = [open EXCEPT ![a] = s] /\ saved' = [saved EXCEPT ![a] = Unsure]
  /\ UNCHANGED <<last, kept>>

Commit(a) ==
  /\ open[a] \in Settings /\ kept[a] = open[a]
  /\ open' = [open EXCEPT ![a] = Closed] /\ saved' = [saved EXCEPT ![a] = open[a]]
  /\ UNCHANGED <<last, kept>>

\* Open saves go on or are given up; an area without an open save stays as it is
MayChange(a) ==
  IF open[a] = Closed
    THEN last'[a] = last[a] /\ kept'[a] = kept[a] /\ open'[a] = Closed
    ELSE /\ last'[a] \in {last[a], open[a], Lost} /\ kept'[a] \in {last'[a], Lost}
         /\ open'[a] \in {open[a], Closed}

Advance == (\A a \in Areas : MayChange(a)) /\ UNCHANGED saved

Next == (\E a \in Areas : (\E s \in Settings : Begin(a, s)) \/ Commit(a)) \/ Advance

Spec == Init /\ [][Next]_vars

=============================================================================
