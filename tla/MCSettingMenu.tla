--------------------------- MODULE MCSettingMenu ---------------------------
(***************************************************************************)
(* A small instance of SettingMenu for TLC: the tree of settingTSK.cpp cut *)
(* down to one item of each kind, and three parameters of 1 and 2 bits.    *)
(* The item of timezone has the callbacks of two other items as well:      *)
(* vFilter's for a change, and the periodic one of the wire's resistance.  *)
(***************************************************************************)
EXTENDS SettingMenu

\* In the order of parametres.txt.  dword is a parameter of 4 bytes, for ipadr,
\* which has an editor, and for Udac, which a preparation stores.
MCParams == {"timezone", "dword", "point"}
MCList   == <<"timezone", "dword", "point">>

\* A request that ends within dword, one for dword, and one for no parameter
MCAddress  == [p \in MCParams |-> IF p = "dword" THEN 1 ELSE 0]
MCRequests == {[addr |-> 0, regs |-> 2], [addr |-> 1, regs |-> 2], [addr |-> 2, regs |-> 1]}

MCRegs    == [p \in MCParams |-> IF p = "timezone" THEN 1 ELSE 2]
MCSigned  == {"timezone"}
MCWidth   == [p \in MCParams |-> IF p = "timezone" THEN 2 ELSE 1]
MCLo      == [p \in MCParams |-> IF p = "timezone" THEN -1 ELSE 0]
MCHi      == [p \in MCParams |-> IF p = "dword" THEN 1 ELSE 0]
MCDef     == MCLo
MCStep    == [p \in MCParams |-> IF p = "point" THEN 0 ELSE 1]
MCBigStep == MCStep

\* Three steps are -1 in a signed word of 2 bits, as 133 are -123 in one of 8
MCTurns == {-1, 3}

MCItems == {"Regulator", "Wire", "Point0", "IPaddress", "Timezone", "DacU"}

MCnext == [i \in MCItems |->
  CASE i = "Wire" -> "Point0" [] i = "Point0" -> "IPaddress" [] OTHER -> Null]

MCprevious == [i \in MCItems |->
  CASE i = "Point0" -> "Wire" [] i = "IPaddress" -> "Point0" [] OTHER -> Null]

MCchild == [i \in MCItems |->
  CASE i = "Regulator" -> "Wire" [] i = "Wire" -> "Timezone" [] i = "Point0" -> "DacU"
    [] OTHER -> Null]

MClevel == [i \in MCItems |->
  CASE i = "Regulator" -> 0 [] i \in {"Timezone", "DacU"} -> 2 [] OTHER -> 1]

MCprm == [i \in MCItems |->
  CASE i = "Timezone" -> "timezone" [] i \in {"DacU", "IPaddress"} -> "dword" [] OTHER -> Null]

MCchange      == [i \in MCItems |-> i # "Wire"]
MCeditor      == [i \in MCItems |-> i = "IPaddress"]
MCsends       == [i \in MCItems |-> i = "Timezone"]
MCperiod      == [i \in MCItems |-> i \in {"Timezone", "DacU"}]

\* PrepareI: the maximum of the DAC arrives, or its answer was lost and it stays 0
MCpreset  == [i \in {"Point0"} |-> [point |-> 1]]
MCderived == [i \in {"Point0"} |-> {[point |-> 1, dword |-> v] : v \in 0 .. 1}]

=============================================================================
