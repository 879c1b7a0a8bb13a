---------------------------- MODULE SettingMenu ----------------------------
(***************************************************************************)
(* The settings window: the menu (window/src/menuSystem.cpp), its tree and *)
(* the callbacks that switch the regulator's output on for a measurement   *)
(* (window/src/settingTSK.cpp), beside the Modbus TCP server that writes   *)
(* the same parameters (HoldingRegisters).                                 *)
(*                                                                         *)
(* The menu's loop runs every 20 ms: a key, the encoder, the callback for  *)
(* a change, the periodic callback.  A callback that fails shows a message *)
(* until a key is pressed.  callSelect and callUnselect do nothing: no     *)
(* item of the tree has a callback for them.  A call of the regulator is   *)
(* refused without a connection; one that is accepted may be lost, or be   *)
(* carried out after its caller has gone on, and both report success       *)
(* (RegulatorLink).  What is drawn is left out, and so are the parameters  *)
(* that callbacks fill with measurements, serial numbers and times.        *)
(***************************************************************************)
EXTENDS HoldingRegisters

CONSTANTS
  Items,     \* the items of the menu
  Null,      \* nullptr
  FirstItem, \* the item that the menu starts with
  next,      \* the members of an item: its neighbours,
  previous,
  child,     \* the first item of its level,
  level,     \* how many items are above it,
  prm,       \* its parameter,
  change,    \* whether the encoder changes it,
  editor,    \* whether it has an editor of its own (ipAddressEditor),
  sends,     \* whether a change calls setAcquisition or saveSettings,
  period,    \* and every pass updateReg or updateSaveSettings
  Points,    \* items entered with PrepareU, PrepareMicroI or PrepareI,
  Wires,     \* and with PrepareWireResistance; both are left with calibrExit
  preset,    \* the values that a preparation of a point stores at once,
  derived,   \* and all it may have stored when dacMaxValue is known
  step,      \* step and bigstep of a parameter
  bigstep,
  Turns      \* what enco_update may return, other than 0

Prepared == Points \cup Wires
Link     == Items \cup {Null}

HistorySize == 6

\* The items are a tree of levels, and history has room for the deepest
TreeOfLevels ==
  /\ level \in [Items -> 0 .. HistorySize] /\ level[FirstItem] = 0
  /\ \A i \in Items :
       /\ \A n \in {next[i], previous[i]} : n # Null => level[n] = level[i]
       /\ child[i] # Null => level[child[i]] = level[i] + 1
       /\ editor[i] => level[i] < HistorySize

\* The values that Prepare may store, and the parameters that they put outside
\* of their limits: point, whose limits are 0 and 0
Stores(i) == {preset[i]} \cup derived[i]
Internal  == {p \in Params : \E i \in Points : \E f \in Stores(i) :
                 p \in DOMAIN f /\ ~InLimits(p, f[p])}

ASSUME MenuAssumption ==
  /\ Null \notin Items /\ Null \notin Params /\ FirstItem \in Items
  /\ next \in [Items -> Link] /\ previous \in [Items -> Link] /\ child \in [Items -> Link]
  /\ prm \in [Items -> Params \cup {Null}]
  /\ change \in [Items -> BOOLEAN] /\ editor \in [Items -> BOOLEAN]
  /\ sends \in [Items -> BOOLEAN] /\ period \in [Items -> BOOLEAN]
  /\ \A i \in Items : editor[i] =>
       /\ prm[i] \in Params /\ Lo[prm[i]] = WordMin(prm[i]) /\ Hi[prm[i]] = WordMax(prm[i])
       /\ i \notin Prepared
  /\ Points \subseteq Items /\ Wires \subseteq Items
  /\ \A i \in Points : \A f \in Stores(i) :
       DOMAIN f \subseteq Params /\ \A p \in DOMAIN f : f[p] \in Words(p)
  /\ step \in [Params -> Nat] /\ bigstep \in [Params -> Nat]
  /\ Turns \subseteq Int \ {0}
  /\ TreeOfLevels

VARIABLES
  pc,         \* where the window task is
  m,          \* the item selected
  history,    \* the items entered: history[0 .. historyIndex - 1]
  result,     \* what the window task is about to store, or an editor's copy
  after,      \* where it goes on after a store or a message
  connected,  \* whether the link to the regulator accepts calls
  output,     \* the window has switched the regulator's output on
  late,       \* a switch-on is still repeated although its caller went on
  excused,    \* history: a switch-off or the end of a preparation failed
  narrowed    \* history: the parameters with a step whose product did not fit

menuVars == <<pc, m, history, result, after>>
regVars  == <<connected, output, late, excused>>
restVars == <<regVars, narrowed>>
vars     == <<value, serverVars, menuVars, restVars>>

Passes == {"keys", "encoder", "turned", "changes", "period"}
Places == Passes \cup {"store", "message", "editor", "left"}

TypeOK ==
  /\ ServerTypeOK /\ \A p \in Params : value[p] \in Words(p)
  /\ pc \in Places /\ after \in Passes
  /\ m \in Items
  /\ history \in Seq(Items) /\ Len(history) <= HistorySize
  /\ result \in Int /\ (pc \in {"store", "editor"} => result \in Words(prm[m]))
  /\ connected \in BOOLEAN /\ output \in BOOLEAN /\ late \in BOOLEAN /\ excused \in BOOLEAN
  /\ narrowed \subseteq Signed

Init ==
  /\ ServerInit
  /\ pc = "left" /\ m = FirstItem /\ history = <<>>
  /\ result = 0 /\ after = "keys"
  /\ connected = TRUE /\ output = FALSE /\ late = FALSE /\ excused = FALSE /\ narrowed = {}

------------------------------------------------------------------------------
(* Faulty variants of definitions below                                    *)

FaultLeft     == m
FaultPopped   == history

------------------------------------------------------------------------------
(* The regulator, as the callbacks see it                                  *)

\* reg_enableSet(true) takes effect in the call, later, or never
SwitchOn ==
  \/ output' = TRUE /\ UNCHANGED late
  \/ late' = TRUE /\ UNCHANGED output
  \/ UNCHANGED <<output, late>>

\* The values of f are stored without a look at the limits
Stored(f) == value' = [p \in Params |-> IF p \in DOMAIN f THEN f[p] ELSE value[p]]

\* The stores and calls of a preparation; accepted is what the last call returns.
\* The connection may change between them.  That of a point calls
\* reg_dacMaxValueGet first and does nothing else if it is refused.
Prepare(i, accepted) ==
  /\ \/ /\ i \in Points /\ ~connected /\ ~accepted
        /\ Stored(preset[i]) /\ UNCHANGED <<output, late, excused>>
     \/ /\ \/ i \in Wires /\ UNCHANGED value
           \/ i \in Points /\ connected /\ \E f \in derived[i] : Stored(f)
        /\ SwitchOn
        /\ excused' = (excused \/ (~accepted /\ (output' \/ late')))
  /\ UNCHANGED <<connected, narrowed>>

\* calibrExit: reg_enableSet(false) switches off, is refused, or has no effect
\* although it reports success: lost, or not sent because the cached state is off.
CalibrExit(refused) ==
  /\ \/ connected /\ ~refused /\ output' = FALSE /\ late' = FALSE
     \/ (refused => ~connected) /\ UNCHANGED <<output, late>>
  /\ excused' = (output' \/ late')
  /\ UNCHANGED <<connected, narrowed>>

\* errorCount passes its threshold, or the line recovers
Connection ==
  /\ connected' = ~connected
  /\ UNCHANGED <<value, serverVars, menuVars, output, late, excused, narrowed>>

\* The attempts to switch on that outlast their caller end
LateEnds ==
  /\ late /\ late' = FALSE /\ output' \in {output, TRUE}
  /\ excused' = (excused /\ output')
  /\ UNCHANGED <<value, serverVars, menuVars, connected, narrowed>>

------------------------------------------------------------------------------
(* The window task                                                         *)

\* base window: the settings window is selected
Open ==
  /\ pc = "left" /\ pc' = "keys"
  /\ m' = FirstItem /\ history' = <<>>
  /\ UNCHANGED <<value, serverVars, result, after, restVars>>

GoOn(place) == pc' = place /\ UNCHANGED after
Resume      == pc' = after /\ after' = "keys"

\* printMessageWindow if the callback failed, and then the rest of the pass
Tell(failed, place) ==
  IF failed THEN pc' = "message" /\ after' = place ELSE GoOn(place)

\* No key, or one that has nothing to do
NoKey ==
  /\ pc = "keys" /\ GoOn("encoder")
  /\ UNCHANGED <<value, serverVars, m, history, result, restVars>>

Load(v, place) ==
  /\ prm[m] # Null
  /\ result' = v /\ pc' = "store" /\ after' = place
  /\ UNCHANGED <<value, serverVars, m, history, regVars>>

\* stepsize: the value is read once, and stored by a later instruction
Stepped(p, amount, down) ==
  IF down THEN Lowered(p, value[p], amount) ELSE Raised(p, value[p], amount)

Steps(size, n, place) ==
  LET p == prm[m]
      amount == Amount(p, size[p], IF n < 0 THEN -n ELSE n)
  IN  /\ Load(Stepped(p, amount, n < 0), place)
      /\ narrowed' = IF amount < 0 THEN narrowed \cup {p} ELSE narrowed

UpKey   == pc = "keys" /\ Steps(bigstep, 1, "turned")
DownKey == pc = "keys" /\ Steps(bigstep, -1, "turned")
ZeroKey == pc = "keys" /\ Load(Def[prm[m]], "turned") /\ UNCHANGED narrowed

\* The encoder is read after the keys, whether one changed the value or not
Turn ==
  /\ pc \in {"encoder", "turned"} /\ change[m]
  /\ \E n \in Turns : Steps(step, n, "changes")

NoTurn ==
  /\ \/ pc = "encoder" /\ GoOn("period")
     \/ pc = "turned" /\ GoOn("changes")
  /\ UNCHANGED <<value, serverVars, m, history, result, restVars>>

Store ==
  /\ pc = "store" /\ value' = [value EXCEPT ![prm[m]] = result]
  /\ Resume /\ result' = 0
  /\ UNCHANGED <<serverVars, m, history, restVars>>

\* callChanges: setAcquisition and saveSettings fail without a connection, the
\* others report no failure
Changes ==
  /\ pc = "changes" /\ Tell(sends[m] /\ ~connected, "period")
  /\ UNCHANGED <<value, serverVars, m, history, result, restVars>>

Select(i) ==
  /\ pc = "keys" /\ i # Null /\ m' = i /\ GoOn("encoder")
  /\ UNCHANGED <<value, serverVars, history, result, restVars>>

PreviousKey == Select(previous[m])
NextKey     == Select(next[m])

Last == history[Len(history)]
Popped == SubSeq(history, 1, Len(history) - 1)

\* callExit is called for the item that the level belongs to
Left == Last

Exit(i) ==
  IF i \in Prepared THEN \E refused \in BOOLEAN : CalibrExit(refused) /\ Tell(refused, "encoder")
                    ELSE GoOn("encoder") /\ UNCHANGED restVars

ParentKey ==
  /\ pc = "keys" /\ history # <<>>
  /\ m' = Last /\ history' = Popped
  /\ Exit(Left)
  /\ UNCHANGED <<value, serverVars, result>>

\* On the first level: run returns, the settings are saved (SettingsStore) and
\* the base window is selected.
LeaveKey ==
  /\ pc = "keys" /\ history = <<>> /\ GoOn("left")
  /\ UNCHANGED <<value, serverVars, m, history, result, restVars>>

\* The child level is entered if the callback succeeds
Enter ==
  /\ GoOn("encoder")
  /\ history' = Append(history, m) /\ m' = child[m]

ChildKey ==
  /\ pc = "keys" /\ ~editor[m] /\ child[m] # Null
  /\ IF m \in Prepared
     THEN \E accepted \in BOOLEAN :
            /\ Prepare(m, accepted)
            /\ \/ accepted /\ Enter
               \/ ~accepted /\ Tell(TRUE, "encoder") /\ UNCHANGED <<m, history>>
     ELSE Enter /\ UNCHANGED <<value, restVars>>
  /\ UNCHANGED <<serverVars, result>>

\* ipAddressEditor works on a copy that it stores at its end in any case
EditorKey ==
  /\ pc = "keys" /\ editor[m]
  /\ history' = Append(history, m) /\ result' = value[prm[m]] /\ GoOn("editor")
  /\ UNCHANGED <<value, serverVars, m, restVars>>

EditorTurn ==
  /\ pc = "editor" /\ change[m] /\ result' \in Words(prm[m])
  /\ UNCHANGED <<value, serverVars, pc, m, history, after, restVars>>

EditorEnds ==
  /\ pc = "editor" /\ value' = [value EXCEPT ![prm[m]] = result]
  /\ history' = Popped /\ GoOn("encoder") /\ result' = 0
  /\ UNCHANGED <<serverVars, m, restVars>>

\* callPeriodic: updateReg and updateSaveSettings fail without a connection
Period ==
  /\ pc = "period" /\ Tell(period[m] /\ ~connected, "keys")
  /\ UNCHANGED <<value, serverVars, m, history, result, restVars>>

Dismiss ==
  /\ pc = "message" /\ Resume
  /\ UNCHANGED <<value, serverVars, m, history, result, restVars>>

Pass == NoKey \/ NoTurn \/ Store \/ Changes \/ Period

Keys == UpKey \/ DownKey \/ ZeroKey \/ PreviousKey \/ NextKey \/ ParentKey
          \/ LeaveKey \/ ChildKey \/ EditorKey \/ EditorEnds \/ Dismiss \/ Open

Window == Pass \/ Keys \/ Turn \/ EditorTurn

Next ==
  \/ Window
  \/ (Server \/ Client) /\ UNCHANGED <<menuVars, restVars>>
  \/ Connection \/ LateEnds

Spec == Init /\ [][Next]_vars

\* Both tasks run, netconn_recv reports what has arrived, and the user ends what
\* waits for him and presses kMode again and again, which leaves a level.
FairSpec ==
  /\ Spec
  /\ WF_vars(Pass) /\ WF_vars(Server /\ UNCHANGED <<menuVars, restVars>>)
  /\ WF_vars(Dismiss \/ EditorEnds) /\ SF_vars(ParentKey \/ LeaveKey)

------------------------------------------------------------------------------
(* Properties                                                              *)

\* Whatever the keys, the encoder and the server do to a parameter at the same
\* time, it stays within its limits, and so does what is about to be stored.  The
\* exceptions: a parameter that a preparation puts outside of them by itself, and
\* a signed one from the step on whose product was narrowed to a negative amount.
Bounded == Params \ (Internal \cup narrowed)

InRange ==
  /\ \A p \in Bounded : value[p] \in Lo[p] .. Hi[p]
  /\ pc \in {"store", "editor"} /\ prm[m] \in Bounded => result \in Lo[prm[m]] .. Hi[prm[m]]

\* The window has the output switched on only inside a level whose exit switches
\* it off, unless a switch-off or the end of a preparation failed.
OutputOwned ==
  output => excused \/ \E k \in DOMAIN history : history[k] \in Prepared

\* A write stores no more registers than it was asked for, and all of them if it
\* reports success.
RequestKept ==
  /\ stored <= asked
  /\ answer = "ENOERR" => stored = asked

\* Once the link works and the user enters no further level, he gets out of the
\* menu, wherever he is and whatever messages appear.
LeavesMenu ==
  <>[]connected /\ <>[][Len(history') < Len(history)]_history => []<>(pc = "left")

\* A client that closes its connection gives the regulator back.
RemoteReleased == conn /\ peer = "closed" ~> ~remote

=============================================================================
