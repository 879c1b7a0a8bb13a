------------------------- MODULE SettingsStoreProofs -------------------------
(***************************************************************************)
(* Proofs about SettingsStore for any number of pages and any settings.    *)
(***************************************************************************)
EXTENDS SettingsStore, TLAPS

\* Who uses the bus, and that the EEPROM is free when a transfer runs
Bus ==
  /\ \A w \in Writers : wr[w].pc \in {"send", "nack"} => mutex = w
  /\ \A w \in Writers : wr[w].pc = "send" => prog = NoPage

\* Which task saves which area in which stage
Places ==
  /\ stage \in {"load", "init", "hung", "run"} => wr["system"].pc = "idle"
  /\ stage \notin {"run", "shutdown"} => wr["window"].pc = "idle" /\ win = "none"
  /\ stage = "off" => wr["system"].pc = "done"
  /\ wr["system"].pc \in Saving =>
       wr["system"].area = (IF stage = "serial" THEN "sys" ELSE "use")
  /\ wr["window"].pc \in Saving =>
       wr["window"].area = "sys" /\ win = sel /\ win \in {"startup", "setting"}
  /\ stage \in {"load", "init", "hung"} <=> lowPowerSem = "null"
  /\ stage \in {"shutdown", "off"} => wr["system"].area = "use"
  /\ stage = "load" => \A a \in Areas : ram[a] = Default

\* Whose page is being programmed: after a restart or the shutdown that of a
\* task that is gone
Pending ==
  prog # NoPage =>
    /\ saved[prog.area] = Unsure
    /\ \/ stage \in {"load", "off"}
       \/ /\ wr[prog.by].pc = "delay" /\ wr[prog.by].area = prog.area
          /\ wr[prog.by].page = prog.page /\ wr[prog.by].buf = prog.buf

\* The pages that a save has passed are in the EEPROM
Passed(w) ==
  wr[w].pc \in Saving =>
    /\ saved[wr[w].area] = Unsure
    /\ \A p \in 1 .. Pages : p < wr[w].page => eeprom[wr[w].area][p] = PageOf(wr[w].buf, p)
    /\ wr[w].pc = "delay" =>
         \/ prog # NoPage /\ prog.by = w
         \/ eeprom[wr[w].area][wr[w].page] = PageOf(wr[w].buf, wr[w].page)

Written == \A w \in Writers : Passed(w)

\* A shutdown that is not disturbed has the bus for itself
Undisturbed ==
  ~overlap =>
    /\ stage = "shutdown" /\ wr["system"].pc \in Saving =>
         wr["window"].pc \notin Saving /\ wr["system"].pc # "nack"
    /\ stage \in {"shutdown", "off"} /\ wr["system"].pc \notin Saving =>
         saved["use"] = wr["system"].buf

\* What was loaded is in the EEPROM, and a flag says that the area is not whole
Loaded ==
  stage = "init" => \A a \in Areas :
    (ram[a] = Default \/ eeprom[a] = Image(ram[a])) /\ (flag[a] => ~Valid(a))

IInv == /\ TypeOK /\ Bus /\ Places /\ Pending /\ Written
        /\ Durable /\ Undisturbed /\ Loaded

------------------------------------------------------------------------------
(* The initial state                                                       *)

LEMMA DefaultSettings == Default \in Settings /\ 1 \in 1 .. Pages /\ Pages \in 1 .. Pages
BY PagesAssumption

\* Init has the invariant: nothing is stored, nothing runs.
LEMMA InitInv == Init => IInv
<1> SUFFICES ASSUME Init PROVE IInv
  OBVIOUS
<1> USE DefaultSettings DEF Init
<1>1. TypeOK
  <2>1. Torn \in Page
    BY DEF Page
  <2>2. Idle \in [pc : Saving \cup {"idle", "done"}, area : Areas, page : 1 .. Pages,
                  buf : Settings]
    BY DEF Idle, Areas
  <2>3. QED
    BY <2>1, <2>2 DEF TypeOK, Windows
<1>2. Bus /\ Places /\ Pending
  BY DEF Bus, Places, Pending, Idle, Saving, Writers
<1>3. Written /\ Durable /\ Undisturbed /\ Loaded
  BY DEF Written, Passed, Durable, Undisturbed, Loaded, Idle, Saving
<1>4. QED
  BY <1>1, <1>2, <1>3 DEF IInv

------------------------------------------------------------------------------
(* Types                                                                   *)

\* A page of some settings is a page.
LEMMA PageType ==
  ASSUME NEW s \in Settings, NEW p \in 1 .. Pages
  PROVE  PageOf(s, p) \in Page
BY DEF Page

\* Settings that an area holds are what its pages say.
LEMMA ImageValues ==
  ASSUME NEW s \in Settings, NEW r, r = Image(s)
  PROVE  [p \in 1 .. Pages |-> r[p].value] = s
<1>1. \A p \in 1 .. Pages : r[p].value = s[p]
  BY DEF Image, PageOf
<1>2. s = [p \in 1 .. Pages |-> s[p]]
  BY PagesAssumption
<1>3. QED
  BY <1>1, <1>2

\* The beginning of a save changes its task's record only.
LEMMA StartSaveType ==
  ASSUME TypeOK, NEW w \in Writers, NEW a \in Areas, NEW s \in Settings,
         StartSave(w, a, s)
  PROVE  /\ wr' \in [Writers -> [pc : Saving \cup {"idle", "done"}, area : Areas,
                                 page : 1 .. Pages, buf : Settings]]
         /\ mutex' \in Writers \cup {NoTask}
         /\ eeprom' \in [Areas -> [1 .. Pages -> Page]]
         /\ prog' \in [by : Writers, area : Areas, page : 1 .. Pages, buf : Settings]
                       \cup {NoPage}
         /\ saved' \in [Areas -> Settings \cup {Unsure}] /\ overlap' \in BOOLEAN
BY DefaultSettings DEF TypeOK, StartSave, memory, Saving

\* Every step of a save keeps the types.
LEMMA SaveType ==
  ASSUME TypeOK, NEW w \in Writers, Save(w)
  PROVE  TypeOK'
<1>1. CASE Lock(w)
  BY <1>1 DEF Lock, Step, Goto, TypeOK, panel, memory, Saving
<1>2. CASE Sent(w)
  BY <1>2 DEF Sent, Step, Goto, Transfer, TypeOK, panel, Saving
<1>3. CASE Nacked(w)
  BY <1>3 DEF Nacked, AfterNack, Step, Goto, TypeOK, panel, memory, Saving
<1>4. CASE Delay(w)
  <2>1. /\ UNCHANGED <<stage, win, sel, lowPowerSem, ram, flag, mutex, eeprom, prog, overlap>>
        /\ saved' \in [Areas -> Settings \cup {Unsure}]
    BY <1>4 DEF Delay, panel, memory, TypeOK
  <2>2. PICK pc \in {"done", "lock"}, page \in 1 .. Pages : Goto(w, pc, page)
    <3>1. CASE LastPage(w)
      BY <1>4, <3>1 DEF Delay, Step, TypeOK
    <3>2. CASE ~LastPage(w)
      <4>1. wr[w].page \in 1 .. Pages
        BY DEF TypeOK
      <4>2. wr[w].page + 1 \in 1 .. Pages
        BY <3>2, <4>1, PagesAssumption DEF LastPage
      <4>3. QED
        BY <1>4, <3>2, <4>2 DEF Delay
    <3>3. QED
      BY <3>1, <3>2
  <2>3. wr' \in [Writers -> [pc : Saving \cup {"idle", "done"}, area : Areas,
                             page : 1 .. Pages, buf : Settings]]
    BY <2>2 DEF Goto, TypeOK, Saving
  <2>4. QED
    BY <2>1, <2>3 DEF TypeOK
<1>5. QED
  BY <1>1, <1>2, <1>3, <1>4 DEF Save

\* Everything but the EEPROM starts with its type.
LEMMA RestartType ==
  ASSUME TypeOK, Restart,
         eeprom' \in [Areas -> [1 .. Pages -> Page]],
         prog' = prog \/ prog' = NoPage
  PROVE  TypeOK'
BY DefaultSettings DEF Restart, TypeOK, Idle, Windows, Saving, Areas

LEMMA TypeStep == ASSUME TypeOK, [Next]_vars PROVE TypeOK'
<1>1. CASE Load
  <2>1. PICK readable \in SUBSET Areas :
          /\ ram' = [a \in Areas |-> IF a \in readable /\ Valid(a)
                                       THEN [p \in 1 .. Pages |-> eeprom[a][p].value]
                                       ELSE ram[a]]
          /\ flag' = [a \in Areas |-> a \in readable /\ ~Valid(a)]
    BY <1>1 DEF Load
  <2>2. ASSUME NEW a \in Areas, Valid(a)
        PROVE  [p \in 1 .. Pages |-> eeprom[a][p].value] \in Settings
    BY <2>2, ImageValues DEF Valid
  <2>3. ram' \in [Areas -> Settings]
    BY <2>1, <2>2 DEF TypeOK
  <2>4. flag' \in [Areas -> BOOLEAN]
    BY <2>1
  <2>5. QED
    BY <1>1, <2>3, <2>4 DEF Load, TypeOK, memory
<1>2. CASE CreateSem
  BY <1>2 DEF CreateSem, TypeOK, memory
<1>3. CASE SerialNumber
  <2>1. PICK s \in Settings : ram' = [ram EXCEPT !["sys"] = s] /\ StartSave("system", "sys", s)
    BY <1>3 DEF SerialNumber
  <2>2. "system" \in Writers /\ "sys" \in Areas
    BY DEF Writers, Areas
  <2>3. QED
    BY <1>3, <2>1, <2>2, StartSaveType DEF SerialNumber, TypeOK
<1>4. CASE Started
  BY <1>4, DefaultSettings DEF Started, TypeOK, memory, Idle, Windows, Areas, Writers
<1>5. CASE SwitchWindow
  BY <1>5, DefaultSettings DEF SwitchWindow, TypeOK, memory, Idle, Areas, Writers
<1>6. CASE Shutdown
  <2>1. "system" \in Writers /\ "use" \in Areas /\ ram["use"] \in Settings
    BY DEF Writers, Areas, TypeOK
  <2>2. QED
    BY <1>6, <2>1, StartSaveType DEF Shutdown, TypeOK
<1>7. CASE DeleteWindow
  BY <1>7, DefaultSettings
  DEF DeleteWindow, TypeOK, Idle, Areas, Writers, Windows, Transfer
<1>8. CASE Reset
  BY <1>8, RestartType DEF Reset, memory, TypeOK
<1>9. ASSUME NEW w \in Writers, Save(w) PROVE TypeOK'
  BY <1>9, SaveType
<1>10. CASE Programmed
  <2>1. PageOf(prog.buf, prog.page) \in Page
    BY <1>10, PageType DEF Programmed, TypeOK
  <2>2. QED
    BY <1>10, <2>1 DEF Programmed, TypeOK, panel
<1>11. CASE WindowSaves
  <2>1. "window" \in Writers /\ "sys" \in Areas /\ ram["sys"] \in Settings
    BY DEF Writers, Areas, TypeOK
  <2>2. QED
    BY <1>11, <2>1, StartSaveType DEF WindowSaves, TypeOK, panel
<1>12. CASE WindowLeaves
  BY <1>12 DEF WindowLeaves, Select, TypeOK, memory, Windows
<1>13. CASE Change
  BY <1>13 DEF Change, TypeOK, memory
<1>14. CASE Pvd
  BY <1>14 DEF Pvd, TypeOK, memory
<1>15. CASE PowerCut
  <2>1. eeprom' \in [Areas -> [1 .. Pages -> Page]]
    <3>1. CASE eeprom' = eeprom
      BY <3>1 DEF TypeOK
    <3>2. ASSUME prog # NoPage, NEW c \in {PageOf(prog.buf, prog.page), Torn},
                 eeprom' = [eeprom EXCEPT ![prog.area][prog.page] = c]
          PROVE  eeprom' \in [Areas -> [1 .. Pages -> Page]]
      <4>1. prog.area \in Areas /\ prog.page \in 1 .. Pages /\ prog.buf \in Settings
        BY <3>2 DEF TypeOK
      <4>2. Torn \in Page
        BY DEF Page
      <4>3. c \in Page
        BY <4>1, <4>2, PageType
      <4>4. QED
        BY <3>2, <4>1, <4>3 DEF TypeOK
    <3>3. QED
      BY <1>15, <3>1, <3>2 DEF PowerCut
  <2>2. QED
    BY <1>15, <2>1, RestartType DEF PowerCut
<1>16. CASE UNCHANGED vars
  BY <1>16 DEF vars, panel, memory, TypeOK
<1>17. QED
  BY <1>1, <1>2, <1>3, <1>4, <1>5, <1>6, <1>7, <1>8, <1>9, <1>10, <1>11, <1>12, <1>13,
     <1>14, <1>15, <1>16 DEF Next, SystemTSK

------------------------------------------------------------------------------
(* The bus, the stages and the page in programming                         *)

\* A transfer has the mutex, so there is one at a time, on an EEPROM that is free.
LEMMA BusStep == ASSUME TypeOK, Bus, [Next]_vars PROVE Bus'
<1> USE DEF Bus, TypeOK, Writers, Saving
<1>1. ASSUME NEW w \in Writers, Save(w) PROVE Bus'
  <2>1. CASE Lock(w)
    BY <2>1, NoTaskAssumption DEF Lock, Step, Goto, Acked, memory
  <2>2. CASE Sent(w)
    BY <2>2 DEF Sent, Step, Goto
  <2>3. CASE Nacked(w)
    BY <2>3 DEF Nacked, AfterNack, Step, Goto, memory
  <2>4. CASE Delay(w)
    BY <2>4 DEF Delay, Step, Goto, memory
  <2>5. QED
    BY <1>1, <2>1, <2>2, <2>3, <2>4 DEF Save
<1>2. ASSUME NEW w \in Writers, NEW a, NEW s, StartSave(w, a, s) PROVE Bus'
  BY <1>2 DEF StartSave, memory
<1>3. CASE SerialNumber \/ Shutdown \/ WindowSaves
  BY <1>2, <1>3 DEF SerialNumber, Shutdown, WindowSaves
<1>4. CASE Started \/ SwitchWindow \/ DeleteWindow
  BY <1>4 DEF Started, SwitchWindow, DeleteWindow, Idle, memory
<1>5. CASE Reset \/ PowerCut
  BY <1>5 DEF Reset, PowerCut, Restart, Idle
<1>6. CASE Load \/ CreateSem \/ Programmed \/ WindowLeaves \/ Change \/ Pvd \/ UNCHANGED vars
  BY <1>6 DEF Load, CreateSem, Programmed, WindowLeaves, Change, Pvd, vars, memory
<1>7. QED
  BY <1>1, <1>3, <1>4, <1>5, <1>6 DEF Next, SystemTSK

\* Each task saves its own area in its own stages, and a window that saves is
\* neither suspended nor deleted by a change of windows.
LEMMA PlacesStep == ASSUME TypeOK, Places, [Next]_vars PROVE Places'
<1> USE DEF Places, TypeOK, Writers, Saving
<1>1. ASSUME NEW w \in Writers, Save(w) PROVE Places'
  <2>1. PICK pc \in Saving \cup {"done"} : \E page : Goto(w, pc, page)
    BY <1>1 DEF Save, Lock, Sent, Nacked, Delay, Step, AfterNack
  <2>2. UNCHANGED panel /\ wr[w].pc \in Saving
    BY <1>1 DEF Save, Lock, Sent, Nacked, Delay
  <2>3. QED
    BY <2>1, <2>2 DEF Goto, panel
<1>2. CASE SerialNumber
  BY <1>2 DEF SerialNumber, StartSave
<1>3. CASE Shutdown
  BY <1>3 DEF Shutdown, StartSave
<1>4. CASE WindowSaves
  BY <1>4 DEF WindowSaves, StartSave, panel
<1>5. CASE Started
  BY <1>5 DEF Started, Idle
<1>6. CASE SwitchWindow
  BY <1>6 DEF SwitchWindow, Idle
<1>7. CASE DeleteWindow
  BY <1>7 DEF DeleteWindow, Idle
<1>8. CASE Reset \/ PowerCut
  BY <1>8 DEF Reset, PowerCut, Restart, Idle
<1>9. CASE WindowLeaves
  BY <1>9 DEF WindowLeaves, Select
<1>10. CASE Load \/ CreateSem \/ Programmed \/ Change
  BY <1>10 DEF Load, CreateSem, Programmed, Change, panel
<1>11. CASE Pvd
  BY <1>11 DEF Pvd
<1>12. CASE UNCHANGED vars
  BY <1>12 DEF vars, panel
<1>13. QED
  BY <1>1, <1>2, <1>3, <1>4, <1>5, <1>6, <1>7, <1>8, <1>9, <1>10, <1>11, <1>12
  DEF Next, SystemTSK

\* The two tasks never save the same area.
LEMMA OneSaver ==
  ASSUME Places, NEW w \in Writers, NEW v \in Writers,
         wr[w].pc \in Saving, wr[v].pc \in Saving, wr[w].area = wr[v].area
  PROVE  w = v
BY DEF Places, Writers, Saving

\* A page in programming belongs to a save that waits for it, or to nobody.
LEMMA PendingStep ==
  ASSUME TypeOK, Bus, Places, Pending, Written, [Next]_vars
  PROVE  Pending'
<1> USE DEF Pending, TypeOK
<1>1. ASSUME NEW w \in Writers, Save(w) PROVE Pending'
  <2>1. CASE Lock(w)
    BY <2>1 DEF Lock, Step, Goto, memory, panel
  <2>2. CASE Sent(w)
    BY <2>2 DEF Sent, Step, Goto, Transfer, Written, Passed, Saving
  <2>3. CASE Nacked(w)
    BY <2>3 DEF Nacked, memory
  <2>4. CASE Delay(w)
    <3>1. prog # NoPage => prog.by # w
      BY <2>4 DEF Delay, DelayOver
    <3>2. UNCHANGED <<prog, stage>> /\ \A v \in Writers : v # w => wr'[v] = wr[v]
      BY <2>4 DEF Delay, Step, Goto, memory, panel
    <3>3. ASSUME prog # NoPage PROVE saved'[prog.area] = Unsure
      <4>1. CASE stage \in {"load", "off"}
        BY <2>4, <4>1 DEF Delay, Places, Writers, Saving
      <4>2. CASE wr[prog.by].pc = "delay" /\ wr[prog.by].area = prog.area
        BY <2>4, <3>1, <3>3, <4>2, OneSaver DEF Delay, Saving
      <4>3. QED
        BY <3>3, <4>1, <4>2
    <3>4. QED
      BY <3>1, <3>2, <3>3
  <2>5. QED
    BY <1>1, <2>1, <2>2, <2>3, <2>4 DEF Save
<1>2. ASSUME NEW w \in Writers, NEW a \in Areas, NEW s \in Settings,
             StartSave(w, a, s), stage \notin {"load", "off"}, UNCHANGED stage \/ stage' = "shutdown"
      PROVE  Pending'
  BY <1>2 DEF StartSave, memory
<1>3. CASE SerialNumber
  BY <1>2, <1>3 DEF SerialNumber, Writers, Areas
<1>4. CASE Shutdown
  BY <1>2, <1>4 DEF Shutdown, Writers, Areas
<1>5. CASE WindowSaves
  <2>1. stage \notin {"load", "off"}
    BY <1>5 DEF WindowSaves, Places
  <2>2. QED
    BY <1>2, <1>5, <2>1 DEF WindowSaves, panel, Writers, Areas
<1>6. CASE Started \/ SwitchWindow
  BY <1>6 DEF Started, SwitchWindow, Idle, Places, Saving, memory, Writers
<1>7. CASE DeleteWindow
  BY <1>7 DEF DeleteWindow, Transfer, Written, Passed, Saving, Writers
<1>8. CASE Reset \/ PowerCut
  BY <1>8 DEF Reset, PowerCut, Restart, memory
<1>9. CASE Load \/ CreateSem \/ Programmed \/ WindowLeaves \/ Change \/ UNCHANGED vars
  BY <1>9 DEF Load, CreateSem, Programmed, WindowLeaves, Select, Change, vars, panel, memory
<1>10. CASE Pvd
  BY <1>10 DEF Pvd, memory, Places, Writers
<1>11. QED
  BY <1>1, <1>3, <1>4, <1>5, <1>6, <1>7, <1>8, <1>9, <1>10 DEF Next, SystemTSK

------------------------------------------------------------------------------
(* The content of the EEPROM                                               *)

\* Only the page in programming changes, to what was sent or, torn, to nothing.
LEMMA EepromStep ==
  ASSUME [Next]_vars, eeprom' # eeprom
  PROVE  /\ prog # NoPage
         /\ Programmed \/ PowerCut
         /\ \E c \in {PageOf(prog.buf, prog.page), Torn} :
              eeprom' = [eeprom EXCEPT ![prog.area][prog.page] = c]
<1>1. CASE Programmed
  BY <1>1 DEF Programmed
<1>2. CASE PowerCut
  BY <1>2 DEF PowerCut
<1>3. ASSUME NEW w, Save(w) PROVE eeprom' = eeprom
  BY <1>3 DEF Save, Lock, Sent, Nacked, Delay, memory
<1>4. ASSUME SystemTSK PROVE eeprom' = eeprom
  BY <1>4 DEF SystemTSK, Load, CreateSem, SerialNumber, Started, SwitchWindow, Shutdown,
              DeleteWindow, Reset, StartSave, memory
<1>5. ASSUME WindowSaves \/ WindowLeaves \/ Change \/ Pvd \/ UNCHANGED vars
      PROVE  eeprom' = eeprom
  BY <1>5 DEF WindowSaves, WindowLeaves, Change, Pvd, StartSave, vars, memory
<1>6. QED
  BY <1>1, <1>2, <1>3, <1>4, <1>5 DEF Next

\* A save goes on from its last page only to its end.
LEMMA SavedStep ==
  ASSUME TypeOK, [Next]_vars, NEW a \in Areas, saved'[a] # saved[a]
  PROVE  \/ saved'[a] = Unsure
         \/ \E w \in Writers : /\ Delay(w) /\ LastPage(w) /\ wr[w].area = a
                               /\ saved'[a] = wr[w].buf
<1> USE DEF TypeOK
<1>1. ASSUME NEW w \in Writers, Save(w)
      PROVE  Delay(w) /\ LastPage(w) /\ wr[w].area = a /\ saved'[a] = wr[w].buf
  BY <1>1 DEF Save, Lock, Sent, Nacked, Delay
<1>2. CASE SerialNumber \/ Shutdown \/ WindowSaves
  BY <1>2 DEF SerialNumber, Shutdown, WindowSaves, StartSave
<1>3. CASE Load \/ CreateSem \/ Started \/ SwitchWindow \/ DeleteWindow \/ Reset
           \/ Programmed \/ WindowLeaves \/ Change \/ Pvd \/ PowerCut \/ UNCHANGED vars
  BY <1>3 DEF Load, CreateSem, Started, SwitchWindow, DeleteWindow, Reset, Restart,
              Programmed, WindowLeaves, Change, Pvd, PowerCut, vars
<1>4. QED
  BY <1>1, <1>2, <1>3 DEF Next, SystemTSK

\* A save that has programmed its last page has written the whole area.
LEMMA AreaWritten ==
  ASSUME TypeOK, Written, NEW w \in Writers, Delay(w), LastPage(w)
  PROVE  eeprom[wr[w].area] = Image(wr[w].buf)
<1> DEFINE e == eeprom[wr[w].area]
<1>1. \A p \in 1 .. Pages : e[p] = PageOf(wr[w].buf, p)
  <2>1. \A p \in 1 .. Pages : p < Pages \/ p = Pages
    BY PagesAssumption
  <2>2. QED
    BY <2>1 DEF Written, Passed, Delay, DelayOver, LastPage, Saving
<1>2. e \in [1 .. Pages -> Page]
  BY DEF TypeOK
<1>3. QED
  BY <1>1, <1>2 DEF Image

\* A complete save lasts: the EEPROM programs no page of its area.
LEMMA DurableStep ==
  ASSUME TypeOK, Pending, Written, Durable, [Next]_vars
  PROVE  Durable'
<1> SUFFICES ASSUME NEW a \in Areas, saved'[a] # Unsure
             PROVE  eeprom'[a] = Image(saved'[a])
  BY DEF Durable, Image, PageOf
<1>1. CASE saved'[a] = saved[a]
  <2>1. CASE eeprom' = eeprom
    BY <1>1, <2>1 DEF Durable
  <2>2. CASE eeprom' # eeprom
    <3>1. eeprom'[a] = eeprom[a]
      BY <1>1, <2>2, EepromStep DEF Pending, TypeOK
    <3>2. QED
      BY <1>1, <3>1 DEF Durable
  <2>3. QED
    BY <2>1, <2>2
<1>2. CASE saved'[a] # saved[a]
  <2>1. PICK w \in Writers : /\ Delay(w) /\ LastPage(w) /\ wr[w].area = a
                             /\ saved'[a] = wr[w].buf
    BY <1>2, SavedStep
  <2>2. QED
    BY <2>1, AreaWritten DEF Delay, memory
<1>3. QED
  BY <1>1, <1>2

\* A page in programming is the page that its task has sent, for no other saves
\* the area.
LEMMA WrittenStep ==
  ASSUME TypeOK, Bus, Places, Pending, Written, [Next]_vars
  PROVE  Written'
<1> USE DEF TypeOK
<1>1. ASSUME NEW w \in Writers, Save(w) PROVE Written'
  <2> SUFFICES ASSUME NEW v \in Writers PROVE Passed(v)'
    BY DEF Written
  <2>1. UNCHANGED eeprom /\ Passed(v) /\ Passed(w)
    BY <1>1 DEF Save, Lock, Sent, Nacked, Delay, memory, Written
  <2>2. CASE Lock(w) \/ Nacked(w)
    BY <2>1, <2>2 DEF Lock, Nacked, AfterNack, Step, Goto, Passed, PageOf, memory, Saving
  <2>3. CASE Sent(w)
    <3>1. prog' # NoPage /\ prog'.by = w
      BY <2>3, NoTaskAssumption DEF Sent, Transfer
    <3>2. prog = NoPage
      BY <2>3 DEF Sent, Bus
    <3>3. QED
      BY <2>1, <2>3, <3>1, <3>2 DEF Sent, Step, Goto, Passed, PageOf, Saving
  <2>4. CASE Delay(w)
    <3>1. CASE v # w
      BY <2>1, <2>4, <3>1, OneSaver DEF Delay, Step, Goto, Passed, PageOf, memory, Saving
    <3>2. CASE v = w /\ LastPage(w)
      BY <2>4, <3>2 DEF Delay, Step, Goto, Passed, Saving
    <3>3. CASE v = w /\ ~LastPage(w)
      <4>1. \A p \in 1 .. Pages : p < wr[w].page + 1 =>
              eeprom[wr[w].area][p] = PageOf(wr[w].buf, p)
        BY <2>1, <2>4 DEF Delay, DelayOver, Passed, Saving
      <4>2. wr'[w] = [pc |-> "lock", area |-> wr[w].area, page |-> wr[w].page + 1,
                      buf |-> wr[w].buf] /\ UNCHANGED <<eeprom, saved>>
        BY <2>4, <3>3 DEF Delay, Goto, memory
      <4>3. QED
        BY <2>1, <2>4, <3>3, <4>1, <4>2 DEF Delay, Passed, PageOf, Saving
    <3>4. QED
      BY <3>1, <3>2, <3>3
  <2>5. QED
    BY <1>1, <2>2, <2>3, <2>4 DEF Save
<1>2. ASSUME NEW w \in Writers, NEW a \in Areas, NEW s \in Settings, StartSave(w, a, s)
      PROVE  Written'
  BY <1>2 DEF StartSave, Written, Passed, PageOf, memory
<1>3. CASE SerialNumber \/ Shutdown \/ WindowSaves
  BY <1>2, <1>3 DEF SerialNumber, Shutdown, WindowSaves, Writers, Areas
<1>4. CASE Programmed
  <2> SUFFICES ASSUME NEW v \in Writers, wr[v].pc \in Saving PROVE Passed(v)'
    BY <1>4 DEF Written, Passed, Programmed
  <2>1. UNCHANGED <<wr, saved>> /\ Passed(v)
    BY <1>4 DEF Programmed, Written
  <2>2. /\ wr[prog.by].pc = "delay" /\ wr[prog.by].area = prog.area
        /\ wr[prog.by].page = prog.page /\ wr[prog.by].buf = prog.buf
    BY <1>4 DEF Programmed, Pending, Places, Writers, Saving
  <2>3. CASE v = prog.by
    BY <1>4, <2>1, <2>2, <2>3 DEF Programmed, Passed, PageOf
  <2>4. CASE v # prog.by
    <3>1. wr[v].area # prog.area
      BY <1>4, <2>2, <2>4, OneSaver DEF Programmed, Saving
    <3>2. eeprom'[wr[v].area] = eeprom[wr[v].area]
      BY <1>4, <3>1 DEF Programmed
    <3>3. QED
      BY <2>1, <2>4, <3>2 DEF Passed, PageOf
  <2>5. QED
    BY <2>3, <2>4
<1>5. CASE Started \/ SwitchWindow
  BY <1>5 DEF Started, SwitchWindow, Idle, Written, Passed, PageOf, Saving, memory, Writers
<1>6. CASE DeleteWindow
  BY <1>6 DEF DeleteWindow, Idle, Written, Passed, Saving, Writers
<1>7. CASE Reset \/ PowerCut
  BY <1>7 DEF Reset, PowerCut, Restart, Idle, Written, Passed, Saving
<1>8. CASE Load \/ CreateSem \/ WindowLeaves \/ Change \/ Pvd \/ UNCHANGED vars
  BY <1>8 DEF Load, CreateSem, WindowLeaves, Change, Pvd, Written, Passed, PageOf, vars, memory
<1>9. QED
  BY <1>1, <1>3, <1>4, <1>5, <1>6, <1>7, <1>8 DEF Next, SystemTSK

------------------------------------------------------------------------------
(* The shutdown and the start                                              *)

\* A shutdown that saves alone finds the EEPROM free for each of its pages.
LEMMA UndisturbedStep ==
  ASSUME TypeOK, Places, Pending, Undisturbed, [Next]_vars
  PROVE  Undisturbed'
<1> USE DEF TypeOK, Undisturbed
<1>1. ASSUME NEW w \in Writers, Save(w) PROVE Undisturbed'
  <2>1. UNCHANGED <<stage, overlap>> /\ wr[w].pc \in Saving
    BY <1>1 DEF Save, Lock, Sent, Nacked, Delay, panel, Saving
  <2>2. CASE w = "window"
    <3>1. wr'["system"] = wr["system"]
      BY <1>1, <2>2 DEF Save, Lock, Sent, Nacked, Delay, Step, Goto, Writers
    <3>2. wr[w].area = "sys"
      BY <2>1, <2>2 DEF Places
    <3>3. saved'["use"] = saved["use"]
      BY <1>1, <3>2 DEF Save, Lock, Sent, Nacked, Delay, Areas
    <3>4. QED
      BY <2>1, <3>1, <3>3, <2>2, <1>1 DEF Save, Lock, Sent, Nacked, Delay, Step, Goto, Writers
  <2>3. CASE w = "system"
    <3>1. wr'["window"] = wr["window"] /\ "system" \in Writers /\ wr'["system"].buf = wr["system"].buf
      BY <1>1, <2>3 DEF Save, Lock, Sent, Nacked, Delay, Step, Goto, Writers
    <3>2. CASE stage # "shutdown"
      BY <2>1, <2>3, <3>1, <3>2 DEF Places, Saving
    <3>3. CASE overlap
      BY <2>1, <3>3
    <3>4. CASE ~overlap /\ stage = "shutdown"
      <4>1. wr["window"].pc \notin Saving /\ wr["system"].pc # "nack"
        BY <2>1, <2>3, <3>4
      <4>2. CASE Lock(w)
        <5>1. prog = NoPage
          BY <2>3, <3>4, <4>1, <4>2 DEF Lock, Pending, Writers, Saving
        <5>2. wr'["system"].pc = "send"
          BY <2>3, <3>1, <4>2, <5>1 DEF Lock, Step, Goto, Acked
        <5>3. QED
          BY <2>1, <3>1, <4>1, <5>2 DEF Saving
      <4>3. CASE Sent(w)
        BY <2>1, <2>3, <3>1, <4>1, <4>3 DEF Sent, Step, Goto, Saving
      <4>4. CASE Delay(w) /\ LastPage(w)
        BY <2>1, <2>3, <3>1, <4>1, <4>4, <3>4 DEF Delay, Step, Goto, Saving, Places, Areas
      <4>5. CASE Delay(w) /\ ~LastPage(w)
        BY <2>1, <2>3, <3>1, <4>1, <4>5 DEF Delay, Goto, Saving
      <4>6. CASE Nacked(w)
        BY <2>3, <4>1, <4>6 DEF Nacked
      <4>7. QED
        BY <1>1, <4>2, <4>3, <4>4, <4>5, <4>6 DEF Save
    <3>5. QED
      BY <3>2, <3>3, <3>4
  <2>4. QED
    BY <2>2, <2>3 DEF Writers
<1>2. CASE Shutdown
  BY <1>2 DEF Shutdown, StartSave, Writers, Saving
<1>3. CASE SerialNumber
  BY <1>3 DEF SerialNumber
<1>4. CASE WindowSaves
  <2>1. /\ StartSave("window", "sys", ram["sys"]) /\ UNCHANGED stage
    BY <1>4 DEF WindowSaves, panel
  <2>2. saved'["use"] = saved["use"] /\ wr'["system"] = wr["system"]
    BY <2>1 DEF StartSave, Areas, Writers
  <2>3. ~overlap' => ~overlap /\ wr["system"].pc \notin Saving
    BY <2>1 DEF StartSave, Writers
  <2>4. QED
    BY <2>1, <2>2, <2>3
<1>5. CASE DeleteWindow
  BY <1>5 DEF DeleteWindow, Idle, Saving
<1>6. CASE Load \/ CreateSem \/ Started \/ SwitchWindow
  BY <1>6 DEF Load, CreateSem, Started, SwitchWindow
<1>7. CASE Reset \/ PowerCut
  BY <1>7 DEF Reset, PowerCut, Restart
<1>8. CASE Programmed \/ WindowLeaves \/ Change \/ UNCHANGED vars
  BY <1>8 DEF Programmed, WindowLeaves, Select, Change, vars, panel
<1>9. CASE Pvd
  BY <1>9 DEF Pvd
<1>10. QED
  BY <1>1, <1>2, <1>3, <1>4, <1>5, <1>6, <1>7, <1>8, <1>9 DEF Next, SystemTSK

\* Nothing is saved or programmed between the load and the end of the start.
LEMMA LoadedStep ==
  ASSUME TypeOK, Places, Pending, Loaded, [Next]_vars
  PROVE  Loaded'
<1> SUFFICES ASSUME stage' = "init" PROVE Loaded'
  BY DEF Loaded
<1>1. CASE Load
  <2>1. UNCHANGED eeprom
    BY <1>1 DEF Load, memory
  <2>2. PICK readable \in SUBSET Areas :
          /\ ram' = [a \in Areas |-> IF a \in readable /\ Valid(a)
                                       THEN [p \in 1 .. Pages |-> eeprom[a][p].value]
                                       ELSE ram[a]]
          /\ flag' = [a \in Areas |-> a \in readable /\ ~Valid(a)]
    BY <1>1 DEF Load
  <2>3. ASSUME NEW a \in Areas
        PROVE  ram'[a] = Default \/ eeprom[a] = Image(ram'[a])
    <3>1. CASE a \in readable /\ Valid(a)
      <4>1. PICK s \in Settings : eeprom[a] = Image(s)
        BY <3>1 DEF Valid
      <4>2. ram'[a] = [p \in 1 .. Pages |-> eeprom[a][p].value]
        BY <2>2, <3>1
      <4>3. ram'[a] = s
        BY <4>1, <4>2, ImageValues
      <4>4. QED
        BY <4>1, <4>3
    <3>2. CASE ~(a \in readable /\ Valid(a))
      BY <1>1, <2>2, <3>2 DEF Load, Places
    <3>3. QED
      BY <3>1, <3>2
  <2>4. ASSUME NEW a \in Areas, flag'[a]
        PROVE  ~Valid(a)
    BY <2>2, <2>4
  <2>5. QED
    BY <2>1, <2>3, <2>4 DEF Loaded, Valid, Image, PageOf
<1>2. ASSUME ~Load PROVE UNCHANGED <<stage, ram, flag, eeprom>>
  <2>1. CASE SystemTSK
    BY <1>2, <2>1 DEF SystemTSK, CreateSem, SerialNumber, Started, SwitchWindow, Shutdown,
                      DeleteWindow, Reset, Restart
  <2>2. ASSUME NEW w \in Writers, Save(w) PROVE UNCHANGED <<stage, ram, flag, eeprom>>
    BY <2>2 DEF Save, Lock, Sent, Nacked, Delay, panel, memory
  <2>3. CASE Programmed
    BY <2>3 DEF Programmed, Pending, Places, panel, TypeOK, Writers
  <2>4. CASE WindowSaves \/ WindowLeaves \/ Pvd \/ UNCHANGED vars
    BY <2>4 DEF WindowSaves, WindowLeaves, Select, Pvd, StartSave, panel, memory, vars
  <2>5. CASE Change \/ PowerCut
    BY <2>5 DEF Change, PowerCut, Restart
  <2>6. QED
    BY <2>1, <2>2, <2>3, <2>4, <2>5 DEF Next
<1>3. CASE ~Load
  <2>1. stage = "init" /\ UNCHANGED <<ram, flag, eeprom>>
    BY <1>2, <1>3
  <2>2. ASSUME NEW a \in Areas PROVE Valid(a)' <=> Valid(a)
    BY <2>1 DEF Valid, Image, PageOf
  <2>3. ASSUME NEW a \in Areas PROVE Image(ram[a])' = Image(ram[a])
    BY <2>1 DEF Image, PageOf
  <2>4. QED
    BY <2>1, <2>2, <2>3 DEF Loaded
<1>4. QED
  BY <1>1, <1>3

\* The invariant holds in every state.
LEMMA Inductive == IInv /\ [Next]_vars => IInv'
BY TypeStep, BusStep, PlacesStep, PendingStep, WrittenStep, DurableStep,
   UndisturbedStep, LoadedStep DEF IInv

THEOREM Invariance == Spec => []IInv
BY InitInv, Inductive, PTL DEF Spec

\* Every variable keeps its type.
THEOREM TypeCorrect == Spec => []TypeOK
BY Invariance, PTL DEF IInv

\* What a save completed is in the EEPROM until the area is saved again, whatever
\* the other task, resets and power failures do in between.
THEOREM SavesAreDurable == Spec => []Durable
BY Invariance, PTL DEF IInv

\* Before the panel waits for its end, a shutdown that was alone on the bus has
\* saved the user parameters.
THEOREM ShutdownSaves == Spec => []ShutdownSaved
<1>1. IInv => ShutdownSaved
  BY DEF IInv, Undisturbed, Places, ShutdownSaved, Saving
<1>2. QED
  BY <1>1, Invariance, PTL

\* A start finds what was saved completely, or the defaults if it cannot read them.
THEOREM LoadsAreHonest == Spec => []LoadHonest
<1>1. ASSUME IInv, stage = "init", NEW a \in Areas
      PROVE  /\ ram[a] = Default \/ eeprom[a] = Image(ram[a])
             /\ saved[a] # Unsure => ram[a] \in {saved[a], Default} /\ ~flag[a]
  <2>1. (ram[a] = Default \/ eeprom[a] = Image(ram[a])) /\ (flag[a] => ~Valid(a))
    BY <1>1 DEF IInv, Loaded
  <2>2. ram[a] \in Settings /\ saved[a] \in Settings \cup {Unsure}
    BY <1>1 DEF IInv, TypeOK
  <2>3. ASSUME saved[a] # Unsure PROVE ram[a] \in {saved[a], Default} /\ ~flag[a]
    <3>1. eeprom[a] = Image(saved[a]) /\ saved[a] \in Settings
      BY <1>1, <2>2, <2>3 DEF IInv, Durable
    <3>2. ~flag[a]
      BY <2>1, <3>1 DEF Valid
    <3>3. ASSUME eeprom[a] = Image(ram[a]) PROVE ram[a] = saved[a]
      <4>1. [p \in 1 .. Pages |-> eeprom[a][p].value] = ram[a]
        BY <2>2, <3>3, ImageValues
      <4>2. [p \in 1 .. Pages |-> eeprom[a][p].value] = saved[a]
        BY <3>1, ImageValues
      <4>3. QED
        BY <4>1, <4>2
    <3>4. QED
      BY <2>1, <3>2, <3>3
  <2>4. QED
    BY <2>1, <2>3
<1>2. IInv => LoadHonest
  BY <1>1 DEF LoadHonest
<1>3. QED
  BY <1>2, Invariance, PTL

------------------------------------------------------------------------------
(* The promise of ParameterMemory                                          *)

Saver(w, a) == wr[w].pc \in Saving /\ wr[w].area = a

\* The abstract open save is that of the task that saves the area.
LEMMA OpenSaver ==
  ASSUME IInv, NEW w \in Writers, NEW a, Saver(w, a)
  PROVE  Open(a) = wr[w].buf
<1>1. \A v \in Writers : Saver(v, a) => v = w
  BY OneSaver DEF IInv, Saver
<1>2. w = CHOOSE v \in Writers : wr[v].pc \in Saving /\ wr[v].area = a
  BY <1>1 DEF Saver
<1>3. QED
  BY <1>2 DEF Open, Saver

\* Without such a task it is that of a task that is gone.
LEMMA OpenOrphan ==
  ASSUME NEW a, \A w \in Writers : ~Saver(w, a)
  PROVE  Open(a) = IF prog # NoPage /\ prog.area = a THEN prog.buf ELSE Closed
BY DEF Open, Saver

\* The page in programming belongs to the open save of its area.
LEMMA OpenProg ==
  ASSUME IInv, prog # NoPage
  PROVE  Open(prog.area) = prog.buf /\ prog.buf \in Settings /\ prog.area \in Areas
<1>1. prog.buf \in Settings /\ prog.area \in Areas /\ prog.by \in Writers
  BY DEF IInv, TypeOK
<1>2. CASE stage \in {"load", "off"}
  <2>1. \A w \in Writers : ~Saver(w, prog.area)
    BY <1>2 DEF IInv, Places, Saver, Saving, Writers
  <2>2. QED
    BY <1>1, <2>1, OpenOrphan
<1>3. CASE stage \notin {"load", "off"}
  <2>1. Saver(prog.by, prog.area) /\ wr[prog.by].buf = prog.buf
    BY <1>3 DEF IInv, Pending, Saver, Saving
  <2>2. QED
    BY <1>1, <2>1, OpenSaver
<1>4. QED
  BY <1>2, <1>3

\* Settings are distinct from the marks of the abstract memory.
LEMMA OpenType ==
  ASSUME IInv, NEW a \in Areas
  PROVE  Open(a) \in Settings \cup {Closed}
<1>1. CASE \E w \in Writers : Saver(w, a)
  BY <1>1, OpenSaver DEF IInv, TypeOK
<1>2. CASE \A w \in Writers : ~Saver(w, a)
  BY <1>2, OpenOrphan, OpenProg
<1>3. QED
  BY <1>1, <1>2

\* The stored pages change only under an open save, towards its settings.
LEMMA MemoryChange ==
  ASSUME IInv, [Next]_vars, NEW a \in Areas
  PROVE  /\ Kept(a)' \in {Crc(a)', Lost}
         /\ eeprom'[a] # eeprom[a] => /\ Open(a) \in Settings
                                      /\ Crc(a)' \in {Crc(a), Open(a), Lost}
         /\ eeprom'[a] = eeprom[a] => Crc(a)' = Crc(a) /\ Kept(a)' = Kept(a)
<1>1. Kept(a)' \in {Crc(a)', Lost}
  BY DEF Kept
<1>2. ASSUME eeprom'[a] = eeprom[a] PROVE Crc(a)' = Crc(a) /\ Kept(a)' = Kept(a)
  BY <1>2 DEF Crc, Kept, Valid, Image, PageOf
<1>3. ASSUME eeprom'[a] # eeprom[a]
      PROVE  Open(a) \in Settings /\ Crc(a)' \in {Crc(a), Open(a), Lost}
  <2>1. PICK c \in {PageOf(prog.buf, prog.page), Torn} :
          prog # NoPage /\ eeprom' = [eeprom EXCEPT ![prog.area][prog.page] = c]
    BY <1>3, EepromStep
  <2>2. a = prog.area
    BY <1>3, <2>1 DEF IInv, TypeOK
  <2>3. Open(a) = prog.buf /\ prog.buf \in Settings
    BY <2>1, <2>2, OpenProg
  <2>4. eeprom'[a][Pages] \in {eeprom[a][Pages], Torn, PageOf(prog.buf, Pages)}
    BY <2>1, <2>2, DefaultSettings DEF IInv, TypeOK
  <2>5. PageOf(prog.buf, Pages).crc = prog.buf
    BY DEF PageOf
  <2>6. QED
    BY <2>3, <2>4, <2>5 DEF Crc
<1>4. QED
  BY <1>1, <1>2, <1>3

\* The abstract open save after a step, when a task saves the area then.
LEMMA OpenNext ==
  ASSUME NEW a, NEW w \in Writers, Saver(w, a)', \A v \in Writers : Saver(v, a)' => v = w
  PROVE  Open(a)' = wr'[w].buf
<1>1. w = CHOOSE v \in Writers : wr'[v].pc \in Saving /\ wr'[v].area = a
  BY DEF Saver
<1>2. QED
  BY <1>1 DEF Open, Saver

LEMMA OrphanNext ==
  ASSUME NEW a, \A w \in Writers : ~Saver(w, a)'
  PROVE  Open(a)' = IF prog' # NoPage /\ prog'.area = a THEN prog'.buf ELSE Closed
BY DEF Open, Saver

\* An area whose saving tasks and whose page in programming stay has the same save.
LEMMA OpenSame ==
  ASSUME IInv, NEW a, prog' = prog,
         \A w \in Writers : /\ Saver(w, a)' <=> Saver(w, a)
                            /\ Saver(w, a) => wr'[w].buf = wr[w].buf
  PROVE  Open(a)' = Open(a)
<1>1. ASSUME NEW w \in Writers, Saver(w, a) PROVE Open(a)' = Open(a)
  <2>1. \A v \in Writers : Saver(v, a)' => v = w
    BY <1>1, OneSaver DEF IInv, Saver
  <2>2. QED
    BY <1>1, <2>1, OpenNext, OpenSaver
<1>2. ASSUME \A w \in Writers : ~Saver(w, a) PROVE Open(a)' = Open(a)
  BY <1>2, OrphanNext, OpenOrphan
<1>3. QED
  BY <1>1, <1>2

\* The beginning of a save opens it: the area has no task and no page left.
LEMMA BeginStep ==
  ASSUME IInv, NEW w \in Writers, NEW a \in Areas, NEW s \in Settings,
         StartSave(w, a, s), stage \notin {"load", "off"},
         \A v \in Writers : ~Saver(v, a)
  PROVE  Memory!Begin(a, s)
<1>1. ~(prog # NoPage /\ prog.area = a)
  BY DEF IInv, Pending, TypeOK, Saver, Saving
<1>2. Open(a) = Closed
  BY <1>1, OpenOrphan
<1>3. /\ UNCHANGED <<eeprom, prog>>
      /\ wr' = [wr EXCEPT ![w] = [pc |-> "lock", area |-> a, page |-> 1, buf |-> s]]
      /\ saved' = [saved EXCEPT ![a] = Unsure] /\ wr[w].pc = "idle"
  BY DEF StartSave, memory
<1>4. /\ wr'[w] = [pc |-> "lock", area |-> a, page |-> 1, buf |-> s]
      /\ \A v \in Writers \ {w} : wr'[v] = wr[v]
  BY <1>3 DEF IInv, TypeOK
<1>5. Open(a)' = s
  <2>1. Saver(w, a)' /\ \A v \in Writers : Saver(v, a)' => v = w
    BY <1>4 DEF Saver, Saving
  <2>2. QED
    BY <1>4, <2>1, OpenNext
<1>6. ASSUME NEW b \in Areas, b # a PROVE Open(b)' = Open(b)
  <2>1. ASSUME NEW v \in Writers
        PROVE  (Saver(v, b)' <=> Saver(v, b)) /\ (Saver(v, b) => wr'[v].buf = wr[v].buf)
    BY <1>3, <1>4, <1>6 DEF Saver, Saving
  <2>2. QED
    BY <1>3, <2>1, OpenSame
<1>7. ASSUME NEW b \in Areas PROVE Crc(b)' = Crc(b) /\ Kept(b)' = Kept(b)
  BY <1>3 DEF Crc, Kept, Valid, Image, PageOf
<1>8. QED
  BY <1>2, <1>3, <1>5, <1>6, <1>7 DEF Memory!Begin

\* The end of a save closes it, and a start would load its settings.
LEMMA CommitStep ==
  ASSUME IInv, NEW w \in Writers, Delay(w), LastPage(w)
  PROVE  \E a \in Areas : Memory!Commit(a)
<1>0. PICK a \in Areas : a = wr[w].area
  BY DEF IInv, TypeOK
<1>1. Saver(w, a) /\ wr[w].buf \in Settings
  BY <1>0 DEF Delay, Saver, Saving, IInv, TypeOK
<1>2. Open(a) = wr[w].buf
  BY <1>1, OpenSaver
<1>3. Kept(a) = wr[w].buf
  <2>1. eeprom[a] = Image(wr[w].buf)
    BY <1>0, AreaWritten DEF IInv
  <2>2. eeprom[a][Pages] = PageOf(wr[w].buf, Pages)
    BY <2>1, DefaultSettings DEF Image
  <2>3. Crc(a) = wr[w].buf
    BY <1>1, <2>2, TornAssumption, DefaultSettings DEF Crc, PageOf
  <2>4. QED
    BY <1>1, <2>1, <2>3 DEF Kept, Valid
<1>4. /\ UNCHANGED <<eeprom, prog>> /\ saved' = [saved EXCEPT ![a] = wr[w].buf]
      /\ wr'[w].pc = "done" /\ \A v \in Writers \ {w} : wr'[v] = wr[v]
  BY <1>0 DEF Delay, Step, Goto, memory, IInv, TypeOK
<1>5. Open(a)' = Closed
  <2>1. ASSUME NEW v \in Writers PROVE ~Saver(v, a)'
    BY <1>1, <1>4, OneSaver DEF Saver, Saving, IInv
  <2>2. ~(prog # NoPage /\ prog.area = a)
    <3>1. SUFFICES ASSUME prog # NoPage, prog.area = a PROVE FALSE
      OBVIOUS
    <3>2. prog.by # w /\ prog.by \in Writers
      BY <3>1 DEF Delay, DelayOver, IInv, TypeOK
    <3>3. stage \notin {"load", "off"}
      BY <1>1 DEF Saver, IInv, Places, Saving, Writers
    <3>4. Saver(prog.by, a)
      BY <3>1, <3>3 DEF IInv, Pending, Saver, Saving
    <3>5. QED
      BY <1>1, <3>2, <3>4, OneSaver DEF Saver, IInv
  <2>3. QED
    BY <1>4, <2>1, <2>2, OrphanNext
<1>6. ASSUME NEW b \in Areas, b # a PROVE Open(b)' = Open(b)
  <2>1. ASSUME NEW v \in Writers
        PROVE  (Saver(v, b)' <=> Saver(v, b)) /\ (Saver(v, b) => wr'[v].buf = wr[v].buf)
    BY <1>0, <1>4, <1>6 DEF Saver, Saving
  <2>2. QED
    BY <1>4, <2>1, OpenSame
<1>7. ASSUME NEW b \in Areas PROVE Crc(b)' = Crc(b) /\ Kept(b)' = Kept(b)
  BY <1>4 DEF Crc, Kept, Valid, Image, PageOf
<1>8. QED
  BY <1>1, <1>2, <1>3, <1>4, <1>5, <1>6, <1>7 DEF Memory!Commit

\* In any other step saves go on or are given up.
GoesOn(a) ==
  /\ \A w \in Writers : Saver(w, a)' => Saver(w, a) /\ wr'[w].buf = wr[w].buf
  /\ prog' # NoPage /\ prog'.area = a => Open(a) = prog'.buf

LEMMA AdvanceStep ==
  ASSUME IInv, [Next]_vars, UNCHANGED saved, \A a \in Areas : GoesOn(a)
  PROVE  Memory!Advance
<1>1. ASSUME NEW a \in Areas PROVE Open(a)' \in {Open(a), Closed}
  <2>1. ASSUME NEW w \in Writers, Saver(w, a)' PROVE Open(a)' = Open(a)
    <3>1. Saver(w, a) /\ wr'[w].buf = wr[w].buf
      BY <2>1 DEF GoesOn
    <3>2. \A v \in Writers : Saver(v, a)' => v = w
      BY <3>1, OneSaver DEF GoesOn, IInv, Saver
    <3>3. QED
      BY <2>1, <3>1, <3>2, OpenNext, OpenSaver
  <2>2. ASSUME \A w \in Writers : ~Saver(w, a)' PROVE Open(a)' \in {Open(a), Closed}
    BY <2>2, OrphanNext DEF GoesOn
  <2>3. QED
    BY <2>1, <2>2
<1>2. ASSUME NEW a \in Areas PROVE Memory!MayChange(a)
  <2>1. Open(a) = Closed => Crc(a)' = Crc(a) /\ Kept(a)' = Kept(a)
    BY MemoryChange, PagesAssumption
  <2>2. Crc(a)' \in {Crc(a), Open(a), Lost} /\ Kept(a)' \in {Crc(a)', Lost}
    BY MemoryChange
  <2>3. QED
    BY <1>1, <2>1, <2>2 DEF Memory!MayChange
<1>3. QED
  BY <1>2 DEF Memory!Advance

\* Every step of the panel is a step of ParameterMemory.
LEMMA MemoryStep == ASSUME IInv, [Next]_vars PROVE Memory!Next
<1>1. ASSUME NEW w \in Writers, Save(w) PROVE Memory!Next
  <2>1. CASE Delay(w) /\ LastPage(w)
    BY <2>1, CommitStep DEF Memory!Next
  <2>2. CASE ~(Delay(w) /\ LastPage(w))
    <3>1. UNCHANGED saved
      BY <1>1, <2>2 DEF Save, Lock, Sent, Nacked, Delay
    <3>2. /\ wr[w].pc \in Saving /\ wr'[w].area = wr[w].area /\ wr'[w].buf = wr[w].buf
          /\ \A v \in Writers \ {w} : wr'[v] = wr[v]
          /\ prog' = prog \/ prog' = Transfer(w)
      BY <1>1 DEF Save, Lock, Sent, Nacked, Delay, Step, Goto, memory, Saving, IInv, TypeOK
    <3>3. ASSUME NEW a \in Areas PROVE GoesOn(a)
      <4>1. \A v \in Writers : Saver(v, a)' => Saver(v, a) /\ wr'[v].buf = wr[v].buf
        BY <3>2 DEF Saver
      <4>2. ASSUME prog' # NoPage, prog'.area = a PROVE Open(a) = prog'.buf
        <5>1. CASE prog' = prog
          BY <4>2, <5>1, OpenProg
        <5>2. CASE prog' = Transfer(w)
          BY <3>2, <4>2, <5>2, OpenSaver DEF Transfer, Saver
        <5>3. QED
          BY <3>2, <5>1, <5>2
      <4>3. QED
        BY <4>1, <4>2 DEF GoesOn
    <3>4. QED
      BY <3>1, <3>3, AdvanceStep DEF Memory!Next
  <2>3. QED
    BY <2>1, <2>2
<1>2. CASE SerialNumber
  <2>1. PICK s \in Settings : StartSave("system", "sys", s)
    BY <1>2 DEF SerialNumber
  <2>2. \A v \in Writers : ~Saver(v, "sys")
    BY <1>2, <2>1 DEF SerialNumber, StartSave, IInv, Places, Saver, Saving, Writers
  <2>3. QED
    BY <1>2, <2>1, <2>2, BeginStep DEF SerialNumber, Memory!Next, Writers, Areas
<1>3. CASE Shutdown
  <2>1. ram["use"] \in Settings
    BY DEF IInv, TypeOK, Areas
  <2>2. \A v \in Writers : ~Saver(v, "use")
    BY <1>3 DEF Shutdown, StartSave, IInv, Places, Saver, Saving, Writers
  <2>3. QED
    BY <1>3, <2>1, <2>2, BeginStep DEF Shutdown, Memory!Next, Writers, Areas
<1>4. CASE WindowSaves
  <2>1. ram["sys"] \in Settings
    BY DEF IInv, TypeOK, Areas
  <2>2. stage \in {"run", "shutdown"}
    BY <1>4 DEF WindowSaves, IInv, Places
  <2>3. \A v \in Writers : ~Saver(v, "sys")
    BY <1>4, <2>2 DEF WindowSaves, StartSave, IInv, Places, Saver, Saving, Writers
  <2>4. QED
    BY <1>4, <2>1, <2>2, <2>3, BeginStep DEF WindowSaves, Memory!Next, Writers, Areas
<1>5. CASE DeleteWindow
  <2>1. UNCHANGED saved
    BY <1>5 DEF DeleteWindow
  <2>2. ASSUME NEW a \in Areas PROVE GoesOn(a)
    <3>1. /\ wr'["system"] = wr["system"] /\ wr'["window"].pc = "idle"
      BY <1>5 DEF DeleteWindow, Idle, IInv, TypeOK, Writers
    <3>2. \A v \in Writers : Saver(v, a)' => Saver(v, a) /\ wr'[v].buf = wr[v].buf
      BY <3>1 DEF Saver, Saving, Writers
    <3>3. ASSUME prog' # NoPage, prog'.area = a PROVE Open(a) = prog'.buf
      <4>1. CASE wr["window"].pc = "send"
        BY <1>5, <3>3, <4>1, OpenSaver DEF DeleteWindow, Transfer, Saver, Saving, Writers
      <4>2. CASE wr["window"].pc # "send"
        BY <1>5, <3>3, <4>2, OpenProg DEF DeleteWindow
      <4>3. QED
        BY <4>1, <4>2
    <3>4. QED
      BY <3>2, <3>3 DEF GoesOn
  <2>3. QED
    BY <2>1, <2>2, AdvanceStep DEF Memory!Next
<1>6. ASSUME UNCHANGED saved, prog' = prog \/ prog' = NoPage,
             \A w \in Writers : wr'[w] = wr[w] \/ wr'[w].pc = "idle"
      PROVE  Memory!Next
  <2>1. ASSUME NEW a \in Areas PROVE GoesOn(a)
    <3>1. prog' # NoPage /\ prog'.area = a => Open(a) = prog'.buf
      BY <1>6, OpenProg
    <3>2. \A v \in Writers : Saver(v, a)' => Saver(v, a) /\ wr'[v].buf = wr[v].buf
      BY <1>6 DEF Saver, Saving
    <3>3. QED
      BY <3>1, <3>2 DEF GoesOn
  <2>2. QED
    BY <1>6, <2>1, AdvanceStep DEF Memory!Next
<1>7. CASE Started \/ SwitchWindow \/ Reset \/ PowerCut
  <2>1. UNCHANGED saved /\ (prog' = prog \/ prog' = NoPage)
    BY <1>7 DEF Started, SwitchWindow, Reset, PowerCut, Restart, memory
  <2>2. \A w \in Writers : wr'[w] = wr[w] \/ wr'[w].pc = "idle"
    BY <1>7 DEF Started, SwitchWindow, Reset, PowerCut, Restart, Idle, IInv, TypeOK
  <2>3. QED
    BY <1>6, <2>1, <2>2
<1>8. CASE Load \/ CreateSem \/ Programmed \/ WindowLeaves \/ Change \/ Pvd \/ UNCHANGED vars
  <2>1. UNCHANGED <<saved, wr>> /\ (prog' = prog \/ prog' = NoPage)
    BY <1>8 DEF Load, CreateSem, Programmed, WindowLeaves, Change, Pvd, vars, memory
  <2>2. QED
    BY <1>6, <2>1
<1>9. QED
  BY <1>1, <1>2, <1>3, <1>4, <1>5, <1>7, <1>8 DEF Next, SystemTSK

\* A blank EEPROM is an empty memory.
LEMMA MemoryInit == Init => Memory!Init
<1> SUFFICES ASSUME Init PROVE Memory!Init
  OBVIOUS
<1>1. ASSUME NEW a \in Areas PROVE Crc(a) = Lost /\ Kept(a) = Lost
  BY DefaultSettings DEF Init, Crc, Kept
<1>2. ASSUME NEW a \in Areas PROVE Open(a) = Closed
  BY OpenOrphan DEF Init, Saver, Saving, Idle
<1>3. QED
  BY <1>1, <1>2 DEF Memory!Init, Init

\* The tasks that save, the bus they share and the EEPROM, with restarts and power
\* failures at any point, implement the parameter memory.
THEOREM PromiseKept == Spec => KeepsPromise
<1>1. IInv /\ [Next]_vars => [Memory!Next]_Memory!vars
  BY MemoryStep
<1>2. QED
  BY <1>1, MemoryInit, Invariance, PTL DEF Spec, KeepsPromise, Memory!Spec

=============================================================================
