--------------------------- MODULE SettingsStore ---------------------------
(***************************************************************************)
(* The parameters in the EEPROM: the system task (task/src/systemTSK.cpp), *)
(* the windows that save, the I2C manager (driver/src/i2c.cpp) and the     *)
(* EEPROM driver (dev/src/24AAxx.cpp).                                     *)
(*                                                                         *)
(* The EEPROM has one area for the system and one for the user parameters. *)
(* An area is a sequence of pages, the last of which ends with the CRC.    *)
(* The EEPROM programs one page at a time, does not answer meanwhile, and  *)
(* a power failure leaves that page as it was, as it should be, or torn.   *)
(* The CRC is taken to accept the pages of one serialization only.         *)
(***************************************************************************)
EXTENDS Integers

CONSTANTS
  Pages,        \* pages of an area
  Settings,     \* what the parameters of an area can be, page by page
  Default,      \* the settings of a panel that found nothing
  Torn,         \* the content of an erased or half programmed page
  NoCrc,        \* a page before the last has no CRC
  NoPage,       \* the EEPROM programs nothing
  NoTask,       \* nobody holds the mutex of the I2C manager
  Lost, Unsure, Closed

ASSUME PagesAssumption ==
  /\ Pages \in Nat \ {0} /\ Default \in Settings
  /\ \A s \in Settings : s = [p \in 1 .. Pages |-> s[p]]
  /\ Lost \notin Settings /\ Unsure \notin Settings /\ Closed \notin Settings
  /\ NoCrc \notin Settings

Areas   == {"sys", "use"}
Writers == {"system", "window"}
Windows == {"none", "startup", "base", "setting"}   \* base: also the charger's

ASSUME NoTaskAssumption ==
  /\ NoTask \notin Writers
  /\ NoPage \notin [by : Writers, area : Areas, page : Nat, buf : Settings]

VARIABLES
  stage,        \* of systemTSK
  win, sel,     \* the window task that exists, fp.currentSelWindow
  lowPowerSem,
  ram, flag,    \* parameter values, sysSettingLoadDefault and userSettingLoadDefault
  wr,           \* for each task its saveparametersSystem or ...User
  mutex,        \* I2cManager::m_mutex
  eeprom, prog, \* the pages, the page that is being programmed
  saved,        \* history: the last complete save of each area
  overlap       \* history: a window saved while the shutdown saved

panel  == <<stage, win, sel, lowPowerSem, ram, flag>>
memory == <<eeprom, prog>>
vars   == <<panel, wr, mutex, memory, saved, overlap>>

\* The page p of a serialization, and the pages of all of it
PageOf(s, p) == [value |-> s[p], crc |-> IF p = Pages THEN s ELSE NoCrc]
Image(s)     == [p \in 1 .. Pages |-> PageOf(s, p)]

ASSUME TornAssumption == \A s \in Settings, p \in 1 .. Pages : PageOf(s, p) # Torn

Page   == {PageOf(s, p) : s \in Settings, p \in 1 .. Pages} \cup {Torn}
Idle   == [pc |-> "idle", area |-> "sys", page |-> 1, buf |-> Default]
Saving == {"lock", "send", "nack", "delay"}

\* A new panel: both areas are blank
Init ==
  /\ stage = "load" /\ win = "none" /\ sel = "none" /\ lowPowerSem = "null"
  /\ ram = [a \in Areas |-> Default] /\ flag = [a \in Areas |-> FALSE]
  /\ wr = [w \in Writers |-> Idle] /\ mutex = NoTask
  /\ eeprom = [a \in Areas |-> [p \in 1 .. Pages |-> Torn]] /\ prog = NoPage
  /\ saved = [a \in Areas |-> Unsure] /\ overlap = FALSE

------------------------------------------------------------------------------
(* Faulty variants of definitions below: each is a plausible slip that one *)
(* of the properties must detect.                                          *)

FaultDelayOver(w)  == TRUE                   \* no vTaskDelay(eepdelayms)
FaultLastPage(w)   == wr[w].page >= Pages - 1   \* the size without the CRC
FaultAfterNack     == "delay"                \* the result of m_i2c->write is ignored
FaultTimesOut      == FALSE                  \* m_sem is waited for with portMAX_DELAY
FaultValid(a)      ==                        \* the magic only, without the CRC
  \A p \in 1 .. Pages : eeprom[a][p] # Torn

------------------------------------------------------------------------------
(* saveparametersSystem, saveparametersUser, Eep24AA::write, I2cManager    *)

\* Prm::serialize into a buffer of the caller, then the loop over the pages
StartSave(w, a, s) ==
  /\ wr[w].pc = "idle"
  /\ wr' = [wr EXCEPT ![w] = [pc |-> "lock", area |-> a, page |-> 1, buf |-> s]]
  /\ saved' = [saved EXCEPT ![a] = Unsure]
  /\ overlap' = (overlap \/ \E v \in Writers \ {w} : wr[v].pc \in Saving)
  /\ UNCHANGED <<mutex, memory>>

\* The save of w goes on with a page, or stays with it
Goto(w, pc, page) ==
  wr' = [wr EXCEPT ![w] = [pc |-> pc, area |-> @.area, page |-> page, buf |-> @.buf]]

Step(w, pc) == Goto(w, pc, wr[w].page)

\* The EEPROM acknowledges its address only while it programs nothing
Acked == prog = NoPage

\* xSemaphoreTake(m_mutex), which always succeeds since no other transfer holds it
\* for more than the same timeout; then i2c_write
Lock(w) ==
  /\ wr[w].pc = "lock" /\ mutex = NoTask
  /\ mutex' = w
  /\ Step(w, IF Acked THEN "send" ELSE "nack")
  /\ UNCHANGED <<panel, memory, saved, overlap>>

Transfer(w) == [by |-> w, area |-> wr[w].area, page |-> wr[w].page, buf |-> wr[w].buf]

\* BTF: the stop condition starts the programming, and the hook gives m_sem
Sent(w) ==
  /\ wr[w].pc = "send"
  /\ prog' = Transfer(w)
  /\ mutex' = NoTask
  /\ Step(w, "delay")
  /\ UNCHANGED <<panel, eeprom, saved, overlap>>

\* m_sem is taken with a timeout; Eep24AA::write returns false then
TimesOut  == TRUE
AfterNack == "done"

\* i2cErrorHendler gives no semaphore, so i2ctimeout passes, and nobody looks at the
\* result of the save.  The page that was being programmed is long finished.
Nacked(w) ==
  /\ wr[w].pc = "nack" /\ prog = NoPage
  /\ TimesOut
  /\ mutex' = NoTask
  /\ Step(w, AfterNack)
  /\ UNCHANGED <<panel, memory, saved, overlap>>

\* vTaskDelay(6): one's own page is programmed by then, in 5 ms at most
DelayOver(w) == prog # NoPage => prog.by # w

LastPage(w) == wr[w].page = Pages

Delay(w) ==
  /\ wr[w].pc = "delay" /\ DelayOver(w)
  /\ IF LastPage(w)
       THEN /\ Step(w, "done")
            /\ saved' = [saved EXCEPT ![wr[w].area] = wr[w].buf]
       ELSE /\ Goto(w, "lock", wr[w].page + 1)
            /\ UNCHANGED saved
  /\ UNCHANGED <<panel, mutex, memory, overlap>>

Save(w) == Lock(w) \/ Sent(w) \/ Nacked(w) \/ Delay(w)

\* The EEPROM ends the programming of a page
Programmed ==
  /\ prog # NoPage
  /\ eeprom' = [eeprom EXCEPT ![prog.area][prog.page] = PageOf(prog.buf, prog.page)]
  /\ prog' = NoPage
  /\ UNCHANGED <<panel, wr, mutex, saved, overlap>>

------------------------------------------------------------------------------
(* systemTSK                                                               *)

\* Prm::deserialize: the magic and the CRC
Valid(a) == \E s \in Settings : eeprom[a] = Image(s)

\* loadParameters: an area that cannot be read keeps its defaults without a flag.
\* A page that was in programming at a reset ends while the bootloader runs.
Load ==
  /\ stage = "load" /\ prog = NoPage
  /\ \E readable \in SUBSET Areas :
       /\ ram' = [a \in Areas |-> IF a \in readable /\ Valid(a)
                                    THEN [p \in 1 .. Pages |-> eeprom[a][p].value]
                                    ELSE ram[a]]
       /\ flag' = [a \in Areas |-> a \in readable /\ ~Valid(a)]
  /\ stage' = "init"
  /\ UNCHANGED <<win, sel, lowPowerSem, wr, mutex, memory, saved, overlap>>

\* The voltage detector's callback is registered, then the semaphore is created
CreateSem ==
  /\ stage = "init"
  /\ lowPowerSem' = "empty" /\ stage' = "serial"
  /\ UNCHANGED <<win, sel, ram, flag, wr, mutex, memory, saved, overlap>>

\* The regulator has another serial number than the stored one
SerialNumber ==
  /\ stage = "serial"
  /\ \E s \in Settings \ {ram["sys"]} :
       ram' = [ram EXCEPT !["sys"] = s] /\ StartSave("system", "sys", s)
  /\ UNCHANGED <<stage, win, sel, lowPowerSem, flag>>

\* selWindow(startupWindow)
Started ==
  /\ stage = "serial" /\ wr["system"].pc \in {"idle", "done"}
  /\ stage' = "run" /\ sel' = "startup"
  /\ wr' = [wr EXCEPT !["system"] = Idle]
  /\ UNCHANGED <<win, lowPowerSem, ram, flag, mutex, memory, saved, overlap>>

\* if(selWindowPrev != fp.currentSelWindow): the old window is deleted
SwitchWindow ==
  /\ stage = "run" /\ win # sel
  /\ win' = sel
  /\ wr' = [wr EXCEPT !["window"] = Idle]
  /\ UNCHANGED <<stage, sel, lowPowerSem, ram, flag, mutex, memory, saved, overlap>>

\* lowPowerSem was taken, or the regulator reports a low input voltage
Shutdown ==
  /\ stage = "run"
  /\ stage' = "shutdown"
  /\ lowPowerSem' = "empty"
  /\ StartSave("system", "use", ram["use"])
  /\ UNCHANGED <<win, sel, ram, flag>>

\* The window is deleted where it is, with the mutex if it holds it; the bus
\* ends the transfer that it has started
DeleteWindow ==
  /\ stage = "shutdown" /\ wr["system"].pc = "done"
  /\ stage' = "off" /\ win' = "none"
  /\ wr' = [wr EXCEPT !["window"] = Idle]
  /\ prog' = IF wr["window"].pc = "send" THEN Transfer("window") ELSE prog
  /\ UNCHANGED <<sel, lowPowerSem, ram, flag, mutex, eeprom, saved, overlap>>

\* All but the EEPROM starts anew
Restart ==
  /\ stage' = "load" /\ win' = "none" /\ sel' = "none" /\ lowPowerSem' = "null"
  /\ ram' = [a \in Areas |-> Default] /\ flag' = [a \in Areas |-> FALSE]
  /\ wr' = [w \in Writers |-> Idle] /\ mutex' = NoTask
  /\ overlap' = FALSE /\ UNCHANGED saved

\* NVIC_SystemReset 10 s after the shutdown, or on Prm::reboot
Reset == stage \in {"off", "run"} /\ Restart /\ UNCHANGED memory

SystemTSK == Load \/ CreateSem \/ SerialNumber \/ Started \/ SwitchWindow \/ Shutdown
             \/ DeleteWindow \/ Reset

------------------------------------------------------------------------------
(* The windows and the parameters                                          *)

\* A window calls selWindow and is suspended
Select(next) == sel' = next /\ UNCHANGED <<stage, win, lowPowerSem, ram, flag>>

\* startupTSK saves the defaults that it announces, settingTSK saves at its end
WindowSaves ==
  /\ win = sel
  /\ \/ win = "startup" /\ \E a \in Areas : flag[a]
     \/ win = "setting"
  /\ StartSave("window", "sys", ram["sys"])
  /\ UNCHANGED panel

WindowLeaves ==
  /\ win = sel
  /\ \/ win = "startup" /\ wr["window"].pc = "idle" /\ (\A a \in Areas : ~flag[a])
        /\ Select("base")
     \/ win \in {"startup", "setting"} /\ wr["window"].pc = "done" /\ Select("base")
     \/ win = "base" /\ Select("setting")
  /\ UNCHANGED <<wr, mutex, memory, saved, overlap>>

\* A key, the encoder or a Modbus register changes parameters in the memory
Change ==
  /\ stage \in {"serial", "run", "shutdown"}
  /\ \E a \in Areas, s \in Settings : s # ram[a] /\ ram' = [ram EXCEPT ![a] = s]
  /\ UNCHANGED <<stage, win, sel, lowPowerSem, flag, wr, mutex, memory, saved, overlap>>

------------------------------------------------------------------------------
(* The supply                                                              *)

\* pvdCallback; before the semaphore exists the null handle is used, which is
\* undefined: no effect, or a fault
Pvd ==
  /\ stage \notin {"load", "hung"}
  /\ IF lowPowerSem = "null" THEN stage' = "hung" /\ UNCHANGED lowPowerSem
                             ELSE lowPowerSem' = "given" /\ UNCHANGED stage
  /\ UNCHANGED <<win, sel, ram, flag, wr, mutex, memory, saved, overlap>>

\* The power fails at any time and comes back
PowerCut ==
  /\ eeprom' \in {eeprom} \cup
       IF prog = NoPage THEN {}
       ELSE {[eeprom EXCEPT ![prog.area][prog.page] = c] :
               c \in {PageOf(prog.buf, prog.page), Torn}}
  /\ prog' = NoPage
  /\ Restart

Next ==
  \/ SystemTSK
  \/ \E w \in Writers : Save(w)
  \/ Programmed
  \/ WindowSaves \/ WindowLeaves \/ Change
  \/ Pvd \/ PowerCut

Spec == Init /\ [][Next]_vars

\* The system task has the highest priority, a window that holds the mutex inherits
\* it, and the EEPROM ends what it began.  Nothing makes the power fail or a user act.
FairSpec ==
  /\ Spec
  /\ WF_vars(Load) /\ WF_vars(CreateSem) /\ WF_vars(Started) /\ WF_vars(SwitchWindow)
  /\ WF_vars(DeleteWindow)
  /\ \A w \in Writers : WF_vars(Lock(w)) /\ WF_vars(Sent(w) \/ Nacked(w) \/ Delay(w))
  /\ WF_vars(Programmed)

------------------------------------------------------------------------------
(* Properties                                                              *)

\* Every variable keeps its type, and a mutex owner is in a transfer.
TypeOK ==
  /\ stage \in {"load", "init", "serial", "run", "shutdown", "off", "hung"}
  /\ win \in Windows /\ sel \in Windows /\ lowPowerSem \in {"null", "empty", "given"}
  /\ ram \in [Areas -> Settings] /\ flag \in [Areas -> BOOLEAN]
  /\ wr \in [Writers -> [pc : Saving \cup {"idle", "done"}, area : Areas,
                         page : 1 .. Pages, buf : Settings]]
  /\ mutex \in Writers \cup {NoTask}
  /\ eeprom \in [Areas -> [1 .. Pages -> Page]]
  /\ prog \in [by : Writers, area : Areas, page : 1 .. Pages, buf : Settings]
               \cup {NoPage}
  /\ saved \in [Areas -> Settings \cup {Unsure}] /\ overlap \in BOOLEAN

\* What saveparameters... completed is in the EEPROM and stays there, through
\* resets, power failures and saves of the other area, until the area is saved again.
Durable == \A a \in Areas : saved[a] # Unsure => eeprom[a] = Image(saved[a])

\* A shutdown that no window's save disturbs has saved the user parameters before
\* the panel waits for its end (systemTSK.cpp:215-225).
ShutdownSaved ==
  stage = "off" /\ ~overlap => saved["use"] = wr["system"].buf

\* After loadParameters an area has whole settings whose CRC is in the EEPROM, or the
\* defaults.  Settings that were saved completely are found again, unless the read
\* fails, and the message that defaults were loaded does not appear for them
\* (startupTSK.cpp:79), however often the power failed since.
LoadHonest ==
  stage = "init" => \A a \in Areas :
    /\ ram[a] = Default \/ eeprom[a] = Image(ram[a])
    /\ saved[a] # Unsure => ram[a] \in {saved[a], Default} /\ ~flag[a]

Crc(a)  == IF eeprom[a][Pages] = Torn THEN Lost ELSE eeprom[a][Pages].crc
Kept(a) == IF Valid(a) THEN Crc(a) ELSE Lost
Open(a) ==
  IF \E w \in Writers : wr[w].pc \in Saving /\ wr[w].area = a
    THEN wr[CHOOSE w \in Writers : wr[w].pc \in Saving /\ wr[w].area = a].buf
    ELSE IF prog # NoPage /\ prog.area = a THEN prog.buf ELSE Closed

Memory == INSTANCE ParameterMemory WITH
  last <- [a \in Areas |-> Crc(a)], kept <- [a \in Areas |-> Kept(a)],
  open <- [a \in Areas |-> Open(a)]

\* The two saving tasks, the shared bus and the EEPROM keep the promise of
\* ParameterMemory: nobody disturbs an area that is not being saved, and what a cut
\* off save leaves is old, new or recognisably nothing.
KeepsPromise == Memory!Spec

\* A shutdown ends in the state in which the supply may go, even when the EEPROM
\* refuses a page or a window holds the bus.
ShutdownEnds == stage = "shutdown" ~> stage # "shutdown"

=============================================================================
