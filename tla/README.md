# The PS3604L panel in TLA+

The panel is the front of a laboratory power supply: an STM32F4 with FreeRTOS,
a display, keys and an encoder, Ethernet (lwIP), an EEPROM, and a serial
Modbus RTU line to a second processor, the regulator, which makes the output
voltage.  This directory holds TLA+ models of the parts of its firmware where
several tasks, callbacks, resets or failures meet, the TLC configurations that
check them, and TLAPS proofs of their invariants.

## 1. Inventory of the system

Priorities (`config/FreeRTOSConfig.h:121-132`): system 8, regulator connection
7, netif 6, tcpip 5, Modbus TCP 4, HTTP 3, monitor 2, windows 1.  The kernel is
preemptive with a tick of 1 ms and no time slicing.

| Component | State it keeps | Operations | Talks to |
|---|---|---|---|
| Regulator link (`regulator/src/regulatorConnTSK.c`) | `regTarget`, `regState`, `regMeas`, `gremote`, `commandQueue`, the raw request slot | one task that cycles; setters, `reg_enableSet`, `reg_waitCommand`, `reg_modbusRequest` in the callers' tasks | libmodbus, all windows, HTTP, Modbus TCP |
| Modbus TCP bridge (`regulatorTcpRequest.c`) | remote control | `reg_tcpModbusRequest`, `reg_tcpModbusClosedConnection` | the link; called by the Modbus TCP port |
| Bootloader (`boot.cpp`) | two flash regions | compare, erase, copy, verify, start | flash driver; hands over to the program |
| Modbus TCP port (`portfreemodbus/src/porttcp.cpp`) | the connection, the request buffer, the firmware storage | accept, receive, answer, holding registers, file records | bridge, parameters, flash |
| System task (`task/src/systemTSK.cpp`) | current window, low-power semaphore | window change, loading and saving parameters, reboot, low-power shutdown | everything |
| Parameters (`prmsystem/`, `dev/src/24AAxx.cpp`) | values with limits and step, EEPROM image with CRC | step, serialize, deserialize, page writes | I2C, windows, holding registers |
| I2C (`driver/src/i2c.cpp`, `hal/src/i2c.c`) | one transfer, its semaphore | transfer, interrupt, timeout | EEPROM |
| Modbus RTU port and UART (`libmodbusport/rtuport.c`, `hal/src/uart.c`) | one request, its semaphore, DMA buffers | send, receive, idle interrupt, timeout | libmodbus |
| SNTP (`net/src/sntp.c`) | request, retry timer | send, receive, DNS callback | lwIP timers, RTC |
| HTTP (`net/src/httpServerTSK.c`) | one connection | serve a page | link getters |
| Keys and encoder (`hal/src/key.c`, `enco.c`) | debounce and repeat counters | tick, read | windows |
| Windows (`window/src/*`) | selection, edited value, charge state | draw, react to keys | link, parameters |
| Settings menu, calibration (`menuSystem.cpp`, `settingTSK.cpp`) | menu position, calibration steps | item callbacks | link commands |
| Log (`systems/src/write.c`) | ring buffer, DMA | write, transfer complete | UART |
| RTC and calendar (`hal/src/rtc.c`, `utils/src/timegm.c`) | the clock | set, get, convert | SNTP, HTTP, windows |
| Beeper, voltage detector (`beep.c`, `pvd.c`) | a timer, a callback | start, interrupt | windows, system task |

Hard behaviours, and the properties that make a component correct:

* **Regulator link.**  A caller passes pointers into its own stack frame and a
  semaphore that it deletes after 160 ms, whatever has become of the command;
  the task may be retrying that command for 3 x 100 ms.  Correct means: a
  command that starts still has its caller; a caller is woken by its own
  command; an abandoned command stops having effects; on a good line all is
  answered in time; the panel's view (`connected`, `enabled`) and the regulator
  agree again after a failure; the panel's target is not written over a remote
  client's.
* **Bootloader.**  A reset can come in any sector of any erasure, and the flash
  driver reports success unconditionally.  Correct means: some region always
  has a whole image, only a whole image is executed, and an interrupted update
  ends as if it had not been interrupted.
* **Modbus TCP port.**  Remote control must be given back when a connection
  ends; records must be programmed on erased flash only.
* **Parameters.**  A save that power failure cuts off must be recognised; the
  value must stay within its limits under every step.
* **System task.**  The low-power sequence must save once, and only after its
  semaphore exists; a window change must stop the old window before the new one.
* **I2C, RTU port, SNTP.**  A completion, an answer or a callback that comes
  after its timeout must not be taken for the next one's.
* **Menu and calibration.**  The output that a measurement switches on must be
  switched off when its level is left; the user must always get out; a value that the
  menu and a Modbus client change at the same time must stay within its limits.
* **Log.**  Bytes keep their order; a full ring must not block for ever.

## 2. Modules

| Module | What it is |
|---|---|
| `RegulatorLink` | the link task, its callers, the Modbus TCP bridge, the line and the regulator board |
| `MCRegulatorLink` | symmetry for TLC |
| `RegulatorLinkProofs` | inductive invariant and theorems of `RegulatorLink`: the calls of `reg_waitCommand` |
| `RegulatorServiceProofs` | theorems that the command queue serves everybody in time on a line that answers, and about remote control, the answers to the TCP server and `connected` |
| `FirmwareUpdate` | what an update promises: an atomic change of the chosen image |
| `Bootloader` | the bootloader, the erasure of the storage and the file records, with resets |
| `MCBootloader` | image sizes for TLC |
| `BootloaderProofs` | inductive invariants, theorems, and the refinement of `FirmwareUpdate` |
| `ParameterMemory` | what the parameter memory promises for each of its areas |
| `SettingsStore` | the system task, the windows that save, the I2C manager, the EEPROM driver and the supply |
| `MCSettingsStore` | settings for TLC |
| `SettingsStoreProofs` | inductive invariant, theorems, and the refinement of `ParameterMemory` |
| `LogRing` | the ring of the log output, its writers, the DMA and the interrupt of UART4 |
| `LogRingProofs` | inductive invariant and theorems of `LogRing` |
| `ModbusRtuPort` | the serial port to the regulator: exchanges, late, lost and stray frames, USART1 and its receive DMA |
| `ModbusRtuPortProofs` | inductive invariants and theorems of `ModbusRtuPort` |
| `SntpClient` | the SNTP client: its timers, lookups, buffers, servers and network |
| `SntpClientProofs` | inductive invariants and theorems of `SntpClient` |
| `HoldingRegisters` | the parameters and the Modbus TCP server that writes them: connection, requests, limits, stepping |
| `SettingMenu` | the settings window over `HoldingRegisters`: the menu, its tree, and the callbacks that switch the output |
| `MCSettingMenu` | a small tree and three small parameters for TLC |
| `SettingMenuProofs` | inductive invariants and theorems of `SettingMenu` and `HoldingRegisters` |

### RegulatorLink and the code

`pc` is the stage of `regulatorConnTSK` in its cycle: `version` (once),
`start`, `target`, `receive`, `exec`, `enable`, `measure`, `slot`, `raw`,
`delay`.  The six stages that exchange a frame share `Answered` (an answer
arrived), `Unanswered` (one attempt of the retry loop of `writeReg`,
`writeRegs` or `readRegs` failed) and `Exhausted` (the loop ended).  A failed
attempt takes the response timeout, or no time (an exception answer, a bad
CRC), and the regulator may or may not have carried out the request.

`busy` is the number of ticks the task still blocks.  `Tick` is enabled only
then: while a task of priority 7 runs, the ticks that pass are too few to
matter against its 10 ms period.  Every timer (`ttl` of a command, `left` of a
caller, `tleft` of the TCP server) is the time it has left.  `lag` is what
`vTaskDelayUntil` catches up after a long exchange, up to the bound `LagMax`.

A caller of `reg_waitCommand` makes three steps: `Begin` (the test of
`connected` and of the free places, the semaphore, `expireTime`), `Send`
(`xQueueSend` with no wait, its result ignored) and `Wake` or `GiveUp`.  The
task preempts it anywhere between them.  `csem` is an address: after
`vSemaphoreDelete` the heap may give the same address to the next caller, and
`Execute` gives whatever stands at the address of its command.  The field
`live` of a command says whether its caller's stack frame still exists;
`Return` clears it in the queue and in the command being executed.

The TCP server's request takes two steps because `reg_modbusRequest` stores
the data pointer before the length pointer while the task tests only the
first; `lenSet` says which.  After a timeout (`TcpGiveUp`) the length that the posted
request points to is in a dead frame.  A raw request sent with a stale length may
fail on a good line.

History variables: `lateDone` (some command was completed after its caller
had left), `tcpGaveUp` (a raw request timed out), `held` (the client's target
is in the regulator and it has had control since), `silent` (cycles without a
good exchange).

Measured values, version and serial numbers, and calibration data are
contents of an exchange; no control depends on them, and they are left out.

### Bootloader and the code

A region is a function from cells (the 128 bytes of a file record) to an
image, `Blank` or `Torn`.  `checkProgram` accepts a region when all the cells of
the size that its header tells are of one image: the CRC is taken to reject
everything else.  An erasure works on a sector, a write on a cell.  Programming
a cell that is not blank leaves it torn unless it had the same content, since
flash programming only clears bits.  With `FlashMayFail` every erasure or write
may also do nothing, or leave garbage: `hal/src/flash.c` reports success
either way.

`Check`, `EraseMain`, `Copy`, `Verify`, `EraseStored` and `Start` are the
statements of `main` in `boot.cpp`; `CleanStore` is the loop of
`xMBTCPPortInit` that erases the used sectors before the server listens;
`FileRecord` is `eMBFileRecordCB`, with any host, any order and any content.
`Reset` is a power failure, the reset button or `NVIC_SystemReset` of the
system task, at any point; the sector or the cell in work may be torn.

`AtomicUpdate` instantiates `FirmwareUpdate` with `chosen` = the image of the
storage if that region is whole, else the one in main, and `running` = the
image in main while the program executes.  All of the erasing and copying
stutters; `Start` is `Run`; the last record of an upload is `Offer`.

### SettingsStore and the code

`stage` is where `systemTSK` is: `load` (up to `loadParameters`), `init` (the
voltage detector has its callback, the semaphore is not yet created), `serial`
(the start of the other tasks and the stored serial number), `run` (its loop),
`shutdown` (its save when the supply fails), `off` (the wait of 10 s before
the reset), and `hung` (a fault of the processor).  `win` is the window task that
exists, `sel` is `fp.currentSelWindow`; the charger's window is not told from
the base window, as neither saves.

Two tasks save: the system task and the window.  For each, `wr` is its call of
`Eep24AA::write`: `lock` (it wants the mutex of the I2C manager), `send` (the
EEPROM acknowledged and the page is under way), `nack` (it did not, and the
timeout of 200 ms runs), `delay` (`vTaskDelay(6)`), `done`.  `buf` is what
`Prm::serialize` put into the caller's buffer.  The mutex is never refused: a
page is only not acknowledged while the other task's page is programmed, and that
task asks for the bus again when its 6 ms are over, thus its timeout begins later
than that of the holder.

`prog` is the page that the EEPROM programs, which takes 5 ms at most; until then it
does not acknowledge its address.  `DelayOver` is the relation of the 6 ms to
these 5 ms, `Nacked` that of the 200 ms to them.  A page is what `PageOf`
gives: its part of the parameters, and in the last page the CRC, represented by
the settings it was computed from.  `Valid` is the test of `Prm::deserialize`.

`DeleteWindow` is `vTaskDelete` of the window wherever it is: the mutex stays
taken if it had it, and the bus ends the transfer.  `PowerCut` may happen in
any state and leaves the page in programming as it was, as it should be, or torn.
`Pvd` before `CreateSem` gives a null semaphore.

History variables: `saved` (the last complete save of an area, `Unsure` since
the next one began) and `overlap` (a save began while the other task's ran).

`KeepsPromise` instantiates `ParameterMemory` with `last` = the settings whose
CRC is stored, `kept` = what a start would load, `open` = the buffer of the
task that saves the area, or of the page that is still in programming when that
task is gone.  `StartSave` is `Begin`, the `Delay` after the last page is
`Commit`; the rest is `Advance`, which lets an area change only while a save
of it is open.

### LogRing and the code

The pointers of `systems/src/write.c` are indices into a buffer of `Size` bytes, of
which the last is never used (`End`).  `pc` is where `_write` is: `loop` (the
head of its do-while), `copy`, `send`, or `idle`.  A single write runs at a time, as
it masks all interrupts up to `configMAX_SYSCALL_INTERRUPT_PRIORITY`, that of
UART4 included (`TxComplete` needs `idle`); the DMA sends bytes at any moment.
`SendRing` is the pair of ifs at the end of `_write` and in `txHandler`, of which at
most one applies; `UartWrite` is what `uart_write` does with the stream.
The bytes are told apart by their places.

History variables: `unsent` (the places of the bytes that were written and not yet
read by the DMA, in their order) and `tooMuch` (at some write these became
`Size - 1` or more; `unsent` is no longer followed then).

### ModbusRtuPort and the code

`Start`, `Send`, `Received` and `Timeout` are an exchange of `regulatorConnTSK.c`
down to `modbus_serial_send` and `modbus_serial_recv`: `uart_write` cuts off what is still
being sent, `uart_read` starts a reception unless one is running, the semaphore is
awaited, and the frame is checked.  `Arrive` is the end of a frame on the line with the
IDLE interrupt.  A frame is its shape, which stands for function and length (all that
libmodbus compares), and `own`, whether it belongs to the present exchange: no
byte of a frame says so, and no guard reads it.  The two buffers are those of
libmodbus and of the raw messages; `got` is what came since `uart_read`.  Nothing stops a
reception that timed out, and a semaphore given late stays given.  A
request is out before the 100 ms of the response timeout are over.

History variables: `taken` (how often the regulator has taken the request of the exchange),
`began` (with what the exchange began: settled, with an earlier answer
`outstanding`, or with the DMA `misled` to the other buffer) and `calm` (since
then the line did what it should).  An answer of the exchange itself that ends between two
of its attempts, after `modbus_serial_recv` has returned and before the next one begins, also
ends `calm`: its semaphore is taken for the answer to the next attempt.

### SntpClient and the code

All handlers run in the thread of lwIP, thus each is one step: `SntpInit`,
`RequestTimer` (`sntp_request`), `NextTimer` (`sntp_try_next_server`),
`RequestTimeout` (`sntp_send_request_timeout`), `DnsFound`, `Recv`.  `timers` counts what
`sys_timeout` was told; the timeout of a request carries its pbuf.  `dns` is the
table of the lookups under way, which no `sys_untimeout` takes back: `Lookups` are its entries,
each free or with the server whose name is resolved, and a lookup is refused when all are taken.  A pcb that was removed stays
visible as `removed`, so that a request on it can be seen.  A server keeps its `kind`;
the network is good, loses, or also delays past a timeout.

### HoldingRegisters, SettingMenu and the code

`HoldingRegisters` is the parameter list with its limits, `deserialize`, `stepsize`, and
the loop of the Modbus TCP server: `Poll` (`xMBPortTCPPoll`), `ReceiveWrite`,
`ReceiveRaw` and `ReceiveError` (the branches of `xMBTCPPortGetRequest`), `WriteNext` (one
pass of the loop of `eMBRegHoldingCB`: a parameter), `WriteEnds`, `Reply`.  A write
goes on with the next parameter *of the list*, not of the addresses: after the first, the
address of a request no longer matters.  Values are words of the parameter's type, `Signed` or
not: `Word` cuts a number to it in two's complement, as `T result` does with a product
(`Amount`, negative if it does not fit a signed type) and the assignment with a difference or
sum (`Lowered`, `Raised`).  `Room` is what `result` is compared with; `UShort` is modulo 2^16.

`SettingMenu` runs beside it.  `pc` is the place in the loop of `run`: `keys`,
`encoder` (`turned` if a key has changed the value), `changes` (`callChanges`), `period`, and
`store` (`stepsize` computed `result` from the value it read, and has not stored it),
`message` (`printMessageWindow` waits for a key; `after` says where it goes on), `editor`
(`ipAddressEditor` with its copy), `left` (another window).  `history` is the
local of `run`, of `HistorySize` places, which no test guards; the constant `level` and the
assumption `TreeOfLevels` say that the items of `settingTSK.cpp:415-515` are levels of a tree that
is not deeper (it has four levels, 0 to 3, and neighbours are always on the same one).
What is drawn is left out.  `Prepare` is a callback that switches the output on in several
calls: `PrepareU`, `PrepareMicroI` and `PrepareI` store `point`, `Ureal` or `Ireal`, `Udac` and
`Idac` without a look at their limits (`preset` before the answer of `reg_dacMaxValueGet`,
`derived` once it is known), `PrepareWireResistance` stores nothing.  `CalibrExit` is the one
that switches it off.  Of the callbacks for a change `sends` keeps whether one may fail:
`setAcquisition` and `saveSettings`.  What a call of the regulator may do is
taken from `RegulatorLink`: without a connection it is refused; otherwise it reports
success, and is carried out, carried out later (`late`), or never.

History variables: `stored` and `asked` (registers of a request), `excused` (a switch-off
was refused or had no effect, or the last call of a preparation was refused after the output was
switched on), `narrowed` (the signed parameters with a step whose product did not fit their
type).  The server's task has a higher priority than the window's: it comes between
any two of its steps, the read of a value and its store included.

## 3. Runs

| Run | Instance | What it shows |
|---|---|---|
| `link_commands` | 2 callers, 2 semaphore addresses, 2 places, 2 attempts, failing line | `TypeOK`; `UnexpiredHasCaller`, `WakeIsOwn`: what the 10 ms between expiry and wait buy; `EffectBound`: how long an abandoned command still acts |
| `link_quiet` | 3 callers, 3 places, good line | `QuietLink`: with at most as many callers as places nothing expires and no call times out |
| `link_remote` | a TCP client, 1 target, 5 failures to disconnect, failing line, fairness | `RemoteTargetHeld`, `AnswerInStep`, `ConnectedHonest`, `RequestServed`, `TargetConverges`: control passes over and back |
| `link_live_commands` | 1 caller, 2 targets, failing line, fairness | `CallReturns`, `Reconnects`, `CacheConverges`, `TargetConverges` |
| `boot_faults` | 3 images of 1, 3 and 4 cells, 2 x 2 cells, flash may fail | `Bootable`, `AppIntact` |
| `boot_update` | the same, flash works, fairness | `UploadPure`, `AtomicUpdate`, `UpgradeRuns` |
| `settings_store` | 2 pages, settings that differ in both pages, fairness | `Durable`, `ShutdownSaved`, `LoadHonest`, `KeepsPromise`, `ShutdownEnds` |
| `log_ring` | 7 bytes, texts of up to 8, fairness | `NothingLost`, `NothingStranded`, `WriteReturns` |
| `rtu_port` | 2 shapes, 3 attempts | `AnswerIsOwn`: an exchange that begins settled accepts no other's answer, and none before the regulator took its request; `TriesSuffice`: on a line that answers, 3 attempts make up for any leftover |
| `sntp_client` | 3 servers, 3 pbufs, 2 lookups, 2 pending, fairness | `TypeOK`, `NeverStops`, `OneAtATime`, `SilenceIsFree`, `ClockIsSet` |
| `sntp_late` | 2 servers | `RetryStopped`, expected to be **violated**: see the finding |
| `settings_window` | 6 items, 3 parameters of 1 and 2 bits, one of them signed, 3 requests, turns of -1 and 3, fairness | `TypeOK`, `InRange`, `OutputOwned`, `RequestKept`, `LeavesMenu`, `RemoteReleased` |

**Finding: a retry that nothing stops.**  `net/src/sntp.c:203` says "packet received: stop
retry timeout".  `sys_untimeout` takes back timers only.  When a server's answer comes after its
timeout, while the name of the next server is being resolved, `sntp_recv` sets the clock and
removes the pcb; the callback of the lookup then sends a request on the freed pcb
and starts a chain of timeouts that goes on although the clock is set.

**Limits of the promise found by the runs.**  `UnexpiredHasCaller`,
`StartsForCaller` and `WakeIsOwn` hold only until a command completes late
(`lateDone`).  Without an answer, a command taken from the queue just before
its expiry is retried for up to 300 ms, its caller leaves after at most 160 ms,
and the task then writes the result into a dead frame and gives a deleted
semaphore, or a semaphore that meanwhile belongs to a later command.  The
theorems say that this is the only way: before the first late completion
everything is in order.  Likewise `AnswerInStep` holds until a raw request times
out after 1000 ms; after that the answers are one behind.

`ShutdownSaved` holds only for a shutdown during which no window saves
(`overlap`).  Otherwise the page of the shutdown may meet an EEPROM that
programs the window's page, is refused, and the save is given up: nobody looks
at the result of `eeprom.write`.  The user area is then old, or has no valid
CRC.  The same happens to the window, which the shutdown also deletes in the
middle of its save.  `KeepsPromise` and `LoadHonest` show what remains true: the
next start recognises it.  `LoadHonest` allows the defaults for an area whose
read fails, and the code sets no flag then; a later save (of another serial
number, or of the start-up window because of the other area) stores these defaults
over settings that were good.

`NothingLost` and `WriteReturns` hold only while fewer than `Size - 1` bytes are
unsent (`tooMuch`).  `_write` does not see the bytes that the DMA still has to send,
since `bffRd` is past them already, and overwrites them; and if the ring itself has
`Size - 1` bytes the loop of `_write` copies nothing and never ends, with the
interrupts masked that would free the ring (or, when `bffRd` is at the begin, `bffWr`
wraps onto it and the full ring looks empty).

`AnswerIsOwn` says nothing of an exchange that begins while an answer is
outstanding: that answer may be accepted for the new request if function and length are the
same, and the exchanges can stay one behind as long as each begins before the answer to the last
one.  A raw message without an answer leaves the DMA with the TCP buffer (`misled`):
the next answer goes there, and what is checked is the other buffer's old content.

`OneAtATime` holds while no answer comes late.  A kiss-of-death or a packet that is no
answer takes the timeout back that would free its request's pbuf (`SilenceIsFree` ends
there), and a server that sends such packets is never left for another (`ClockIsSet` leaves
it out).

`InRange` has two exceptions, and the run reaches both.  `stepsize` narrows the product to the
parameter's type before it compares it (`prmSystem.h:200`).  Of the parameters that the encoder
steps only `timezone` is signed and narrow (`int8_t`, -12 to 12): 19 detents that are read at
once are 133 with the encoder's factor of 7, or -123 in its type; neither comparison saturates,
and the value becomes far from its limits (`narrowed`; in the instance three steps are -1 in two
bits).  And a preparation stores 0 to 3 in `point`, whose limits are 0 and 0 (`Internal`).  The
theorem says that there is no other way out of the limits.

`OutputOwned` has three exceptions, all in `excused`: the last call of a preparation is refused
after the output was switched on (the level is not entered, nothing switches off); a
switch-off is refused, lost, or not sent because the cached state is off; a switch-on is still
repeated when its level was left.  There are no others.  `LeavesMenu` assumes that the link
works from some time on: on an item with `updateReg` the message of a failure comes back in each
pass and takes every key.  `RemoteReleased` is about a client that closes its
connection.  One that disappears keeps control for ever: `netconn_recv` has no timeout, since
the line that sets one (`porttcp.cpp:238`) is in a branch that cannot be taken.  The editor
stores its copy at its end also for an item that cannot be changed, over what a Modbus
write stored meanwhile (`EditorEnds`).

**Bounds.**  One tick of the instances with `RespTimeout = 2` stands for 50 ms.
It keeps the order of the source's times, period 10 < response 100 < expiry 150
< wait 160 < TCP 1000 ms, which is what decides who times out first: 1 < 2 < 3
< 4 < 9.  Two attempts instead of three are enough for a command to outlive its
caller.  Two callers and two semaphore addresses are enough for one caller's
late completion to hit the other's semaphore, and a queue of two for one to
wait behind the other and for the queue to be full.  `LagMax = 1` bounds the
overrun that is caught up.  In the flash instances, images end inside a sector,
at the first cell and at the last cell of the region, each can replace a
larger and a smaller one, and two sectors are the least for which the loop can
be interrupted between sectors.  For the parameters, two pages are the least for
which a save has a first page without and a last page with the CRC and the other
task can come in between; two settings that differ in every page are the least that
can mix.  A ring of 6 or 7 bytes has every order of the two pointers and the DMA,
texts in one and in two parts, and texts larger than the ring.  `link_remote` has one
target, since whose target it is matters there and not which; its `TcpWait` is longer than a
cycle with its retries.  Two shapes of frames are the least that can be
confused or not; three attempts are the code's.  Of three servers one answers and two others fail in
different ways; `MaxPending` bounds what stray answers add up to, which has no bound in the
code.  The menu has an item of each kind: with and without a parameter, with a child level, an editor, a
preparation of each kind, callbacks for a change and for every pass, three levels deep, and neighbours
on one of them.  Its three parameters are a signed one with limits inside of its type, on both sides
(`timezone`, 2 bits, -1 and 0; its item also has the callbacks of `vFilter` and of the wire's
resistance), one of 4 bytes that fills its type (`dword`, 1 bit, for `ipadr`, which has an editor, and
`Udac`, which a preparation stores), and one that is stored outside of its limits (`point`); a turn of 3
is a negative amount in 2 signed bits and wraps in 1 bit; the requests end within a parameter, at one, and
behind the list.  One
key or one turn is taken in a pass.  The proofs need none of these bounds.
The type invariants of `Bootloader`, `SettingsStore`, `LogRing` and `ModbusRtuPort` and
`StartsForCaller`, which is `UnexpiredHasCaller` at the start of a command, are proved and not run.

**Fairness.**  `WF` on the link task and on the tick: the task has the highest
priority but one, and the system task above it blocks nearly always; the tick
interrupt always comes.  `WF` on `Send`, `Wake` and `GiveUp` of each caller and
on the TCP server's steps: a ready task runs, since the link task blocks in
every cycle (`vTaskDelayUntil` or a wait for an answer).  No fairness on
`Begin`, `TcpRequest`, `TcpClose`, `SetTarget`, `LinkChange` and `Trip`: nobody
must press a key, and nothing repairs the line; where the line matters the
property assumes `<>[]linkUp`.  In the bootloader, `WF` on its own and the
cleaning steps: the processor executes; nothing makes a host upload, and
`UpgradeRuns` assumes that the power finally stays.  In the settings, `WF` on
the steps of the system task that wait for nobody, on those of each save, and on
the EEPROM: the system task has the highest priority, a window that holds the
mutex inherits it, and the EEPROM ends what it began; nobody must save, change a
parameter, or let the supply fail.  In the log, `WF` on a write that has begun (no
interrupt that is masked can stop it); nobody must write.  In SNTP, `WF` on each handler: lwIP
runs what is due.  In the menu, `WF` on the passes of the loop and on the server: both tasks run;
`WF` on `Dismiss` and `EditorEnds` and `SF` on `ParentKey` and `LeaveKey`: a user who wants
to leave presses the key again and again, and one press meets the loop at `keys`; nobody must
turn, store or enter anything, and no client must come or go.

## 4. Proofs

All theorems are proved for every value of the constants that satisfies
the named assumptions of the modules (`CallersAssumption`,
`TimingAssumption`, `NoCommandAssumption`, `FlashAssumption`, `PagesAssumption`,
`NoTaskAssumption`, `TornAssumption`, `SizeAssumption`, `TriesAssumption`,
`ParamAssumption`, `MenuAssumption`, `SntpAssumption`).  Of the times,
`TimingAssumption` asks no more than that the wait is longer than the expiry.

| Theorem | Statement |
|---|---|
| `RegulatorLinkProofs!TypeCorrect` | `Spec => []TypeOK` |
| `RegulatorLinkProofs!UnexpiredSafe` | `Spec => []UnexpiredHasCaller` |
| `RegulatorLinkProofs!StartSafe` | `Spec => []StartsForCaller` |
| `RegulatorLinkProofs!WakeSafe` | `Spec => []WakeIsOwn` |
| `RegulatorLinkProofs!EffectBounded` | `Spec => []EffectBound` |
| `RegulatorServiceProofs!QuietSafe` | `Spec => []QuietLink` |
| `RegulatorServiceProofs!RemoteSafe` | `Spec => []RemoteTargetHeld` |
| `RegulatorServiceProofs!AnswersInStep` | `Spec => []AnswerInStep` |
| `RegulatorServiceProofs!ConnectedSafe` | `Spec => []ConnectedHonest` |
| `BootloaderProofs!TypeCorrect` | `Spec => []TypeOK` |
| `BootloaderProofs!NeverBricked` | `Spec => []Bootable` |
| `BootloaderProofs!AppStaysIntact` | `Spec => []AppIntact` |
| `BootloaderProofs!UploadsArePure` | `Spec => []UploadPure` |
| `BootloaderProofs!UpdateIsAtomic` | `~FlashMayFail => (Spec => AtomicUpdate)` |
| `SettingsStoreProofs!TypeCorrect` | `Spec => []TypeOK` |
| `SettingsStoreProofs!SavesAreDurable` | `Spec => []Durable` |
| `SettingsStoreProofs!ShutdownSaves` | `Spec => []ShutdownSaved` |
| `SettingsStoreProofs!LoadsAreHonest` | `Spec => []LoadHonest` |
| `SettingsStoreProofs!PromiseKept` | `Spec => KeepsPromise` |
| `LogRingProofs!TypeCorrect` | `Spec => []TypeOK` |
| `LogRingProofs!NeverLost` | `Spec => []NothingLost` |
| `LogRingProofs!NeverStranded` | `Spec => []NothingStranded` |
| `ModbusRtuPortProofs!TypeCorrect` | `Spec => []TypeOK` |
| `ModbusRtuPortProofs!OwnAnswers` | `Spec => []AnswerIsOwn` |
| `ModbusRtuPortProofs!ThreeTriesSuffice` | `Tries >= 3 => (Spec => []TriesSuffice)` |
| `SntpClientProofs!TypeCorrect` | `Spec => []TypeOK` |
| `SntpClientProofs!SomethingGoesOn` | `Spec => []NeverStops` |
| `SntpClientProofs!SilenceHoldsNothing` | `Spec => []SilenceIsFree` |
| `SntpClientProofs!OneRequest` | `Spec => []OneAtATime` |
| `SettingMenuProofs!TypeCorrect` | `Spec => []TypeOK` |
| `SettingMenuProofs!RangesKept` | `Spec => []InRange` |
| `SettingMenuProofs!RequestsKept` | `Spec => []RequestKept` |
| `SettingMenuProofs!OutputIsOwned` | `Spec => []OutputOwned` |

*RegulatorLink.*  The inductive invariant is
`TypeOK /\ Owned /\ Separate /\ CommandPlace /\ Paced /\ (~lateDone => InTime)`.
`Owned` and `Separate` say that a caller in `reg_waitCommand` has a semaphore
of its own that is not free; `CommandPlace` that a command is held exactly in
`exec`; `Paced` ties the attempts left to the time since expiry, which gives
`EffectBound`.  `InTime` is what the 10 ms are for: a queued or prepared
command's remaining life is less than its caller's remaining wait, each live
command has one place (queue or `cmd`) and one caller, whose semaphore is the
one it carries and has not been given.  None of the three safety properties
is inductive by itself: without one place per caller a completion could
belong to an older command, and without the relation of the two timers a
caller could leave under an unexpired command.

*The queue on a quiet line.*  `QuietLink` is proved from `IInv` and four conditions.  `Steady`: no exchange is
repeated, so a cycle takes one period.  `OnTime`: the command in place `i` has left at least what the
task needs to come to it, `NextReceive + (i - 1) * Period`, and a margin.  `Pending`: a blocked
caller's command is queued or being executed.  `Fresh`: a prepared call has its whole expiry.  Sending
needs a free place (`RoomLeft`): every queued command is live, a caller has one at most, and the
sender none, so there are fewer than callers (the cardinality of an injection).  That a place costs
one period and `QueueLen * Period < Expire` is the reason why 8 places, 10 ms and 150 ms fit.

*Remote control, answers, connected.*  `RemoteInv` adds to `RemoteTargetHeld` that the cycle is not in
the exchange that writes the panel's target: that one is entered only without remote control, hence
without a claim, although a client may take control during it.  `AnswerInv` adds that the raw
exchange has a request in the slot.  `CountInv` follows `errorCount` from stage to stage: how many
exchanges may have failed after the last good one of a cycle (`MayHaveFailed`) bounds it from above,
the silent cycles less the failures still to come (`StillToFail`) from below.

*Bootloader.*  `IInv` is `TypeOK` and `Grounded`: which region is whole at
each stage: the storage from the first erasure to the verification, main
from the verification on.  It implies `Bootable` and `AppIntact` with a flash
that fails silently, because `Verify` decides on what was read back and not on
what the driver reported.  The refinement needs a flash that works and
`Progress` (the part of main that is already erased or copied at `pos`) and
`Agree` (whole regions hold the same image from the verification to the end of
the cleaning), so that neither the erasure of the storage nor an interruption
of it changes the chosen image.

*SettingsStore.*  The inductive invariant relates four things.  `Bus`: who is
in a transfer has the mutex, and the EEPROM is free.  `Places`: which task saves
which area in which stage, so that the two never save the same one.
`Pending`: a page in programming belongs to a save that waits for it, or to a
task that a restart or the shutdown ended; its area is `Unsure`.  `Written`: the
pages that a save has passed are in the EEPROM.  `Durable` is not inductive
alone: without `Pending` a page of a save that is gone could be programmed into an
area that was saved since, and without `Written` the last page would not complete
the area.  `Undisturbed` carries `ShutdownSaved` through the pages of the
shutdown's save, and `Loaded` together with `Durable` gives `LoadHonest`.  For
the refinement the abstract open save is followed through each step: it is the
buffer of the one task that saves the area (`OpenSaver`, `OpenProg`), no area
changes without it (`MemoryChange`), and it closes exactly with the last page
(`CommitStep`) or when it is given up (`AdvanceStep`).  That the CRC tells settings
apart is an assumption of the model, not a result.

*LogRing.*  `NothingLost` compares sequences, which is awkward to carry through a step;
the inductive invariant says the same by index: `Circle` gives the i-th unsent byte as
the i-th place around the buffer from the DMA's next byte on.  It needs `DmaPlace` (a
transfer ends where `bffRd` goes on) and `Wanted` (what a write still has to store fits
besides the unsent bytes), since the ring alone cannot tell full from empty.
`NothingLostInv` turns the indices into the sequences: the places of the transfer
followed by those of the ring, all different as they are fewer than `End`.

*ModbusRtuPort.*  The invariant of `AnswerIsOwn` says where an answer can be from: an exchange
that began settled finds no foreign frame on the line or in the buffer that it reads
(`Answers`), and `Receiver` ties the DMA to `rxState`.  `TriesSuffice` counts what the port may
have been left with: a semaphore costs one attempt, a reception for the other buffer or an
interrupted `uart_read` another, so the third begins on a clean port (`Enough`).
`OwnAnswers` is what `RegulatorLink` takes for granted in `Answered`: a write that was
answered was carried out, as long as its exchange began settled.
`Counted` is why the regulator takes a request at most once per attempt, which is part of
`TypeOK`: the requests taken, the one on the line and the attempts left never become more, since
`uart_write` cuts off what it starts over.

*SntpClient.*  Every handler takes one thing that was pending and leaves one more, or the
clock is set: the lemmas about `SendRequest` and `Request` say this once
(`SendIsOneMore`, `RequestIsOneMore`), from the cardinalities of timeouts and
entries of the table.  `NeverStops` follows from the second half alone.  `OneAtATime` needs
that an answer is under way only while the timeout of its request is set (`OneInv`): otherwise
the timeouts that `sntp_recv` takes back could be none and the count would go up.  Its
corollary `OnlyLateAnswersAreSentAfter` says that the finding of section 3 has no
other cause than a late answer.  `TypeOK` has the claim that no pbuf is freed twice: a
timeout's pbuf is allocated, and `pbuf_alloc` returns a free one.

*SettingMenu.*  `RangeInv` adds to `InRange` what the store needs: the item that was
selected when the value was read is still selected when it is stored.  `StepInLimits` is
the arithmetic: a step from inside the limits by an amount that is not negative ends inside,
because the comparison is made against the room that is left and not after the
addition, and neither the room nor the sum is cut then (`RoomWithin`, `WordIsWord`).  A negative
amount makes its parameter `narrowed`, and what a preparation stores outside of the limits is
`Internal` by definition.  An unsigned amount is never negative (`UnsignedAmount`): `narrowed`
contains signed parameters only, which is part of `TypeOK`.
`RequestInv` is `stored + todo = asked`; it is inductive because `TooFew` keeps the
subtraction from wrapping (`RegistersLeft`).  `OwnedInv` also counts a switch-on that is still
repeated, and says that an editor's item is on top of the history and has no exit
callback that switches.  `TypeCorrect` needs that the history never
grows past its places: `StackInv` ties its length to the level of the item
selected.  For the server it needs that the first parameter at an address is one of the list
(`FirstAtRange`, by the least index).

*Only model-checked:* liveness (`CallReturns`, `Reconnects`, `CacheConverges`,
`RequestServed`, `TargetConverges`, `UpgradeRuns`, `ShutdownEnds`,
`WriteReturns`, `ClockIsSet`, `LeavesMenu`, `RemoteReleased`), which is out of the
proof system's reach.  Every other property of the runs that hold is a theorem.

## 5. Not modelled, and why

* Measured values, page layouts, fonts, drawing, log texts: no property is
  about them.
* The wrap of the tick counter after 2^32 ms: timers are times left.
* lwIP, the Ethernet driver, freemodbus and the kernel, and of libmodbus all but the
  checks of an answer: third-party; they are represented by what the code uses of them.
  Together with the vendor's headers and drivers they are nearly all of the
  source lines of the repository.
* The contents of a raw request: only which register it writes.
* The interrupt handlers of `hal/src/i2c.c` one by one: a transfer ends or is
  refused; a bus that is held by a fault is left out.
* A change of parameters between two values of one `Prm::serialize`: what is
  serialized is some settings.
* The parameters that callbacks fill with measurements, serial numbers, times and `save_do`
  (`updateReg`, `prepareInfo`, `rtcSelect`, `calibrDateSelect`, `saveSettings`,
  `updateSaveSettings`), with the refusal of `prepareInfo`; what the callbacks for a change send
  or compute for a calibration; the clock and MAC editors; reads of registers; the 64-bit
  parameter and floating-point values.  A product of a signed type of 4 bytes does not overflow:
  a turn is at most 57344, its step at most 10, and a key is one `bigstep`, at most 500000.
* HTTP server: one connection after the other in one task, whose query is a caller of
  `RegulatorLink`.  Keys, encoder, beeper, clock: counters and registers of one interrupt each.
  The calendar: pure arithmetic on dates.
* The order of an output command and of the target that is written in the same cycle: the
  output of the regulator between them depends on its mode, which the panel does not keep.

## 6. Plan

What is left, in this order:

1. `ChargeWindow`: stop conditions over measurements that may be stale.
2. `CalendarTime`: day numbers and the daylight saving change against a reference definition.
3. The composition of `SettingMenu` with `RegulatorLink` in place of `SwitchOn` and `CalibrExit`.
