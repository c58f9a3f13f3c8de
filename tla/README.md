# Verification of the multizone temperature sensor firmware

The device holds two programs. The **MK66 firmware** (main controller, MQX RTOS)
reads temperature sensors on a 1-Wire bus, logs, stores parameters on an SD card,
shows menus and drives outputs. The **KW40 firmware** (BLE chip, FreeRTOS) offers the
device to a phone or a PC. An SPI link joins them, with the KW40 as its master.
This directory holds TLA+ models of their code, TLC instances that check them, and
proofs that TLAPS checks.

## Inventory

| part | state | operations | met by | hard because |
|---|---|---|---|---|
| Event logger, `MK66_Firmware/App/App_logger.c` | ring `app_log` with head and tail, semaphore `log_sem`, queue to the file task, error counters, request flag | `LOG*`, `Task_file_log`, `AppLogg_monitor_output`, `AppLog_pend_saving_params` | every MK66 task | preemption at any point, timeouts, full queue, no heap, failing files, an unlocked reader |
| Parameter store, `App/Parameters.c` | parameters in RAM, their file | `Save_Params_to_file`, `Restore_*`, the editor | file task, VT100 tasks, `Main_task` | rewriting in place, no lock, memory paths |
| BLE set-up, MK66: `MKW40/MKW40_Channel.c`, `App/Peripherial/K66BLEZ1_MKW40_Channel.c` | packet in the DMA, event `MKW40_RXEND`, `mkw40_activated` | reset, three settings, done; then one exchange after the other | KW40 over SPI | slave side, timeouts, stale events, independent restarts |
| BLE set-up, KW40: `KW40_Firmware/App/Main.c`, `App_comm_channel.c` | three parameters, event flags, transmit queue | SPI exchange every 2 ms, parse, start of the stack | MK66, BLE stack | creation order, priorities, self-reset |
| KW40 GATT services: `App_CommandService.c`, `App_CommunicationService.c`, `BLE_Perfomance_Test.c` | mode, peer, counters of a test | writes and reads of the peer, notifications | BLE stack, SPI task | shared by two tasks |
| KW40 peripheral: `BLE_peripheral_app.c`, `BLE_common_app.c` | advertising state and type, peer, timer | callbacks, restart of advertising | BLE stack, timers | order of callbacks |
| Thermometer, 1-Wire: `App/MZTS_APP/MZTS_task.c`, `MZTS_DS1Wire*.c` | ROM search state, table of sensor ids, zones | search, conversion, appending ids | parameter store, display | unplugged sensors, table limits |
| LEDs, outputs, inputs: `LED_control.c`, `MZTS_outputs.c`, `Inputs_controller.c` | pattern pointers, debounce counters | periodic automata | supervisor, inputs task | tables that rewrite their own state |
| Supervisor and watchdog: `Supervisor_task.c`, `WatchDogCtrl.c` | tick counter, watchdog | refresh | all tasks, by starvation | time |
| Time, filters, CRC | hardware timer, filter arrays | arithmetic | measurements | wrap, borrow |
| CAN, USB virtual ports, sound, VT100, display, MODBUS | queues, buffers | drivers and views | tasks and interrupts | see the plan |
| Vendored: MQX, MFS, USB, FreeRTOS, BLE stack | | | | external |

How they interact: tasks of the MK66 share memory and call each other's functions;
MQX gives the processor to the ready task of the highest priority (`App.h:119-136`)
and may take it away between any two instructions. The two chips exchange fixed
packets of 22 bytes; either can reset without the other noticing, and the MK66 can
reset the KW40 by a packet. The properties that make each modelled part correct
are below; those of the others are in the plan. `PROJECT.json` lists every hazard
found in the code, at its line.

## Modules

| module | content |
|---|---|
| `EventLog` | what the in-memory log promises: the most recent records in order, and a count of the forgotten ones |
| `AppLogger` | `App_logger.c` and the save made by the file task |
| `AppLoggerProps` | its properties, and the refinement mapping to `EventLog` |
| `MCAppLogger` | the priorities and tasks of the instances TLC checks |
| `AppLogger_proofs` | the theorems about the logger: types, semaphore, deadlock, order, reports, save |
| `AppLoggerRecords_proofs` | the theorems about its records: file, heap, skips, ring, log, viewer |
| `BleLink` | the set-up of the KW40 by the MK66, both ends and the SPI transfer |
| `BleLink_proofs` | the theorems about the set-up |
| `TxFifo` | what the transmit queue of the KW40 promises: a bounded FIFO of whole packets |
| `TxQueue` | `App_comm_channel.c`: the ring, the pushes of `Main_task`, the SPI task |
| `TxQueueProps` | its properties, and the refinement mapping to `TxFifo` |
| `TxQueue_proofs` | the theorems about the transmit queue |
| `RomSearch` | what a search of the 1-Wire bus promises: the sensors one by one, in the order of their ids |
| `OneWire` | `DS1W_SearchBuses` and `D1W_SearchRom` in `MZTS_DS1Wire.c`, the bus, and the mapping to `RomSearch` |
| `MCOneWire` | ids of four bits for TLC |
| `OneWire_proofs` | the theorems about the search, its refinement among them |
| `Sensors` | the table of sensor ids from one start to the next: `MZTS_task.c`, `Task_1WIRE`, the parameter file |
| `Sensors_proofs` | the theorems about the table |
| `VcomRx`, `VcomRx_proofs` | reception on a USB virtual port (`USB_virtual_com1.c`), and its theorems |
| `VcomTx`, `VcomTx_proofs` | transmission on it, from `Mnudrv1_printf` to the completion, and its theorems |

### AppLogger

`lpc[t]` is where task `t` is inside a `LOG` call. The steps of one call, in order:
`Log` (the message buffer), `Wait` (`log_sem`, line 110), `WriteLogToFile` (lines 61-89),
`Store`, `Publish`, `FixTail` (115-134), `Post` (148), `Free`; a call that cannot have
the semaphore within four ticks goes through `Timeout`, `SkipLoad`, `SkipStore`
(`sync_err++` is a load and a store, outside the semaphore). `fpc` is where
`Task_file_log` is; its own log messages are calls of its own, which it completes
before it goes on. `vpc` is where the viewer is. A step is one access to shared
state; two accesses share a step only where no other task can see or change what
lies between them. The viewer formats a line from the slot itself, field after field, so it has two steps, the first access and
the last (`ReadStamp`, `ReadText`): a writer above it may overwrite the slot in between, and the line then
begins with one record (`shown`) and ends with another (`ends`). `raced` counts the skips that were counted in the middle of
another task's count.

*Scheduling.* `CanRun(t)` holds when no task of higher priority is ready. A writer can
begin a call at any time, so a low task may be preempted after any step; a task that
is blocked on the semaphore or on the terminal lets the lower ones run. The model lets tasks of equal priority
interleave at every step; the tasks that log have distinct ones (of the four at 9 in `App.h` only `Task_MKW40` logs). The semaphore
hands over to its first waiter, as `_lwsem_post` does.

*Failures.* Each allocation, `fopen` and write may fail, `MaxFails` times in all. A write to `AppLog.txt` is three calls whose
results the code ignores: the record is freed and, if one of them failed, lost without a trace in any
counter (`unwritten`); a failed write of an error line loses the announcement in the same way. Without
its line buffer the file task formats the first record through a null pointer: `fpc`
becomes "fault" and nothing is claimed after it. When the log file cannot be opened,
the task ends (`"dead"`), as the code does.

*Abstracted.* Message texts, times and severities; records are their numbers in the
order of acceptance. `log_entry_sem` is posted and never awaited, so it is left out.
The queue is created with a message size of four words where one is meant
(`App_logger.c:49`): the three extra words copied around `plrec` are assumed harmless.
The second `_lwmsgq_receive` (line 579) has a timeout but not the flag that would make it
block, so it is a poll. `AppLog_get_tail_record` and
`AppLogg_monitor_output_prev` are called by nothing.

*Environment.* `ChangeParams`/`RequestSave` are `Append_new_sensors_id`
(`MZTS_task.c:107`): first the id, then the request; `SpaceMeasured` is the background
task's measurement, possible only when every other task is blocked.

### EventLog and the refinement

A record enters the log when the head is stored (`Publish`). Between that and `FixTail`
a full ring has head = tail and looks empty; the mapping (`Overrun`, `Oldest`, `Used`)
counts the oldest record as forgotten from the first of the two steps. All other steps
of the logger are stutters of `EventLog`.

### BleLink

One step is one call of the driver, one packet, or one delay. The MK66 loads a packet
into its DMA (`Arm`) and waits for `MKW40_RXEND` (`Arrived`, `Timeout`); as in
`K66BLEZ1_MKW40_Channel.c:457-461` neither clears the event first, nor disarms the DMA
after a timeout. The KW40 transfers whatever is armed (`Clock`), then handles it: RESET
restarts the chip, SETT_WRITE stores a parameter, SETT_DONE sets the flag `Main_task`
waits for. In the first exchange after a boot `Main_task` has not yet created that
flag nor stored its defaults (`Main.c:195-205`), because the SPI task is of higher
priority and waits busily.

An SPI task that runs makes an exchange every 2 ms, so the wait of 50 ms can only
expire while the KW40 boots or hangs; a boot may also outlast the pause of 100 ms after
the reset (`slow`). When the MK66 starts, the KW40 may be booting, waiting for
settings, or running with the parameters of the MK66's previous life.
A packet goes over whole or not at all (arming in the middle of a frame is not
modelled), the replies are left out because the set-up ignores them, and an exchange
with no packet armed brings the KW40 nothing it would take for a command.

### TxQueue and TxFifo

`mpc` is where `Main_task` is in `Push_message_to_tx_queue`, one step per access to the
ring: read the head (`PushBegin`), look for room (`PushRoom`), write channel, length and
data (`PushChan`, `PushLen`, `PushData`), store the head (`PushHead`). The SPI task has the higher
priority (`App_config.h:82-83`) and waits for its DMA busily, so between two of its sleeps it is
one step up to the transfer (`Move`) and one after it (`Parse*`), and `Main_task` moves only
while `spc = "sleep"`. While the MK66 configures the chip the SPI task pushes
acknowledgements itself, in one step. There is no lock; `phase` stands for the order
that replaces it: `Main_task` takes up messages of the peer only after
`EVENT_SETTINGS_DONE`, and no setting comes after that but after a reset, which is what
`RunningStackUntouched` checks of `BleLink`.

A packet is a record of its three fields, so that one sent half written would differ from
each whole one. Sizes over `MKW_DATA_SZ` are refused before anything is read and
settings of a wrong size get no acknowledgement; both change nothing (`ParseOther`).
The abstraction is the sequence `Waiting` of the packets between tail and head. Storing the head
is `Put`, a full ring is `Refuse`, the SPI task's `Move` is `Send` or `SendNothing`, a reset is
`Clear`, and each write of a field is a stutter.

### OneWire and RomSearch

`pc` is where `DS1W_SearchBuses` is: `Start` (the first reset pulse), `BeginPass` (the previous id is
copied to the next element, every device takes part again), `ReadBits` once per bit of the id (two
readings, the choice of `D1W_SearchRom`, the bit written back), `EndPass`, `CheckCrc`. The bus is a
wired AND: a reading is 1 only when each device that still takes part lets it be 1
(`Answer`), and the bit written back silences the others (`listening`). `Valid` stands for the ids
whose CRC is right. `Plug`, `Unplug` and `Noise` are the environment, `MaxFaults` of them in one
search; a time-out of `D1W_ReadBit`, which returns 0, is a kind of noise.

`RomSearch` knows nothing of bits: its `Discover` adds the least of the devices not yet found,
`Finish` needs all found or the array full. A pass that ends is `Discover`, the CRC check is `Finish`,
every single bit is a stutter; with the first disturbance the mapping goes to `Disturb` and the
promise ends.

### Sensors

One behaviour is many runs of the firmware. `Restore` and `RestoreFails` read the parameter file,
`Init_sensors_config` copies the ids, `Search` is what `RomSearch` promises of whatever is attached
(`IsSearchResult`), `SearchDisturbed` anything a disturbed search may leave. `Append_known` and
`Append_new` are one pass of the outer loop of `Append_new_sensors_id` each; note that
`sensor_ids` grows while `sensor_configs`, which the loop compares with, does not. A save empties the
file and writes entry by entry (`SaveBegins`, `SaveWrites`); `Reset` may come at any moment.
`upset` collects what went wrong outside the program, so that each property can say what it
excuses: "card" (a failed read or write), "bus" (a disturbed search), "user" (an id typed in the menu). A reset in the middle of a
save is none of these: the file was emptied when it was opened, and any part of the entries written so far
may have reached the card (`CutOff`); the known ids that had not are `lost` until they are found and saved again.
`KnownKept` claims that no other id is ever missing, and says nothing once the card has failed or the user has
edited an id; `NewSensorAdded` excuses a failed save in the same way. Then `Measure` and the loop of `MZTS_task` run for ever, with
`max_sens_log_file_size` above 0 as it is by default.

Two sensors attached at once, with one known sensor missing, give the right number of devices: both
are then written to the same entry and the second wins. `NewSensorAdded` therefore speaks of the one new sensor only.

### VcomRx

`pc` is where the reader is in `VCom1_USB_get_data`: `Check`, `Flagged`/`TimedOut`, `Take` (one byte),
`Free` (the tail moves), `WasFull` (`rx_full` is read and cleared), `Advance`, `Arm`. The
callbacks `BUS_RESET`, `CONFIG_CHANGED` and `DATA_RECEIVED` are one step each: the task
`USB_DEV` has the higher priority. The read and the reset of `rx_full` share a step because a
callback between them could only set what is set. A packet is its number and its length, and a
byte its packet and its place. The history variables `reconfigured` and `overtaken` mark the two
situations in which the ring really goes wrong: the host configures the device while the ring is full, and
the race of the finding below. What the properties then say is that there is no third. `USB_Class_CDC_Recv_Data` may be refused at each of its four
calls (no free descriptor, a busy one). Three of them count `rx_errors`, the one at line 209 does not look, and none tries again:
`refused` marks the time from such a refusal to the next configuration, in which no reception is armed and nothing more comes.

### VcomTx

The terminal's steps are `Mnudrv1_printf` (fills the buffer), `TestEnabled`, `WaitEnabled` (takes the
permission), `SendData` or `SendFails`, `WaitEnd`, `Renew`, and the time-outs of the two waits.
`VCOM_FLAG_TRANSMIT_EN` is an event that a wait clears. The host reads transfers in their order;
what it receives is what the buffer holds then, so `queue[i].str # str` means a spoilt string.
`early` records which of three causes has made the buffer free too early: an ignored time-out, the
completion of the empty packet after whole packets, or a port opened during a transfer. `dropped`
says that a permission was lost with a refused or dropped transfer.

## Runs

| run | instance | shows |
|---|---|---|
| `logger` | writers at priorities 8 and 17, the viewer at 15, the file task at 19; ring of 2, queue of 1, three calls, one failure; about 690,000 states | the safety of the ring, the queue, the file, the counters and the view; the refinement of `EventLog` |
| `logger_save` | two writers, two calls, two sensor ids, one failure, no viewer; about 440,000 states | the heap is accounted for on each error path, no save request is lost; liveness, of a save once the logger falls silent |
| `ble_setup` | up to three timeouts | the set-up ends; when timely, it configures the chip; the KW40 is never hung nor changed while it runs |
| `ble_configured` (violation) | one timeout | "activated" does not mean configured |
| `ble_activated` (violation) | one timeout | "activated" does not mean that the stack will start |
| `tx_queue` | two messages, one acknowledgement, the ring of four slots of the code; about 15,000 states | the ring is a FIFO of whole packets although one user preempts the other; nothing accepted stays, no push hangs |
| `rom_search` | ids of four bits, the last one a parity bit, all 128 sets of sensors, an array of three, one disturbance; about 49,000 states | the search implements `RomSearch`; it ends, whatever the bus does |
| `rom_search_discovered` (violation) | the same | a successful search may report an id nobody has |
| `sensor_table` | two zones, three sensors, one kind of trouble at a time; about 720,000 states | known sensors stay but for those cut off a file being written, a new one is added once and saved, rows keep coming |
| `vcom_rx` | the two buffers of the code, packets of one or two bytes, four packets, two empty packets, resets or refused armings; about 78,000 states | one reception is armed at a time, and none only after a refusal; bytes come once and in order, none is left |
| `vcom_rx_overtaken` (violation) | four packets of one byte, no error | the reader may arm a buffer it has not read |
| `vcom_tx` | strings numbered modulo three, two transfers; about 630,000 states | the permission to send is not lost, output goes on, the buffer is safe but for three causes |

*Bounds.* A ring of two slots keeps one record, so that the second publication already
overruns it; a queue of one is full at the second record; with three calls the ring
wraps, a writer overtakes another, one waits for the semaphore and times out. One
writer is above the viewer and one below, so the viewer is both preempted and
preempting. Two sensor ids let the second arrive during the save of the first, and two calls let a record arrive before
and during a save; one failure takes each error path of the save. That the message
about a failure finds no memory either needs two, which with two calls is too large for TLC; `BlocksAccounted` and `SaveNeverLost`
are proved for any number.
Three timeouts let a stale event, a retry and another stale event follow each other.
Ids of four bits have two branches in one pass and passes that return to each of them;
seven sensors overfill the array of three. Two zones and three sensors let a sensor be absent, known,
new and one too many; the number of restarts is not bounded. Four packets fill the ring of two buffers, race with
the reader and fill it again. Two transfers are a string and the empty packet behind it, and three
numbers tell a string from the next two.
Every counter of the models is bounded by these constants (`MaxCalls`, `MaxChanges`,
`MaxViews`, `MaxFails`, `MaxTimeouts`, `MaxFaults`, `MaxId`, `MaxUpset`, `MaxLen`, `MaxPackets`, `MaxErrors`,
`Chunks`, `MaxTransfers`). Deadlock is not checked for the logger, because calls are
bounded and the file task may end; in its place `CallsReturn` says that no call stays
inside. It is not checked for `OneWire`, whose search ends, nor for `VcomRx`, whose packets are
bounded, nor for `Sensors` and `VcomTx`, where a task may end or wait for a host that never comes. The tasks have different priorities, so there is no symmetry to use.

*Fairness.* `AppLogger!FairSpec` says that a ready task that nothing of higher priority keeps
out takes its step: MQX runs it. Nothing is assumed of timeouts, of new calls, of
keys and the terminal. `BleLink!FairSpec` says that both processors run, and that the
SPI task, periodic and of high priority, makes its exchanges. A timeout is never forced.
`TxQueue!FairSpec` says that the periodic SPI task goes on, and (strong fairness) that `Main_task` gets
the processor in some of the sleeps of the SPI task, though not in each: its priority is
above the idle task's only. `OneWire!FairSpec` says that `Task_1WIRE`, of the highest priority of the
application, goes on: each of its waits has a time-out. `Sensors!FairSpec` says it of the
measuring loop and of `MZTS_task`, as long as a conversion on the bus ends (the code waits for that without
bound, `MZTS_DS1Wire.c:721`). `VcomRx!FairSpec` and `VcomTx!FairSpec` let the terminal and the callbacks of
complete transfers run; in the first the host configures the device after a reset, in the second it
goes on reading.

## What the checks show

* The semaphore protocol is right under preemption and timeouts (`MutualExclusion`,
  `SemaphoreSound`, `CallsReturn`); the skip counter misses exactly the skips counted in the middle of
  another's count (`SkipsCounted`); error reports never announce a loss that did not happen
  (`ReportsAreDrops`), though counts may vanish.
* Records reach the file in order, each once, or are counted as dropped (`FileOrder`,
  `QueueDrained`) as long as the file task lives; it ends for ever at the first failed
  `fopen`. A record that the card does not take is lost and counted nowhere, one for each failure and no more.
* The ring is an `EventLog`, and the unlocked viewer never goes back: each line begins with a
  newer record than the last one ended with. A line may mix two records; it then began with one already forgotten
  (`ViewerGoesForward`).
* A request to save survives any interleaving (`SaveNotLost`) and is served once nothing is
  logged any more (`SaveServed`); records that keep coming faster than every two ticks put it off without bound
  (`App_logger.c:585`); the two early returns of `Save_Params_to_file` leak one buffer each, and
  nothing else leaks (`HeapAccounted`).
* The set-up sequence is right when exchanges come in time
  (`TimelySetupConfigures`), always ends (`SetupEnds`) and never touches a running stack
  (`RunningStackUntouched`, `StartsWhenTold`).
* The transmit queue needs no lock: packets leave whole, once and in order
  (`RefinesFifo`), because each of its indices has one owner at a time (`OwnsHead`).
* On a quiet bus the search finds every sensor, once and in order (`RefinesRomSearch`); on any bus it
  ends inside its array (`SearchEnds`, `TypeOK`).
* The table of ids never doubles a sensor (`NoDuplicates`) and never lets a new one displace a known one, over any sequence of
  restarts. A reset in the middle of a save does lose ids, because the file is rewritten in place: those that had
  not reached the card, and no others (`KnownKept`). No document promises that a save survives a power cut, so this is
  no finding. The write at `MZTS_task.c:152` stays inside the table (`TypeOK`).
* **Found:** a search that reports success may count ids that no sensor has (`DiscoveredOnly`): a pass
  that fails is taken for one that found a device, and zeros have a right CRC.
* **Found:** the receive ring of a virtual port loses packets when two of them arrive between the move of
  `rx_tail` and the look at `rx_full` (`ArmsFreeBuffer`). Without that race, and without a new configuration
  of a full ring, reception is right (`OneReceive`, `InOrder`, `AllRead`), up to the first arming that the stack
  refuses: then it stops until the next configuration (`OneReceive`), and what came before is still read.
* The permission to send is never lost by the application itself (`PermissionNotLost`,
  `OutputGoesOn`); the print buffer is safe but for the three causes above (`BufferSafe`).
* **Found:** the MK66 may report the BLE device as activated while the KW40 runs with default
  parameters (`ActivatedIsConfigured`), or never starts (`ActivatedComesUp`). The
  counterexamples need one slow boot: the acknowledgements the KW40 sends are not
  read, and a late event is taken for the answer to the next packet.

## Proofs

`AppLogger_proofs` and `AppLoggerRecords_proofs` prove for every set of writers, every assignment of priorities,
every size of ring and queue, and every bound, and `TxQueue_proofs` for all messages and every
size of the ring; `OneWire_proofs` for ids of any length, any set of devices and any array;
`Sensors_proofs` for any number of zones and sensors; `VcomRx_proofs` for any number of buffers and packets;
`VcomTx_proofs` for any number of transfers; `BleLink_proofs` for any number of exchanges that time out:

| theorem | statement |
|---|---|
| `TypeCorrect` | `Spec => []TypeOK` |
| `SemaphoreAlwaysSound` | `Spec => []SemaphoreSound` |
| `MutuallyExclusive` | `Spec => []MutualExclusion` |
| `ReportsNeverInvented` | `Spec => []ReportsAreDrops` |
| `SaveNeverLost` | `Spec => []SaveNotLost` |
| `RecordsInOrder` | `Spec => []FileOrder` |
| `BlocksAccounted` | `Spec => []HeapAccounted` |
| `SkipsSound` | `DistinctPriorities` implies `Spec => []SkipsCounted` |
| `ImplementsEventLog` | `Spec => RefinesEventLog`: the ring implements `EventLog` |
| `ViewerForward` | `OwnPriority` implies `Spec => ViewerGoesForward` |
| `TxQueue_proofs!TypeCorrect` | `Spec => []TypeOK` |
| `HeadHasOneOwner` | `Spec => []OwnsHead` |
| `ImplementsFifo` | `Spec => RefinesFifo`: the ring implements `TxFifo` |
| `OneWire_proofs!TypeCorrect` | `Spec => []TypeOK` |
| `SearchCorrect` | `Spec => RefinesRomSearch`: the search implements `RomSearch` |
| `Sensors_proofs!TypeCorrect` | `Spec => []TypeOK` |
| `KnownStays` | `Spec => []KnownKept` |
| `NewIsAdded` | `Spec => []NewSensorAdded` |
| `NoneTwice` | `Spec => []NoDuplicates` |
| `VcomRx_proofs!TypeCorrect` | `Spec => []TypeOK` |
| `OneReception` | `Spec => []OneReceive` |
| `BytesInOrder` | `Spec => InOrder` |
| `VcomTx_proofs!TypeCorrect` | `Spec => []TypeOK` |
| `BufferKept` | `Spec => []BufferSafe` |
| `PermissionKept` | `Spec => []PermissionNotLost` |
| `BleLink_proofs!TypeCorrect` | `Spec => []TypeOK` |
| `NeverHangs` | `Spec => []NeverHung` |
| `RunningUntouched` | `Spec => RunningStackUntouched` |
| `StartsOnlyWhenTold` | `Spec => StartsWhenTold` |
| `TimelyConfigures` | `Spec => []TimelySetupConfigures` |

These state what the runs check, the first ten about the logger. More theorems state what no run checks:
how the modules fit together, what is behind the findings, and how far each of them goes towards its liveness:

| theorem | statement, in words |
|---|---|
| `SemaphoreHasHolder` | a taken semaphore has a holder inside the lock |
| `LoggerNeverDeadlocks` | while a task is inside the logger, some task has a step of its own and the processor for it |
| `FirstComeFirstServed` | the semaphore is handed on in the order of waiting |
| `CallsTakeFewSteps` | a call takes at most ten steps of its own, and no other task sets it back |
| `RingHoldsLatest` | the ring holds exactly the most recent records, `overl_err` counts exactly the others |
| `SettingsBeforeRun` | settings reach the KW40 only while `Main_task` waits for their end |
| `EventAlwaysDue` | an awaited event is set, or the packet that sets it is still armed |
| `SetupGoesForward` | no stage is skipped or, from the third on, taken back |
| `OnlyDelaysLeaveItDown` | with nothing late, an activated chip runs or is about to |
| `EachExchangeTakesOne` | fewer packets wait than there are slots, and each exchange takes the oldest |
| `SearchDelivers` | on a quiet bus the search finds what is there, in order, up to the size of the array |
| `QuietBusDiscovered` | on a quiet bus the array holds discovered devices only |
| `SearchShrinks` | a search has at most `MaxDevices * (N + 3) + 2` steps left, each leaves fewer, no disturbance more |
| `OnlyValidReported` | on any bus a success is 1 to `MaxDevices` ids with right CRC, a failure none |
| `SettingsReachFile` | with no save due or failed, the parameter file holds the ids of the settings, whatever resets came before |
| `OvertakingIsTheCause` | without the overtaking of `rx_full`, only free buffers are armed |
| `EmptyMeansRead` | a reader that finds the ring empty has read all that was received, and unless the last arming was refused another reception is armed or done |
| `OneTransferAtATime` | at most one transfer or completion is outstanding, none when a string is handed over |

*How the modules fit together.* `Sensors` takes the result of a search for granted (`IsSearchResult`); `SearchDelivers`
is that assumption, proved of `OneWire` (ids are bit strings there and numbers here, in the same order).
`TxQueue` pushes from `Main_task` only, because a setting never arrives later than
`SETT_DONE`; that is `SettingsBeforeRun`, proved of `BleLink`. `RingHoldsLatest` is a theorem about `EventLog` first, and
`ImplementsEventLog` carries it to the ring.

*What is behind the findings.* Each disagreement named above as found has exactly the cause the counterexample shows: the
properties hold of every behaviour without it (`QuietBusDiscovered`, `OvertakingIsTheCause`, `TimelyConfigures`,
`OnlyDelaysLeaveItDown`). A repair that removes the cause repairs the property.

*Towards liveness.* That something happens at last needs fairness, which is out of the prover's reach. What a step
can do to it is not: `CallsTakeFewSteps` and `SearchShrinks` bound the steps left by a number that every step
of the task lowers and nobody raises; `LoggerNeverDeadlocks`, `EventAlwaysDue` and `EmptyMeansRead` say
that whoever waits has somebody to wait for (the reader of a port: unless an arming was refused); `EachExchangeTakesOne` and
`FirstComeFirstServed` that each turn brings the first in line nearer. With the fairness of the
specifications (checked by TLC on the instances) this is the argument for `CallsReturn`, `SearchEnds`, `SetupEnds`, `AllRead` and
`AcceptedLeaves` at any size.

The assumptions are those on the constants in `AppLogger` (`TaskAssumption`, `PrioAssumption`,
`SizeAssumption`); TLC evaluates them in each run. Type correctness is inductive by itself, except
for the removal of a task from the middle of the semaphore's queue, which needs a lemma
(`RemoveAtProperties`). Mutual exclusion is not inductive alone: that a post hands the
semaphore to a waiter keeps it exclusive only if the waiter was not inside already, that
the semaphore is never free while someone is inside, and that no task queues twice. `SemInv` joins
these and is inductive; the lemmas `JoinQueue`, `LeaveQueue` and `TakeFirst` say what
the queue holds after each of its three operations. `LoggerNeverDeadlocks` adds that a taken
semaphore has a holder (`SemHeld`); the holder or a task above it is then ready, and of the ready tasks one of highest priority
may run (`SomeCanRun`: priorities are natural numbers, so there is a least one). The frame lemmas (`LogFrame`,
`ViewFrame`, `FileFrame`, `OtherFrame`) say what each group of actions leaves alone.

The records need invariants of their own. *File* (`PipeInv`): the file, the record in the task's hand and
the queue form one increasing sequence that ends at or below the last accepted record; `HandSound` says at which of the
file task's steps the hand is full. A record that leaves the hand goes to the file or makes a gap, which
`unwritten` counts (`PipeLoses`), and each gap costs one of the card's failures. *Heap* (`HeapInv`): the blocks of messages are counted by
the finite set of tasks inside `LOG`, the others by the file task's position. *Skips* (`SkipInv`): the tasks that count at the same time are nested, each one preempted by the next (`CountsNest`), so
the one that began first (`Outermost`) stores last, and over all that the others stored: the value it loaded falls short
of the skips by the raced ones and its own. That needs distinct priorities
(`DistinctPriorities`), as the tasks that log have them. *Ring* (`RingSound`):
the writer inside the semaphore writes the record accepted last, into the slot at the head. Moving the head
publishes it; in a full ring that is an overrun already, and moving the tail, which
comes later, is a stutter. `KeptIsContent`, `HeadAppends` and `HeadOverruns` do the
arithmetic of the indices. *Viewer* (`ViewInv`): from the oldest slot on the records grow (`Growing`), unwritten slots
lie ahead of the head in the first round only (`FirstRound`), and what the viewer shows next
is newer than what its last line ended with (`ViewSound`). A slot that changes under the viewer was the one at the head, and in a ring that
has been filled once (`Round`) what stood there is forgotten (`HeadForgotten`, `TextSound`). The last rests on scheduling: were a writer
of the viewer's own priority stopped between slot and head, the viewer could show the new
slot and then the oldest one. `OwnPriority` excludes that, as the priorities of `App.h:119-134` do.

Only model-checked of the logger: liveness (`CallsReturn`, `SaveServed`, `QueueDrained`), which is beyond the prover.

`TxQueue_proofs` needs only that the ring has at least two slots. The refinement does not follow
from the types: that the store of the head is an acceptance requires that the slot is still free and
holds all of the message, whatever the SPI task did since. `PushSound` says so for each
place a push can be in, and is kept because an exchange moves the tail away from the
slot being filled (`PushKept`). The ring itself is handled by three lemmas about
`Content(q, h, t)`, for any contents, head and tail: the slot at the head can be written
unnoticed (`FillUnseen`), advancing the head appends (`HeadAppends`), advancing the tail removes the
first (`TailRemoves`). `PushSimulates` and `SpiSimulates` then map each action to its step of
`TxFifo`. `AcceptedLeaves` and `PushReturns` are liveness and only model-checked.

`OneWire_proofs`: a pass finds the successor of the id found last, and that needs an invariant
of the middle of the pass. `Passing` says that the devices that still listen are those that agree with
the pattern so far, that the pattern has turned off at `lastDeviation` or not yet reached it
(`Turns`), and where the last position is at which a 0 was chosen though some device had a 1 (`LastDeviates`).
`Finding` says that what was found is the part of the bus up to the last id, and that the devices
left are those behind its last deviation. When the pass ends (`PassFinds`) the pattern is the id of
the only device left, and the least of those not found (`LeastIsFirst`). The order of ids is shown to be
total, asymmetric and transitive first (`FirstDifference` picks the least position where two
ids differ). The measure of `SearchShrinks` counts `N + 3` steps for each free place of the array, since a
pass that fails takes a place too (`PassEndsLess`).

`Sensors_proofs`: `KnownKept` is inductive with the part of the file that a save under way has
already written (`Kept`, `Unsaved`); when a reset cuts the save off, what the file does not hold is `lost` (`ResetKeeps`). `NoDuplicates` needs that the entries of each of the three
tables form a prefix without repetitions, and that a new id differs from all of them because the search
found each id once (`Listed`, `Tables`). `NewSensorAdded` follows from `Added`: once the
loop has passed the one new device, its id is in the table and stored, being stored, or due.
`SettingsReachFile` is kept because the file task clears the request before it writes, not after: a change made meanwhile
leaves the request set (`FileFollows`). That `Get_valid_sensors_num` counts a prefix is `ValidNumber`, by the least number principle of
the library.

`VcomRx_proofs`: `OneReceive` is inductive with the fact that nothing completes while the device is
not configured (`Quiet`); `ArmingFacts` says of each arming that it adds one reception or leaves `refused`. `InOrder` needs that the filled buffers, from the tail to the head and over the
wrap, hold consecutive packets, beginning with the one being read (`Consecutive`, `Holds`), that the
number of filled buffers is what was sent and not read (`Counted`), and that a packet that completes is the one behind
them (`AtHead`). Distances around the ring (`Dist`) are treated in lemmas of their own.

`VcomTx_proofs`: `Permitted` and `Own` say, for each place of the terminal, who has the permission and what the
controller still holds; with `PortOpened` they are inductive.

`BleLink_proofs`: the safety of the set-up rests on how far the MK66 can be when the chip boots. A chip that has
not yet made its first exchange leaves at most one event behind, so the MK66 has reached
the name at the furthest (`EarlyBoot`), and `SETT_DONE` cannot be in the first exchange. A reset is armed in
the first stage or left armed right behind it (`EarlyReset`), so the later stages meet a chip that runs and
never go back (`NoReturn`), and a running stack is one still to be reset or one told to start
(`Running`). `TimelyConfigures` adds `InStep`: as long as nothing is late each packet is gone before the
next is armed, its event is for it, and the KW40 holds the parameters of the stages passed.

Only model-checked of these five: `SearchEnds`, `RowsKeepComing`, `AllRead`, `OutputGoesOn` and `SetupEnds`, which are liveness.

## Plan

Done, in this order: the logger with its save; the set-up of the BLE chip; the transmit queue of the KW40 with the
FIFO it implements; the search of the 1-Wire bus with the search it implements; the table of sensor ids with
save, reset and restore; both directions of a USB virtual port. `RomSearch` is used twice: `OneWire`
implements it, and `Sensors` takes its promise for granted.

The safety of all of these is proved. Open: the counters that `Main_task` and the SPI task of
the KW40 share during a performance test; advertising and connections.

## Not modelled

* Code that nothing runs: MODBUS, the sound player, the pattern automata of the outputs, the inputs
  task, the hardware timer of `TimeMan.c` and both uses of the CAN tasks, which wait for messages that
  no part of the application posts or interprets.
* Matters of real time (the watchdog's window, the bit timing of the 1-Wire bus, baud rates) and of
  wording and layout (menus, drawing, the text of the parameter file).
* Two saves at once (`Parameters.c:493`): what the file then holds is decided inside MFS.
* Connections, advertising and the performance test of the KW40: the order of callbacks is decided in a BLE stack
  of which the tree has headers only.
* By far most of the tree is vendored: the MQX kernel, MFS, the USB stack, FreeRTOS, the BLE stack's
  headers, register definitions of the two chips, and library and font tables. It is external here, and
  appears in the models as what the application sees of it.
* The PC application, the schematics and the documents.
