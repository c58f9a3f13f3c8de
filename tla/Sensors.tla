-------------------------------- MODULE Sensors --------------------------------
(***************************************************************************)
(* The table of sensor ids in the settings, from one start of the firmware *)
(* to the next: it is restored from the parameter file                     *)
(* (Restore_parameters_and_settings), turned into sensor_configs           *)
(* (Init_sensors_config), completed with a newly found sensor by           *)
(* Task_1WIRE (Append_new_sensors_id in App/MZTS_APP/MZTS_task.c), and     *)
(* saved by the file task.  Then Task_1WIRE measures for ever and          *)
(* MZTS_task writes a row for each cycle.                                  *)
(*                                                                         *)
(* An id is a positive number, 0 an empty or malformed entry.  The search  *)
(* of the bus is the one of RomSearch: the first Zones attached ids in     *)
(* ascending order.  Saves do not overlap.                                 *)
(***************************************************************************)
EXTENDS Naturals, Sequences, FiniteSets

CONSTANTS
  Zones,                \* TEMP_ZONES_NUM
  MaxId,                \* bound: the sensors of the world are 1 .. MaxId
  MaxUpset              \* bound: kinds of trouble in one behaviour

ASSUME SizeAssumption ==
  Zones \in Nat \ {0} /\ MaxId \in Nat /\ MaxUpset \in Nat

Slots == 1 .. Zones
World == 1 .. MaxId
Empty == [i \in Slots |-> 0]
Entries(f) == {f[i] : i \in DOMAIN f}

VARIABLES
  file,                 \* the ids in the parameter file
  ids,                  \* wvar.zoneN_sensor_id, through sensor_ids
  configs,              \* sensor_configs: the ids as they were at the start
  pend, written,        \* pend_params_saving; 0, or the next id to be written
  devices,              \* the result of the search
  k, skip,              \* Append_new_sensors_id: next device; f_skip
  pc,                   \* "restore", "config", "search", "append", "measure"
  sensor,               \* the sensor measured next
  ready,                \* EVENT_SENSOR_RESULTS_READY
  logger,               \* MZTS_task: "wait", "open", "row", "stopped"
  \* history, read by no code
  known,                \* every id ever in configs
  lost,                 \* those cut off the file by a reset in the middle of a save
  upset                 \* what went wrong

table  == <<ids, configs>>
saving == <<file, pend, written>>
search == <<devices, k, skip>>
rows   == <<sensor, ready, logger>>
past   == <<known, lost, upset>>
vars   == <<table, saving, search, pc, rows, past>>

Init ==
  /\ file = Empty /\ ids = Empty /\ configs = Empty
  /\ pend = FALSE /\ written = 0
  /\ devices = << >> /\ k = 1 /\ skip = {}
  /\ pc = "restore" /\ sensor = 1 /\ ready = FALSE /\ logger = "wait"
  /\ known = {} /\ lost = {} /\ upset = {}

\* Trouble with the card, on the bus or by the user.
Trouble(kind) ==
  /\ Cardinality(upset \cup {kind}) <= MaxUpset
  /\ upset' = upset \cup {kind}

-------------------------------------------------------------------------------
(* Main_task and MZTS_task before the tasks are created                     *)

Restore ==
  /\ pc = "restore" /\ pc' = "config"
  /\ ids' = file
  /\ UNCHANGED <<configs, saving, search, rows, past>>

\* The file cannot be read: the defaults are taken and saved at once.
RestoreFails ==
  /\ pc = "restore" /\ pc' = "config"
  /\ ids' = Empty
  /\ written' = 1 /\ file' = Empty
  /\ Trouble("card")
  /\ UNCHANGED <<configs, pend, search, rows, known, lost>>

Init_sensors_config ==
  /\ pc = "config" /\ written = 0
  /\ configs' = ids
  /\ known' = known \cup (Entries(ids) \ {0})
  /\ lost' = lost \ Entries(ids)
  /\ pc' = "search"
  /\ UNCHANGED <<ids, saving, search, rows, upset>>

-------------------------------------------------------------------------------
(* Task_1WIRE                                                               *)

\* The entries before the first empty one.
Get_valid_sensors_num ==
  CHOOSE n \in 0 .. Zones : /\ \A i \in 1 .. n : configs[i] # 0
                            /\ n < Zones => configs[n + 1] = 0

\* What RomSearch promises when the sensors of s are attached.
IsSearchResult(d, s) ==
  /\ Entries(d) \subseteq s
  /\ \A i, j \in DOMAIN d : i < j => d[i] < d[j]
  /\ \A x \in s \ Entries(d) : Len(d) = Zones /\ \A i \in DOMAIN d : d[i] < x

\* Faulty: the sensors are appended without comparing the numbers.
AppendAlways(d) == d # << >>

\* Only one more device than valid entries starts Append_new_sensors_id.
MayAppend(d) == Len(d) = Get_valid_sensors_num + 1

Found(d) ==
  /\ pc = "search"
  /\ devices' = d /\ k' = 1 /\ skip' = {}
  /\ pc' = IF MayAppend(d) THEN "append" ELSE "measure"
  /\ UNCHANGED <<table, saving, rows, known, lost>>

Search ==
  \E s \in SUBSET World, n \in 0 .. Zones : \E d \in [1 .. n -> s] :
    IsSearchResult(d, s) /\ Found(d) /\ UNCHANGED upset

\* A search that a disturbance made fail, or repeat an id or an empty one.
SearchDisturbed ==
  \E n \in 0 .. Zones : \E d \in [1 .. n -> World \cup {0}] :
    Found(d) /\ Trouble("bus")

\* Faulty: the comparison ends one entry too early.
MatchesShort(i) ==
  /\ i \in Slots \ skip /\ i < Get_valid_sensors_num /\ configs[i] = devices[k]
  /\ \A j \in 1 .. i - 1 : j \in skip \/ configs[j] \notin {0, devices[k]}

\* The entry that stops the comparison has the id of device k.
Matches(i) ==
  /\ i \in Slots \ skip /\ configs[i] # 0 /\ configs[i] = devices[k]
  /\ \A j \in 1 .. i - 1 : j \in skip \/ configs[j] \notin {0, devices[k]}

\* Faulty: the last valid entry is taken for the first free one.
SlotBefore == IF Get_valid_sensors_num = 0 THEN 1 ELSE Get_valid_sensors_num

\* Where a new id is written, whatever was written there before.
NewSlot == Get_valid_sensors_num + 1

\* Faulty: the settings are not saved.
StoreUnsaved == ids' = [ids EXCEPT ![NewSlot] = devices[k]] /\ UNCHANGED pend

Store == ids' = [ids EXCEPT ![NewSlot] = devices[k]] /\ pend' = TRUE

Append_known ==
  /\ pc = "append" /\ k <= Len(devices)
  /\ \E i \in Slots : Matches(i) /\ skip' = skip \cup {i}
  /\ k' = k + 1
  /\ UNCHANGED <<table, saving, devices, pc, rows, past>>

Append_new ==
  /\ pc = "append" /\ k <= Len(devices)
  /\ ~ \E i \in Slots : Matches(i)
  /\ Store
  /\ k' = k + 1
  /\ UNCHANGED <<configs, file, written, devices, skip, pc, rows, past>>

Append_ends ==
  /\ pc = "append" /\ k > Len(devices)
  /\ pc' = "measure" /\ k' = 1 /\ skip' = {}
  /\ UNCHANGED <<table, saving, devices, rows, past>>

Append_new_sensors_id == Append_known \/ Append_new \/ Append_ends

\* Faulty: without a valid sensor no event is set.
CycleSilent == ready' = IF Get_valid_sensors_num > 0 THEN TRUE ELSE ready

CycleEnds == ready' = TRUE

\* DS1820_ReadTemperature for the next of the valid sensors, then the event.
Measure ==
  /\ pc = "measure"
  /\ IF sensor <= Get_valid_sensors_num
       THEN sensor' = sensor + 1 /\ UNCHANGED ready
       ELSE sensor' = 1 /\ CycleEnds
  /\ UNCHANGED <<table, saving, search, pc, logger, past>>

-------------------------------------------------------------------------------
(* MZTS_task: one row per event, until a file operation fails               *)

Wait_for_app_event ==
  /\ logger = "wait" /\ ready
  /\ ready' = FALSE /\ logger' = "open"
  /\ UNCHANGED <<table, saving, search, pc, sensor, past>>

WriteRow ==
  /\ logger = "open" /\ logger' = "row"
  /\ UNCHANGED <<table, saving, search, pc, sensor, ready, past>>

CloseRow ==
  /\ logger = "row" /\ logger' = "wait"
  /\ UNCHANGED <<table, saving, search, pc, sensor, ready, past>>

\* fopen or fclose fails.
RowFails ==
  /\ logger \in {"open", "row"} /\ logger' = "stopped"
  /\ UNCHANGED <<table, saving, search, pc, sensor, ready, past>>

MZTS_task == Wait_for_app_event \/ WriteRow \/ CloseRow

-------------------------------------------------------------------------------
(* Save_Params_to_file, called by the file task or by the menu editor       *)

\* fopen "w+" empties the file.
SaveBegins ==
  /\ pc # "restore" /\ pend /\ written = 0
  /\ pend' = FALSE
  /\ file' = Empty /\ written' = 1
  /\ UNCHANGED <<table, search, pc, rows, past>>

SaveFails ==
  /\ pc # "restore" /\ pend /\ written = 0
  /\ pend' = FALSE
  /\ Trouble("card")
  /\ UNCHANGED <<table, file, written, search, pc, rows, known, lost>>

SaveWrites ==
  /\ written \in Slots
  /\ file' = [file EXCEPT ![written] = ids[written]]
  /\ written' = IF written = Zones THEN 0 ELSE written + 1
  /\ UNCHANGED <<table, pend, search, pc, rows, past>>

SaveBreaks ==
  /\ written \in Slots
  /\ written' = 0
  /\ Trouble("card")
  /\ UNCHANGED <<table, file, pend, search, pc, rows, known, lost>>

Save_Params_to_file == SaveBegins \/ SaveFails \/ SaveWrites \/ SaveBreaks

\* The user types or clears an id in the menu, which saves.
Edit_func(i, x) ==
  /\ pc = "measure" /\ ~pend /\ written = 0
  /\ ids' = [ids EXCEPT ![i] = x]
  /\ file' = Empty /\ written' = 1
  /\ Trouble("user")
  /\ UNCHANGED <<configs, pend, search, pc, rows, known, lost>>

\* What a save was writing stays as far as entry n.
CutOff(n) ==
  /\ file' = [i \in Slots |-> IF i <= n THEN file[i] ELSE 0]
  /\ lost' = lost \cup (known \cap {ids[i] : i \in n + 1 .. Zones})

\* A reset or a power cut at any moment.  In the middle of a save, whose file
\* was emptied when it was opened, none, some or all of the entries written so
\* far have reached the card.
Reset ==
  /\ pc # "restore" /\ pc' = "restore"
  /\ ids' = Empty /\ configs' = Empty /\ pend' = FALSE /\ written' = 0
  /\ devices' = << >> /\ k' = 1 /\ skip' = {}
  /\ sensor' = 1 /\ ready' = FALSE /\ logger' = "wait"
  /\ IF written > 0
       THEN \E n \in 0 .. written - 1 : CutOff(n)
       ELSE UNCHANGED <<file, lost>>
  /\ UNCHANGED <<known, upset>>

Next ==
  \/ Restore \/ RestoreFails \/ Init_sensors_config
  \/ Search \/ SearchDisturbed \/ Append_new_sensors_id \/ Measure
  \/ MZTS_task \/ RowFails
  \/ Save_Params_to_file
  \/ \E i \in Slots, x \in World \cup {0} : Edit_func(i, x)
  \/ Reset

Spec == Init /\ [][Next]_vars

\* Both tasks go on as long as a conversion on the bus and a write end.
FairSpec == Spec /\ WF_vars(Measure) /\ WF_vars(MZTS_task)

-------------------------------------------------------------------------------
\* Types: whenever Append_new_sensors_id runs there is a free slot, so the
\* strcpy at line 152 of MZTS_task.c stays inside sensor_ids.
TypeOK ==
  /\ {file, ids, configs} \subseteq [Slots -> World \cup {0}]
  /\ pend \in BOOLEAN /\ written \in 0 .. Zones
  /\ devices \in Seq(World \cup {0}) /\ Len(devices) <= Zones
  /\ k \in 1 .. Zones + 1 /\ skip \subseteq Slots
  /\ pc \in {"restore", "config", "search", "append", "measure"}
  /\ sensor \in 1 .. Zones + 1 /\ ready \in BOOLEAN
  /\ logger \in {"wait", "open", "row", "stopped"}
  /\ known \subseteq World /\ lost \subseteq World /\ upset \subseteq {"card", "bus", "user"}
  /\ pc = "append" => NewSlot \in Slots

\* An id once recognised stays in the settings over all resets and searches,
\* disturbed ones too, while the card works and the user edits none: a new
\* sensor never takes the place of a known one (line 152 of MZTS_task.c).  The
\* parameter file is rewritten in place (line 967 of Parameters.c): a reset in
\* the middle of a save does lose the ids that had not reached the card, and only
\* these, until they are found and saved again.
KnownKept ==
  upset \cap {"card", "user"} = {} =>
    known \ lost \subseteq Entries(IF pc = "restore" THEN file ELSE ids)

\* When the one more device is the only new one, its id is the next valid
\* entry once the appending is over, and it reaches the file unless the card
\* fails (lines 147-153 of MZTS_task.c, line 587 of App_logger.c).
NewSensorAdded ==
  LET new == Entries(devices) \ Entries(configs) IN
  /\ pc = "measure" /\ upset \cap {"bus", "user"} = {}
  /\ Len(devices) = Get_valid_sensors_num + 1
  => \A x \in new : new = {x} =>
       /\ ids[NewSlot] = x
       /\ \/ file[NewSlot] = x \/ pend \/ written \in 1 .. NewSlot
          \/ "card" \in upset

\* No sensor is in the settings twice, unless the user made a gap or the search
\* repeated it (the comparison at lines 121-146 of MZTS_task.c).
NoDuplicates ==
  upset \cap {"bus", "user"} = {} =>
    \A i, j \in Slots : i # j /\ ids[i] = ids[j] => ids[i] = 0

\* Once the search is over rows keep being written, with no sensor at all too,
\* unless the device is reset or a file operation ended MZTS_task
\* (lines 797 of MZTS_DS1Wire.c and 264-300 of MZTS_task.c).
RowsKeepComing ==
  (pc = "measure") ~> (logger \in {"row", "stopped"} \/ pc = "restore")
===============================================================================
