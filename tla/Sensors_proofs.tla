----------------------------- MODULE Sensors_proofs ----------------------------
(***************************************************************************)
(* Theorems about the table of sensor ids, for any number of zones, of     *)
(* sensors and of troubles: its type correctness, with the free slot for   *)
(* the strcpy of a new id, that a known sensor keeps its place, that a new *)
(* one gets its own, and that the settings reach the file.                 *)
(***************************************************************************)
EXTENDS Sensors, SequenceTheorems, WellFoundedInduction, TLAPS

(* A table of ids.                                                          *)
Table == [Slots -> World \cup {0}]

(* The CHOOSE of Get_valid_sensors_num has a value: the least m such that   *)
(* the entry after m is empty, or that is Zones.                            *)
LEMMA ValidNumber ==
  ASSUME configs \in Table
  PROVE  /\ Get_valid_sensors_num \in 0 .. Zones
         /\ \A i \in 1 .. Get_valid_sensors_num : configs[i] # 0
         /\ Get_valid_sensors_num < Zones => configs[Get_valid_sensors_num + 1] = 0
  <1> DEFINE E == {m \in Nat : m <= Zones /\ (m < Zones => configs[m + 1] = 0)}
             P(n) == /\ \A i \in 1 .. n : configs[i] # 0
                     /\ n < Zones => configs[n + 1] = 0
  <1>1. Zones \in E /\ E \subseteq Nat
    BY SizeAssumption
  <1>2. PICK n \in E : \A m \in E : ~ (<<m, n>> \in OpToRel(<, Nat))
    BY <1>1, NatLessThanWellFounded, WFMin
  <1>3. \A m \in E : ~ (m < n)
    BY <1>1, <1>2 DEF OpToRel
  <1>4. n \in 0 .. Zones /\ (n < Zones => configs[n + 1] = 0)
    BY SizeAssumption
  <1>5. ASSUME NEW i \in 1 .. n PROVE configs[i] # 0
    <2>1. i - 1 \in Nat /\ i - 1 < n /\ i - 1 < Zones /\ i - 1 <= Zones /\ (i - 1) + 1 = i
      BY <1>4, SizeAssumption
    <2>2. i - 1 \notin E
      BY <1>3, <2>1
    <2> QED
      BY <2>1, <2>2
  <1>6. \E m \in 0 .. Zones : P(m)
    BY <1>4, <1>5
  <1>7. Get_valid_sensors_num = CHOOSE m \in 0 .. Zones : P(m)
    BY DEF Get_valid_sensors_num
  <1> HIDE DEF P
  <1>8. Get_valid_sensors_num \in 0 .. Zones /\ P(Get_valid_sensors_num)
    BY <1>6, <1>7
  <1> QED
    BY <1>8 DEF P

(* It depends on sensor_configs alone.                                      *)
LEMMA SameNumber ==
  ASSUME UNCHANGED configs
  PROVE  Get_valid_sensors_num' = Get_valid_sensors_num /\ NewSlot' = NewSlot
  BY DEF Get_valid_sensors_num, NewSlot

(* The free slot: behind the valid entries and empty.                       *)
LEMMA FreeSlot ==
  ASSUME configs \in Table, NewSlot \in Slots
  PROVE  configs[NewSlot] = 0 /\ \A i \in Slots : i < NewSlot => configs[i] # 0
  BY ValidNumber, SizeAssumption DEF NewSlot, Slots

-------------------------------------------------------------------------------
(* Type correctness is inductive: the start of the firmware keeps it, ...   *)
LEMMA StartTypes ==
  ASSUME TypeOK, Restore \/ RestoreFails \/ Init_sensors_config
  PROVE  TypeOK'
  <1> USE DEF TypeOK
  <1>1. Empty \in [Slots -> World \cup {0}]
    BY DEF Empty
  <1>2. CASE Restore
    BY <1>2 DEF Restore, saving, search, rows, past
  <1>3. CASE RestoreFails
    BY <1>1, <1>3, SizeAssumption DEF RestoreFails, Trouble, search, rows
  <1>4. CASE Init_sensors_config
    <2>1. known' \subseteq World /\ lost' \subseteq World
      BY <1>4 DEF Init_sensors_config, Entries
    <2> QED
      BY <1>4, <2>1 DEF Init_sensors_config, saving, search, rows
  <1> QED
    BY <1>2, <1>3, <1>4

(* ... a search leaves a free slot when something is to be appended, ...    *)
LEMMA SearchTypes ==
  ASSUME TypeOK, Search \/ SearchDisturbed
  PROVE  TypeOK'
  <1> USE DEF TypeOK
  <1>1. PICK d : /\ Found(d) /\ upset' \subseteq {"card", "bus", "user"}
                 /\ \E n \in 0 .. Zones : d \in [1 .. n -> World \cup {0}]
    <2>1. CASE Search
      <3>1. PICK s \in SUBSET World, n \in 0 .. Zones :
              \E d \in [1 .. n -> s] : Found(d) /\ UNCHANGED upset
        BY <2>1 DEF Search
      <3>2. \A d \in [1 .. n -> s] : d \in [1 .. n -> World \cup {0}]
        OBVIOUS
      <3> QED
        BY <3>1, <3>2
    <2>2. CASE SearchDisturbed
      BY <2>2 DEF SearchDisturbed, Trouble
    <2> QED
      BY <2>1, <2>2
  <1>2. d \in Seq(World \cup {0}) /\ Len(d) <= Zones /\ Len(d) \in Nat
    <2>1. PICK n \in 0 .. Zones : d \in [1 .. n -> World \cup {0}]
      BY <1>1
    <2>2. d \in Seq(World \cup {0})
      BY <2>1, SeqDef
    <2>3. DOMAIN d = 1 .. n /\ DOMAIN d = 1 .. Len(d) /\ Len(d) \in Nat
      BY <2>1, <2>2, LenProperties
    <2>4. Len(d) = n
      BY <2>3, SizeAssumption
    <2> QED
      BY <2>2, <2>4, SizeAssumption
  <1>3. pc' = "append" => NewSlot' \in Slots
    <2>1. SUFFICES ASSUME pc' = "append" PROVE NewSlot' \in Slots
      OBVIOUS
    <2>2. Len(d) = Get_valid_sensors_num + 1 /\ UNCHANGED configs
      BY <1>1, <2>1 DEF Found, MayAppend, table
    <2>3. Get_valid_sensors_num \in 0 .. Zones
      BY ValidNumber DEF Table
    <2> QED
      BY <1>2, <2>2, <2>3, SameNumber, SizeAssumption DEF NewSlot, Slots
  <1> QED
    BY <1>1, <1>2, <1>3, SizeAssumption DEF Found, table, saving, rows

(* ... the appending writes into it, ...                                    *)
LEMMA AppendTypes ==
  ASSUME TypeOK, Append_new_sensors_id
  PROVE  TypeOK'
  <1> USE DEF TypeOK
  <1>1. CASE Append_known
    <2>1. k' \in 1 .. Zones + 1 /\ skip' \subseteq Slots
      BY <1>1, SizeAssumption, LenProperties DEF Append_known, Matches
    <2>2. UNCHANGED configs /\ pc' = "append" /\ pc = "append"
      BY <1>1 DEF Append_known, table
    <2>3. NewSlot' \in Slots
      BY <2>2, SameNumber
    <2> QED
      BY <1>1, <2>1, <2>3 DEF Append_known, table, saving, rows, past
  <1>2. CASE Append_new
    <2>1. k' \in 1 .. Zones + 1 /\ devices[k] \in World \cup {0}
      BY <1>2, SizeAssumption, LenProperties, ElementOfSeq DEF Append_new
    <2>2. UNCHANGED configs /\ pc' = "append" /\ pc = "append"
      BY <1>2 DEF Append_new
    <2>3. NewSlot' \in Slots
      BY <2>2, SameNumber
    <2>4. ids' \in [Slots -> World \cup {0}] /\ pend' \in BOOLEAN
      BY <1>2, <2>1 DEF Append_new, Store
    <2> QED
      BY <1>2, <2>1, <2>3, <2>4 DEF Append_new, rows, past
  <1>3. CASE Append_ends
    BY <1>3, SizeAssumption DEF Append_ends, table, saving, rows, past
  <1> QED
    BY <1>1, <1>2, <1>3 DEF Append_new_sensors_id

(* ... the cycle counts the valid sensors, rows are written, ...            *)
LEMMA CycleTypes ==
  ASSUME TypeOK, Measure \/ MZTS_task \/ RowFails
  PROVE  TypeOK'
  <1> USE DEF TypeOK
  <1>1. UNCHANGED <<table, saving, search, pc, past>>
    BY DEF Measure, MZTS_task, RowFails, Wait_for_app_event, WriteRow, CloseRow
  <1>2. pc' = "append" => NewSlot' \in Slots
    BY <1>1, SameNumber DEF table
  <1>3. CASE Measure
    <2>1. Get_valid_sensors_num \in 0 .. Zones
      BY ValidNumber DEF Table
    <2>2. CASE sensor <= Get_valid_sensors_num
      <3>1. sensor' = sensor + 1 /\ UNCHANGED <<ready, logger>>
        BY <1>3, <2>2 DEF Measure
      <3>2. sensor' \in 1 .. Zones + 1
        BY <2>1, <2>2, <3>1, SizeAssumption
      <3> QED
        BY <1>1, <1>2, <3>1, <3>2 DEF table, saving, search, past
    <2>3. CASE ~(sensor <= Get_valid_sensors_num)
      <3>1. sensor' = 1 /\ ready' = TRUE /\ UNCHANGED logger
        BY <1>3, <2>3 DEF Measure, CycleEnds
      <3>2. sensor' \in 1 .. Zones + 1
        BY <3>1, SizeAssumption
      <3> QED
        BY <1>1, <1>2, <3>1, <3>2 DEF table, saving, search, past
    <2> QED
      BY <2>2, <2>3
  <1>4. CASE MZTS_task \/ RowFails
    <2>1. /\ sensor' = sensor /\ ready' \in BOOLEAN
          /\ logger' \in {"wait", "open", "row", "stopped"}
      BY <1>4 DEF MZTS_task, RowFails, Wait_for_app_event, WriteRow, CloseRow
    <2> QED
      BY <1>1, <1>2, <2>1 DEF table, saving, search, past
  <1> QED
    BY <1>3, <1>4

(* ... and the saves, the editor and a reset keep the tables.               *)
LEMMA SaveTypes ==
  ASSUME TypeOK,
         \/ Save_Params_to_file \/ Reset
         \/ \E i \in Slots, x \in World \cup {0} : Edit_func(i, x)
  PROVE  TypeOK'
  <1> USE DEF TypeOK
  <1>1. Empty \in [Slots -> World \cup {0}]
    BY DEF Empty
  <1>2. CASE Save_Params_to_file
    <2>1. UNCHANGED <<table, search, pc, rows, known, lost>>
      BY <1>2 DEF Save_Params_to_file, SaveBegins, SaveFails, SaveWrites, SaveBreaks, past
    <2>2. pc' = "append" => NewSlot' \in Slots
      BY <2>1, SameNumber DEF table
    <2>3. file' \in [Slots -> World \cup {0}] /\ pend' \in BOOLEAN
      BY <1>1, <1>2 DEF Save_Params_to_file, SaveBegins, SaveFails, SaveWrites, SaveBreaks
    <2>4. written' \in 0 .. Zones
      BY <1>2, SizeAssumption
         DEF Save_Params_to_file, SaveBegins, SaveFails, SaveWrites, SaveBreaks, Slots
    <2>5. upset' \subseteq {"card", "bus", "user"}
      BY <1>2 DEF Save_Params_to_file, SaveBegins, SaveFails, SaveWrites, SaveBreaks,
                  past, Trouble
    <2> QED
      BY <2>1, <2>2, <2>3, <2>4, <2>5 DEF table, search, rows
  <1>3. CASE Reset
    <2>1. file' \in [Slots -> World \cup {0}] /\ lost' \subseteq World
      BY <1>3 DEF Reset, CutOff
    <2>2. devices' \in Seq(World \cup {0}) /\ Len(devices') <= Zones
      BY <1>3, EmptySeq, SizeAssumption DEF Reset
    <2>3. 1 \in 1 .. Zones + 1 /\ 0 \in 0 .. Zones
      BY SizeAssumption
    <2> QED
      BY <1>1, <1>3, <2>1, <2>2, <2>3 DEF Reset
  <1>4. ASSUME NEW i \in Slots, NEW x \in World \cup {0}, Edit_func(i, x) PROVE TypeOK'
    <2>1. ids' \in [Slots -> World \cup {0}] /\ pc' # "append"
      BY <1>4 DEF Edit_func
    <2>2. written' \in 0 .. Zones
      BY <1>4, SizeAssumption DEF Edit_func
    <2> QED
      BY <1>1, <1>4, <2>1, <2>2 DEF Edit_func, Trouble, search, rows
  <1> QED
    BY <1>2, <1>3, <1>4

(* For any number of zones and of sensors the strcpy at line 152 of         *)
(* MZTS_task.c writes inside sensor_ids, and so does every other access.    *)
THEOREM TypeCorrect == Spec => []TypeOK
  <1>1. Init => TypeOK
    <2> SUFFICES ASSUME Init PROVE TypeOK
      OBVIOUS
    <2>1. Empty \in [Slots -> World \cup {0}] /\ 0 \in 0 .. Zones /\ 1 \in 1 .. Zones + 1
      BY SizeAssumption DEF Empty
    <2>2. devices \in Seq(World \cup {0}) /\ Len(devices) <= Zones
      BY EmptySeq, SizeAssumption DEF Init
    <2> QED
      BY <2>1, <2>2 DEF Init, TypeOK
  <1>2. TypeOK /\ [Next]_vars => TypeOK'
    <2> SUFFICES ASSUME TypeOK, [Next]_vars PROVE TypeOK'
      OBVIOUS
    <2>1. CASE UNCHANGED vars
      <3>1. pc' = "append" => NewSlot' \in Slots
        BY <2>1, SameNumber DEF vars, table, TypeOK
      <3> QED
        BY <2>1, <3>1 DEF TypeOK, vars, table, saving, search, rows, past
    <2> QED
      BY <2>1, StartTypes, SearchTypes, AppendTypes, CycleTypes, SaveTypes DEF Next
  <1> QED
    BY <1>1, <1>2, PTL DEF Spec

-------------------------------------------------------------------------------
(* Why a known sensor is kept: while the tasks run the settings still have  *)
(* every id they were started with, in its place, and so has the part of    *)
(* the file that is written.  Nothing is to be saved before they run.       *)
Running == pc \in {"search", "append", "measure"}

Unsaved == ~Running => ~pend

Written(i) == written = 0 \/ i < written

Kept ==
  upset \cap {"card", "user"} = {} =>
    /\ pc = "restore" => known \ lost \subseteq Entries(file) /\ written = 0
    /\ pc = "config" => known \ lost \subseteq Entries(ids) /\ ids = file /\ written = 0
    /\ Running =>
         /\ known \ lost \subseteq Entries(configs)
         /\ \A i \in Slots : configs[i] # 0 =>
              ids[i] = configs[i] /\ (Written(i) => file[i] = configs[i])

(* An entry of a table has a slot, and a known id is not 0.                 *)
LEMMA EntryFacts ==
  ASSUME TypeOK
  PROVE  /\ DOMAIN file = Slots /\ DOMAIN ids = Slots /\ DOMAIN configs = Slots
         /\ 0 \notin known
  BY DEF TypeOK, World

(* The start, the search and the appending keep the places.                 *)
LEMMA StartKeeps ==
  ASSUME TypeOK, Unsaved, Kept, Restore \/ RestoreFails \/ Init_sensors_config
  PROVE  Kept' /\ Unsaved'
  <1> USE DEF Kept, Unsaved, Running
  <1>1. CASE Restore
    BY <1>1 DEF Restore, saving, past
  <1>2. CASE RestoreFails
    BY <1>2 DEF RestoreFails, Trouble
  <1>3. CASE Init_sensors_config
    <2>1. Entries(ids)' = Entries(ids) /\ configs' = ids /\ UNCHANGED <<ids, file, written, pend, upset>>
          /\ pc = "config" /\ pc' = "search"
      BY <1>3 DEF Init_sensors_config, saving, Entries
    <2>2. Entries(configs)' = Entries(ids)
      BY <2>1 DEF Entries
    <2>3. ASSUME upset' \cap {"card", "user"} = {} PROVE known' \ lost' \subseteq Entries(ids)
      BY <1>3, <2>1, <2>3 DEF Init_sensors_config
    <2> QED
      BY <2>1, <2>2, <2>3
  <1> QED
    BY <1>1, <1>2, <1>3

(* Only the free slot is written.                                           *)
LEMMA AppendKeeps ==
  ASSUME TypeOK, Unsaved, Kept, Search \/ SearchDisturbed \/ Append_new_sensors_id
  PROVE  Kept' /\ Unsaved'
  <1> USE DEF Kept, Unsaved, Running, Written
  <1>1. CASE Append_new
    <2>1. /\ NewSlot \in Slots /\ configs[NewSlot] = 0
          /\ ids' = [ids EXCEPT ![NewSlot] = devices[k]]
          /\ pc = "append" /\ pc' = "append"
          /\ UNCHANGED <<configs, file, written, known, lost, upset>>
      BY <1>1, FreeSlot DEF Append_new, Store, TypeOK, Table, past
    <2>2. Entries(configs)' = Entries(configs)
      BY <2>1 DEF Entries
    <2>3. \A i \in Slots : configs[i] # 0 => ids'[i] = ids[i]
      BY <2>1 DEF TypeOK
    <2> QED
      BY <2>1, <2>2, <2>3
  <1>2. CASE ~Append_new
    <2>1. /\ UNCHANGED <<table, saving, known, lost>> /\ Running /\ Running'
          /\ upset \subseteq upset'
      BY <1>2 DEF Search, SearchDisturbed, Found, Trouble, Append_new_sensors_id,
                  Append_known, Append_ends, past
    <2>2. Entries(configs)' = Entries(configs)
      BY <2>1 DEF Entries, table
    <2>3. upset' \cap {"card", "user"} = {} => upset \cap {"card", "user"} = {}
      BY <2>1
    <2> QED
      BY <2>1, <2>2, <2>3 DEF table, saving
  <1> QED
    BY <1>1, <1>2

(* A save rewrites the file from the first entry on.                        *)
LEMMA SaveKeeps ==
  ASSUME TypeOK, Unsaved, Kept, Save_Params_to_file
  PROVE  Kept' /\ Unsaved'
  <1> USE DEF Kept, Unsaved, Running, Written
  <1>1. CASE SaveFails \/ SaveBreaks
    BY <1>1 DEF SaveFails, SaveBreaks, Trouble, table
  <1>2. CASE SaveBegins
    <2>1. Running /\ Running' /\ written' = 1 /\ UNCHANGED <<ids, configs, known, lost, upset>>
      BY <1>2 DEF SaveBegins, TypeOK, table, past
    <2>2. Entries(configs)' = Entries(configs)
      BY <2>1 DEF Entries
    <2>3. \A i \in Slots : ~ Written(i)'
      BY <2>1 DEF Slots
    <2> QED
      BY <2>1, <2>2, <2>3
  <1>3. CASE SaveWrites
    <2>1. /\ written \in Slots /\ file' = [file EXCEPT ![written] = ids[written]]
          /\ written' = IF written = Zones THEN 0 ELSE written + 1
          /\ UNCHANGED <<ids, configs, known, lost, upset, pc, pend>>
      BY <1>3 DEF SaveWrites, table, past
    <2>2. Entries(configs)' = Entries(configs)
      BY <2>1 DEF Entries
    <2>3. \A i \in Slots : Written(i)' => i = written \/ Written(i)
      BY <2>1, SizeAssumption DEF Slots
    <2>4. \A i \in Slots : file'[i] = IF i = written THEN ids[i] ELSE file[i]
      BY <2>1 DEF TypeOK
    <2>5. written # 0
      BY <2>1 DEF Slots
    <2> HIDE DEF Written
    <2> QED
      BY <2>1, <2>2, <2>3, <2>4, <2>5
  <1> QED
    BY <1>1, <1>2, <1>3 DEF Save_Params_to_file

(* A reset finds every known id in the file, in the middle of a save those  *)
(* that it wrote.                                                           *)
LEMMA ResetKeeps ==
  ASSUME TypeOK, Kept, Reset
  PROVE  Kept' /\ Unsaved'
  <1> USE DEF Kept, Unsaved, Running
  <1>1. pc' = "restore" /\ pend' = FALSE /\ written' = 0 /\ UNCHANGED <<known, upset>>
        /\ pc # "restore"
    BY DEF Reset
  <1>2. SUFFICES ASSUME upset \cap {"card", "user"} = {}
                 PROVE  known \ lost' \subseteq Entries(file')
    BY <1>1 DEF Entries
  <1>3. /\ written \in 0 .. Zones /\ Zones \in Nat
        /\ written = 0 => UNCHANGED <<file, lost>>
        /\ written > 0 => \E n \in 0 .. written - 1 : CutOff(n)
    BY SizeAssumption DEF Reset, TypeOK
  <1>4. CASE pc = "config"
    BY <1>2, <1>3, <1>4
  <1>5. CASE Running
    <2>1. /\ known \ lost \subseteq Entries(configs)
          /\ \A i \in Slots : configs[i] # 0 =>
               ids[i] = configs[i] /\ (Written(i) => file[i] = configs[i])
      BY <1>2, <1>5
    <2>2. ASSUME NEW x \in known \ lost' PROVE x \in Entries(file')
      <3>1. CASE written = 0
        <4>1. x \in known \ lost /\ file' = file
          BY <1>3, <2>2, <3>1
        <4>2. PICK i \in Slots : x = configs[i]
          BY <2>1, <4>1, EntryFacts DEF Entries
        <4>3. x = file[i]
          BY <2>1, <3>1, <4>1, <4>2, EntryFacts DEF Written
        <4> QED
          BY <4>1, <4>3, EntryFacts DEF Entries
      <3>2. CASE written > 0
        <4>1. PICK n \in 0 .. written - 1 : CutOff(n)
          BY <1>3, <3>2
        <4>2. /\ file' = [i \in Slots |-> IF i <= n THEN file[i] ELSE 0]
              /\ lost' = lost \cup (known \cap {ids[i] : i \in n + 1 .. Zones})
          BY <4>1 DEF CutOff
        <4>3. x \in known \ lost
          BY <2>2, <4>2
        <4>4. PICK i \in Slots : x = configs[i]
          BY <2>1, <4>3, EntryFacts DEF Entries
        <4>5. configs[i] # 0
          BY <4>3, <4>4, EntryFacts
        <4>6. x = ids[i] /\ (Written(i) => file[i] = x)
          BY <2>1, <4>4, <4>5
        <4>7. i \notin n + 1 .. Zones
          BY <2>2, <4>2, <4>3, <4>6
        <4>8. i <= n /\ i < written
          BY <1>3, <4>7 DEF Slots
        <4>9. file'[i] = x /\ DOMAIN file' = Slots
          BY <4>2, <4>6, <4>8 DEF Written
        <4> QED
          BY <4>9 DEF Entries
      <3> QED
        BY <1>3, <3>1, <3>2
    <2> QED
      BY <2>2
  <1> QED
    BY <1>1, <1>4, <1>5 DEF TypeOK

(* A sensor once recognised stays in the settings, or in the file while the *)
(* device restarts, through all searches, saves and resets, for any number  *)
(* of zones and sensors, as long as the card works and the user edits no id *)
(* (line 152 of MZTS_task.c writes behind the known ones); a reset in the   *)
(* middle of a save takes away the ids not yet on the card and no other     *)
(* (line 967 of Parameters.c), until they are found and saved again.        *)
THEOREM KnownStays == Spec => []KnownKept
  <1>1. Init => Kept /\ Unsaved
    BY DEF Init, Kept, Unsaved, Running
  <1>2. TypeOK /\ Unsaved /\ Kept /\ [Next]_vars => (Kept /\ Unsaved)'
    <2> SUFFICES ASSUME TypeOK, Unsaved, Kept, [Next]_vars PROVE (Kept /\ Unsaved)'
      OBVIOUS
    <2>1. CASE UNCHANGED <<table, saving, pc, past>>
      BY <2>1 DEF Kept, Unsaved, Running, Written, Entries, table, saving, past
    <2>2. CASE \E i \in Slots, x \in World \cup {0} : Edit_func(i, x)
      BY <2>2 DEF Edit_func, Kept, Unsaved, Running, Trouble
    <2>3. CASE Measure \/ MZTS_task \/ RowFails \/ UNCHANGED vars
      BY <2>1, <2>3 DEF Measure, MZTS_task, RowFails, Wait_for_app_event, WriteRow,
                        CloseRow, vars
    <2> QED
      BY <2>2, <2>3, StartKeeps, AppendKeeps, SaveKeeps, ResetKeeps DEF Next
  <1>3. TypeOK /\ Kept => KnownKept
    <2> SUFFICES ASSUME TypeOK, Kept, upset \cap {"card", "user"} = {}
                 PROVE  known \ lost \subseteq Entries(IF pc = "restore" THEN file ELSE ids)
      BY DEF KnownKept
    <2>1. CASE ~Running
      BY <2>1 DEF Kept, Running, TypeOK
    <2>2. CASE Running
      <3>1. ASSUME NEW x \in known \ lost PROVE x \in Entries(ids)
        <4>1. PICK i \in Slots : x = configs[i]
          BY <2>2, EntryFacts DEF Kept, Entries
        <4>2. x = ids[i]
          BY <2>2, <4>1, EntryFacts DEF Kept
        <4> QED
          BY <4>2, EntryFacts DEF Entries
      <3> QED
        BY <2>2, <3>1 DEF Running
    <2> QED
      BY <2>1, <2>2
  <1> QED
    BY <1>1, <1>2, <1>3, TypeCorrect, PTL DEF Spec

-------------------------------------------------------------------------------
(* Why no sensor is in the settings twice.  A table is sound when its       *)
(* entries have no gap and none is there twice; the part of the file that   *)
(* is written, the entries below w, has no gap where configs has none.      *)
Clean == upset \cap {"bus", "user"} = {}

Sound(f) ==
  /\ \A i, j \in Slots : i < j /\ f[j] # 0 => f[i] # 0
  /\ \A i, j \in Slots : i # j /\ f[i] = f[j] => f[i] = 0

Prefix(w) ==
  /\ \A i \in Slots : i >= w => file[i] = 0
  /\ \A i \in Slots : i < w /\ configs[i] # 0 => file[i] # 0

Filled == \E w \in 1 .. Zones + 1 : Prefix(w) /\ (written # 0 => w = written)

(* An entry of the settings or of the file: the old one, or a new id in the *)
(* free slot.                                                               *)
OldOrNew(f) ==
  \A i \in Slots : f[i] # 0 =>
    f[i] = configs[i] \/ (i = NewSlot /\ f[i] \notin Entries(configs))

(* The devices of an undisturbed search, and the entries they matched.      *)
Listed ==
  Clean =>
    /\ pc = "append" \/ pc = "measure" =>
         /\ \A i, j \in DOMAIN devices : i < j => devices[i] # devices[j]
         /\ \A i \in DOMAIN devices : devices[i] # 0
    /\ pc = "append" =>
         \A i \in skip : \E j \in DOMAIN devices : j < k /\ configs[i] = devices[j]

Tables ==
  Clean =>
    /\ pc = "restore" => Sound(file) /\ ids = Empty /\ written = 0
    /\ pc = "config" => \/ Sound(file) /\ ids = file /\ written = 0
                        \/ \A i \in Slots : ids[i] = 0 /\ file[i] = 0
    /\ Running =>
         /\ Sound(configs) /\ OldOrNew(ids) /\ OldOrNew(file) /\ Filled
         /\ \A i \in Slots : configs[i] # 0 => ids[i] = configs[i]

(* Old and new entries over a sound table are all different.                *)
LEMMA OldOrNewDistinct ==
  ASSUME TypeOK, Sound(configs), NEW f \in Table, OldOrNew(f),
         NEW i \in Slots, NEW j \in Slots, i # j, f[i] = f[j]
  PROVE  f[i] = 0
  <1>1. SUFFICES ASSUME f[i] # 0 PROVE FALSE
    OBVIOUS
  <1>2. configs[i] \in Entries(configs) /\ configs[j] \in Entries(configs)
    BY EntryFacts DEF Entries
  <1>3. f[i] = configs[i] /\ f[j] = configs[j]
    BY <1>1, <1>2 DEF OldOrNew
  <1> QED
    BY <1>1, <1>3 DEF Sound

(* A file written up to w is sound.                                         *)
LEMMA FileSound ==
  ASSUME TypeOK, Sound(configs), OldOrNew(file), NEW w \in 1 .. Zones + 1, Prefix(w)
  PROVE  Sound(file)
  <1>1. file \in Table /\ configs \in Table
    BY DEF TypeOK, Table
  <1>2. ASSUME NEW i \in Slots, NEW j \in Slots, i < j, file[j] # 0 PROVE file[i] # 0
    <2>1. j < w /\ i < w
      BY <1>2 DEF Prefix, Slots
    <2>2. CASE configs[j] # 0
      BY <1>2, <2>1, <2>2 DEF Sound, Prefix
    <2>3. CASE configs[j] = 0
      <3>1. j = NewSlot
        BY <1>2, <2>3 DEF OldOrNew
      <3>2. configs[i] # 0
        BY <1>1, <1>2, <3>1, FreeSlot
      <3> QED
        BY <2>1, <3>2 DEF Prefix
    <2> QED
      BY <2>2, <2>3
  <1>3. ASSUME NEW i \in Slots, NEW j \in Slots, i # j, file[i] = file[j] PROVE file[i] = 0
    BY <1>1, <1>3, OldOrNewDistinct
  <1> QED
    BY <1>2, <1>3 DEF Sound

(* A device whose id is in a sound configs is recognised (lines 121-146 of  *)
(* MZTS_task.c), whatever entries earlier devices have matched.             *)
LEMMA Recognised ==
  ASSUME TypeOK, Sound(configs), Listed, Clean, pc = "append",
         k \in DOMAIN devices, devices[k] \in Entries(configs)
  PROVE  \E i \in Slots : Matches(i)
  <1>1. PICK i \in Slots : configs[i] = devices[k]
    BY EntryFacts DEF Entries
  <1>2. configs[i] # 0
    BY <1>1 DEF Listed
  <1>3. i \notin skip
    <2>1. SUFFICES ASSUME i \in skip PROVE FALSE
      OBVIOUS
    <2>2. PICK j \in DOMAIN devices : j < k /\ configs[i] = devices[j]
      BY <2>1 DEF Listed
    <2> QED
      BY <1>1, <2>2 DEF Listed
  <1>4. \A j \in 1 .. i - 1 : j \in Slots /\ j < i
    BY SizeAssumption DEF Slots
  <1>5. \A j \in 1 .. i - 1 : configs[j] \notin {0, devices[k]}
    BY <1>1, <1>2, <1>4 DEF Sound, Slots
  <1> QED
    BY <1>1, <1>2, <1>3, <1>5 DEF Matches

(* What does not change with configs.                                       *)
LEMMA SameTables ==
  ASSUME UNCHANGED configs
  PROVE  NewSlot' = NewSlot /\ Entries(configs)' = Entries(configs)
  BY SameNumber DEF Entries

(* The tables are sound when the tasks start: the settings are what the     *)
(* file holds, or empty.                                                    *)
LEMMA StartSound ==
  ASSUME TypeOK, Listed, Tables, Restore \/ RestoreFails \/ Init_sensors_config
  PROVE  Listed' /\ Tables'
  <1>1. Listed'
    BY DEF Restore, RestoreFails, Init_sensors_config, Listed
  <1>2. SUFFICES ASSUME Clean' PROVE Tables'
    BY <1>1 DEF Tables
  <1>3. Clean
    BY <1>2 DEF Clean, Restore, RestoreFails, Init_sensors_config, Trouble, past
  <1>4. CASE Restore
    BY <1>3, <1>4 DEF Restore, saving, Tables, Sound, Running
  <1>5. CASE RestoreFails
    BY <1>5 DEF RestoreFails, Tables, Running, Empty
  <1>6. CASE Init_sensors_config
    <2>1. /\ pc = "config" /\ pc' = "search" /\ written = 0 /\ configs' = ids
          /\ UNCHANGED <<ids, file, written>>
      BY <1>6 DEF Init_sensors_config, saving
    <2>2. /\ Sound(ids)
          /\ \A i \in Slots : file[i] # 0 => file[i] = ids[i]
          /\ \/ \A i \in Slots : file[i] = ids[i]
             \/ \A i \in Slots : file[i] = 0
      BY <1>3, <2>1 DEF Tables, Sound
    <2>3. Sound(configs)'
      BY <2>1, <2>2 DEF Sound
    <2>4. OldOrNew(ids)' /\ OldOrNew(file)'
      BY <2>1, <2>2 DEF OldOrNew
    <2>5. Filled'
      <3>1. CASE \A i \in Slots : file[i] = ids[i]
        <4>1. Prefix(Zones + 1)'
          BY <2>1, <3>1, SizeAssumption DEF Prefix, Slots
        <4> QED
          BY <2>1, <4>1, SizeAssumption DEF Filled
      <3>2. CASE \A i \in Slots : file[i] = 0
        <4>1. Prefix(1)'
          BY <2>1, <3>2, SizeAssumption DEF Prefix, Slots
        <4> QED
          BY <2>1, <4>1, SizeAssumption DEF Filled
      <3> QED
        BY <2>2, <3>1, <3>2
    <2> QED
      BY <2>1, <2>3, <2>4, <2>5 DEF Tables
  <1> QED
    BY <1>4, <1>5, <1>6

(* An undisturbed search lists every device once, ...                       *)
LEMMA SearchSound ==
  ASSUME TypeOK, Listed, Tables, Search \/ SearchDisturbed
  PROVE  Listed' /\ Tables'
  <1>1. UNCHANGED <<table, saving>> /\ pc = "search" /\ pc' \in {"append", "measure"}
    BY DEF Search, SearchDisturbed, Found
  <1>2. SUFFICES ASSUME Clean' PROVE Listed' /\ Tables'
    BY DEF Tables, Listed
  <1>3. Clean /\ Search
    BY <1>2 DEF Search, SearchDisturbed, Clean, Trouble
  <1>4. PICK s \in SUBSET World, n \in 0 .. Zones :
          \E d \in [1 .. n -> s] : IsSearchResult(d, s) /\ Found(d)
    BY <1>3 DEF Search
  <1>5. Listed'
    <2>1. /\ \A i, j \in DOMAIN devices' : i < j => devices'[i] < devices'[j]
          /\ \A i \in DOMAIN devices' : devices'[i] \in World
          /\ skip' = {}
      BY <1>4 DEF IsSearchResult, Found
    <2>2. \A x, y \in World : x < y => x # y
      BY DEF World
    <2>3. \A x \in World : x # 0
      BY DEF World
    <2> QED
      BY <2>1, <2>2, <2>3 DEF Listed
  <1>6. Tables'
    BY <1>1, <1>3, SameTables
       DEF Tables, Running, Sound, OldOrNew, Filled, Prefix, table, saving
  <1> QED
    BY <1>5, <1>6

(* ... and only one that is not recognised is written.                      *)
LEMMA AppendSound ==
  ASSUME TypeOK, Listed, Tables, Append_new_sensors_id
  PROVE  Listed' /\ Tables'
  <1>1. SUFFICES ASSUME Clean' PROVE Listed' /\ Tables'
    BY DEF Tables, Listed
  <1>2. Clean /\ pc = "append" /\ UNCHANGED <<configs, file, written, devices>>
    BY <1>1 DEF Append_new_sensors_id, Append_known, Append_new, Append_ends, Clean,
                table, saving, past
  <1>3. Sound(configs) /\ OldOrNew(ids) /\ OldOrNew(file) /\ Filled
    BY <1>2 DEF Tables, Running
  <1>4. DOMAIN devices = 1 .. Len(devices) /\ Len(devices) \in Nat /\ k \in Nat /\ k >= 1
    BY LenProperties, SizeAssumption DEF TypeOK
  <1>5. CASE Append_known
    <2>1. PICK i \in Slots : Matches(i) /\ skip' = skip \cup {i}
      BY <1>5 DEF Append_known
    <2>2. k' = k + 1 /\ k \in DOMAIN devices /\ UNCHANGED <<pc, ids>>
      BY <1>4, <1>5 DEF Append_known, table
    <2>3. \A j \in DOMAIN devices : j < k => j < k'
      BY <1>4, <2>2
    <2>4. k < k' /\ configs[i] = devices[k]
      BY <1>4, <2>1, <2>2 DEF Matches
    <2>5. \A m \in skip' : \E j \in DOMAIN devices : j < k' /\ configs[m] = devices[j]
      BY <1>2, <2>1, <2>2, <2>3, <2>4 DEF Listed
    <2>6. Listed'
      BY <1>2, <2>2, <2>5 DEF Listed
    <2>7. Tables'
      BY <1>2, <2>2, SameTables DEF Tables, Running, Sound, OldOrNew, Filled, Prefix
    <2> QED
      BY <2>6, <2>7
  <1>6. CASE Append_new
    <2>1. /\ k \in DOMAIN devices /\ k' = k + 1 /\ UNCHANGED <<pc, skip>>
          /\ ids' = [ids EXCEPT ![NewSlot] = devices[k]]
          /\ ~ \E i \in Slots : Matches(i)
      BY <1>4, <1>6 DEF Append_new, Store
    <2>2. NewSlot \in Slots /\ configs[NewSlot] = 0
      BY <1>2, FreeSlot DEF TypeOK, Table
    <2>3. devices[k] \notin Entries(configs)
      BY <1>2, <1>3, <2>1, Recognised
    <2>4. \A i \in Slots : ids'[i] = IF i = NewSlot THEN devices[k] ELSE ids[i]
      BY <2>1, <2>2 DEF TypeOK
    <2>5. OldOrNew(ids)'
      BY <1>2, <1>3, <2>3, <2>4, SameTables DEF OldOrNew
    <2>6. \A i \in Slots : configs[i] # 0 => ids'[i] = configs[i]
      BY <1>2, <2>2, <2>4 DEF Tables, Running
    <2>7. Tables'
      BY <1>2, <1>3, <2>1, <2>5, <2>6, SameTables
         DEF Tables, Running, Sound, OldOrNew, Filled, Prefix
    <2>8. \A j \in DOMAIN devices : j < k => j < k'
      BY <1>4, <2>1
    <2>9. Listed'
      BY <1>2, <2>1, <2>8 DEF Listed
    <2> QED
      BY <2>7, <2>9
  <1>7. CASE Append_ends
    <2>1. pc' = "measure" /\ UNCHANGED ids
      BY <1>7 DEF Append_ends, table
    <2>2. Listed'
      BY <1>2, <2>1 DEF Listed
    <2>3. Tables'
      BY <1>2, <2>1, SameTables DEF Tables, Running, Sound, OldOrNew, Filled, Prefix
    <2> QED
      BY <2>2, <2>3
  <1> QED
    BY <1>5, <1>6, <1>7 DEF Append_new_sensors_id

(* A save writes the file from the first entry on, ...                      *)
LEMMA SaveSound ==
  ASSUME TypeOK, Listed, Tables, Unsaved, Save_Params_to_file
  PROVE  Listed' /\ Tables'
  <1>1. UNCHANGED <<table, search, pc>>
    BY DEF Save_Params_to_file, SaveBegins, SaveFails, SaveWrites, SaveBreaks
  <1>2. SUFFICES ASSUME Clean' PROVE Listed' /\ Tables'
    BY DEF Tables, Listed
  <1>3. Clean
    BY <1>2 DEF Save_Params_to_file, SaveBegins, SaveFails, SaveWrites, SaveBreaks,
                Clean, Trouble, past
  <1>4. Listed'
    BY <1>1, <1>3 DEF Listed, search, table
  <1>5. CASE SaveFails \/ SaveBreaks
    <2>1. UNCHANGED file /\ (written' = written \/ written' = 0)
      BY <1>5 DEF SaveFails, SaveBreaks
    <2> QED
      BY <1>1, <1>3, <1>4, <2>1, SameTables
         DEF Tables, Running, Sound, OldOrNew, Filled, Prefix, table
  <1>6. CASE SaveBegins
    <2>1. Running /\ written' = 1 /\ \A i \in Slots : file'[i] = 0
      BY <1>6 DEF SaveBegins, Unsaved, Empty
    <2>2. Filled' /\ OldOrNew(file)'
      <3>1. Prefix(1)'
        BY <2>1 DEF Prefix, Slots
      <3> QED
        BY <2>1, <3>1, SizeAssumption DEF Filled, OldOrNew
    <2> QED
      BY <1>1, <1>3, <1>4, <2>1, <2>2, SameTables DEF Tables, Running, Sound, OldOrNew, table
  <1>7. CASE SaveWrites
    <2>1. /\ written \in Slots
          /\ \A i \in Slots : file'[i] = IF i = written THEN ids[i] ELSE file[i]
          /\ written' = IF written = Zones THEN 0 ELSE written + 1
      BY <1>7 DEF SaveWrites, TypeOK
    <2>2. written # 0 /\ written \in Nat /\ written + 1 \in 1 .. Zones + 1
          /\ (written' # 0 => written' = written + 1)
      BY <2>1, SizeAssumption DEF Slots
    <2>3. CASE pc = "config"
      BY <1>1, <1>3, <1>4, <2>1, <2>2, <2>3 DEF Tables, Running, table
    <2>4. CASE Running
      <3>1. /\ Sound(configs) /\ OldOrNew(ids) /\ OldOrNew(file)
            /\ \A i \in Slots : configs[i] # 0 => ids[i] = configs[i]
        BY <1>3, <2>4 DEF Tables
      <3>2. Prefix(written)
        BY <1>3, <2>2, <2>4 DEF Tables, Filled
      <3>3. PICK w \in 1 .. Zones + 1 : w = written + 1
        BY <2>2
      <3>4. \A i \in Slots : /\ i >= w => i >= written /\ i # written
                             /\ i < w => i < written \/ i = written
        BY <2>2, <3>3 DEF Slots
      <3>5. Prefix(w)'
        <4>1. \A i \in Slots : i >= w => file'[i] = 0
          BY <2>1, <3>2, <3>4 DEF Prefix
        <4>2. \A i \in Slots : i < w /\ configs[i] # 0 => file'[i] # 0
          BY <2>1, <3>1, <3>2, <3>4 DEF Prefix
        <4> QED
          BY <1>1, <4>1, <4>2 DEF Prefix, table
      <3>6. Filled'
        BY <2>2, <3>3, <3>5 DEF Filled
      <3>7. OldOrNew(file)' /\ OldOrNew(ids)'
        BY <1>1, <2>1, <3>1, SameTables DEF OldOrNew, table
      <3>8. Running /\ Running'
        BY <1>1, <2>4 DEF Running
      <3> QED
        BY <1>1, <1>4, <3>1, <3>6, <3>7, <3>8 DEF Tables, Running, Sound, table
    <2>5. pc # "restore"
      BY <1>3, <2>2 DEF Tables
    <2> QED
      BY <2>3, <2>4, <2>5 DEF TypeOK, Running
  <1> QED
    BY <1>5, <1>6, <1>7 DEF Save_Params_to_file

(* ... so that a reset at any moment of it leaves a sound file.             *)
LEMMA ResetSound ==
  ASSUME TypeOK, Listed, Tables, Reset
  PROVE  Listed' /\ Tables'
  <1>1. /\ pc # "restore" /\ pc' = "restore" /\ ids' = Empty /\ written' = 0
        /\ UNCHANGED upset
    BY DEF Reset
  <1>2. Listed'
    BY <1>1 DEF Listed
  <1>3. SUFFICES ASSUME Clean PROVE Sound(file)
    <2>1. Clean' => Clean
      BY <1>1 DEF Clean
    <2>2. Sound(file) => Sound(file')
      <3>1. CASE written > 0
        <4>1. PICK n \in 0 .. written - 1 : CutOff(n)
          BY <3>1 DEF Reset
        <4>2. n \in Int /\ \A i \in Slots : i \in Int
                 /\ file'[i] = IF i <= n THEN file[i] ELSE 0
          BY <4>1 DEF CutOff, Slots
        <4> QED
          BY <4>2 DEF Sound
      <3>2. CASE ~(written > 0)
        BY <3>2 DEF Reset
      <3> QED
        BY <3>1, <3>2
    <2> QED
      BY <1>1, <1>2, <1>3, <2>1, <2>2 DEF Tables, Running, Sound
  <1>4. CASE pc = "config"
    BY <1>3, <1>4 DEF Tables, Sound
  <1>5. CASE Running
    BY <1>3, <1>5, FileSound DEF Tables, Filled
  <1> QED
    BY <1>1, <1>4, <1>5 DEF TypeOK, Running

(* The steps that touch no table.                                           *)
LEMMA OthersSound ==
  ASSUME TypeOK, Listed, Tables,
         \/ UNCHANGED <<table, saving, search, pc, past>>
         \/ \E i \in Slots, x \in World \cup {0} : Edit_func(i, x)
  PROVE  Listed' /\ Tables'
  <1>1. CASE UNCHANGED <<table, saving, search, pc, past>>
    BY <1>1, SameTables
       DEF Listed, Tables, Clean, Running, Sound, OldOrNew, Filled, Prefix,
           table, saving, search, past
  <1>2. CASE \E i \in Slots, x \in World \cup {0} : Edit_func(i, x)
    BY <1>2 DEF Edit_func, Trouble, Listed, Tables, Clean
  <1> QED
    BY <1>1, <1>2

(* The inductive invariant as a whole.                                      *)
SoundAlways == TypeOK /\ Unsaved /\ Listed /\ Tables

(* It holds in every reachable state.                                       *)
LEMMA AlwaysSound == Spec => []SoundAlways
  <1>1. Init => Unsaved /\ Listed /\ Tables
    BY DEF Init, Unsaved, Running, Listed, Tables, Sound, Empty
  <1>2. SoundAlways /\ [Next]_vars /\ TypeOK' => SoundAlways'
    <2> SUFFICES ASSUME TypeOK, Unsaved, Listed, Tables, [Next]_vars
                 PROVE  Unsaved' /\ Listed' /\ Tables'
      BY DEF SoundAlways
    <2>1. Unsaved'
      BY DEF Next, vars, Unsaved, Running, Restore, RestoreFails, Init_sensors_config,
             Search, SearchDisturbed, Found, Append_new_sensors_id, Append_known,
             Append_new, Append_ends, Measure, MZTS_task, Wait_for_app_event,
             WriteRow, CloseRow, RowFails, Save_Params_to_file, SaveBegins, SaveFails,
             SaveWrites, SaveBreaks, Edit_func, Reset, saving
    <2>2. CASE Measure \/ MZTS_task \/ RowFails \/ UNCHANGED vars
      <3>1. UNCHANGED <<table, saving, search, pc, past>>
        BY <2>2 DEF Measure, MZTS_task, RowFails, Wait_for_app_event, WriteRow, CloseRow, vars
      <3> QED
        BY <2>1, <3>1, OthersSound
    <2> QED
      BY <2>1, <2>2, StartSound, SearchSound, AppendSound, SaveSound, ResetSound,
         OthersSound DEF Next
  <1> QED
    BY <1>1, <1>2, TypeCorrect, PTL DEF Spec, SoundAlways

(* For any number of zones and sensors the settings never hold a sensor     *)
(* twice, whatever resets and card failures fall into a save, unless the    *)
(* user made a gap or the search repeated an id: a known sensor is always   *)
(* recognised (lines 121-146 of MZTS_task.c).                               *)
THEOREM NoneTwice == Spec => []NoDuplicates
  <1>1. SoundAlways => NoDuplicates
    <2> SUFFICES ASSUME SoundAlways, Clean, NEW i \in Slots, NEW j \in Slots,
                        i # j, ids[i] = ids[j]
                 PROVE  ids[i] = 0
      BY DEF NoDuplicates, Clean
    <2>1. CASE Running
      <3>1. TypeOK /\ Sound(configs) /\ OldOrNew(ids) /\ ids \in Table
        BY <2>1 DEF SoundAlways, Tables, TypeOK, Table
      <3> QED
        BY <3>1, OldOrNewDistinct
    <2>2. CASE ~Running
      BY <2>2 DEF SoundAlways, Tables, Sound, Running, TypeOK, Empty
    <2> QED
      BY <2>1, <2>2
  <1> QED
    BY <1>1, AlwaysSound, PTL

-------------------------------------------------------------------------------
(* Why a new sensor is added: once the appending has come past the only new *)
(* id it is in the free slot, and a save of that slot is due.               *)
Stored(x) ==
  /\ ids[NewSlot] = x
  /\ file[NewSlot] = x \/ pend \/ written \in 1 .. NewSlot \/ "card" \in upset

OnlyNew(x) ==
  /\ Len(devices) = Get_valid_sensors_num + 1
  /\ Entries(devices) \ Entries(configs) = {x}

Passed(x) ==
  \/ pc = "measure"
  \/ pc = "append" /\ \E j \in DOMAIN devices : j < k /\ devices[j] = x

Added == Clean => \A x \in World : OnlyNew(x) /\ Passed(x) => Stored(x)

(* The only new id goes into the free slot.                                 *)
LEMMA AppendAdds ==
  ASSUME SoundAlways, Added, Append_new_sensors_id
  PROVE  Added'
  <1> USE DEF SoundAlways
  <1>1. SUFFICES ASSUME Clean', NEW x \in World, OnlyNew(x)', Passed(x)' PROVE Stored(x)'
    BY DEF Added
  <1>2. Clean /\ pc = "append" /\ UNCHANGED <<configs, file, written, devices, upset>>
    BY <1>1 DEF Append_new_sensors_id, Append_known, Append_new, Append_ends, Clean,
                table, saving, past
  <1>3. OnlyNew(x) /\ x \in Entries(devices) /\ x \notin Entries(configs)
        /\ Entries(devices) \subseteq Entries(configs) \cup {x}
    <2>1. OnlyNew(x)
      BY <1>1, <1>2, SameNumber, SameTables DEF OnlyNew, Entries
    <2> QED
      BY <2>1 DEF OnlyNew
  <1>4. DOMAIN devices = 1 .. Len(devices) /\ Len(devices) \in Nat /\ k \in Nat /\ k >= 1
    BY LenProperties, SizeAssumption DEF TypeOK
  <1>5. CASE Append_known
    <2>1. devices[k] \in Entries(configs)
      BY <1>5, EntryFacts DEF Append_known, Matches, Entries
    <2>2. pc' = "append" /\ k' = k + 1 /\ UNCHANGED <<ids, pend>>
      BY <1>2, <1>5 DEF Append_known, table, saving
    <2>3. PICK j \in DOMAIN devices : j < k + 1 /\ devices[j] = x
      BY <1>1, <1>2, <2>2 DEF Passed
    <2>4. j < k
      BY <1>3, <1>4, <2>1, <2>3
    <2>5. Stored(x)
      BY <1>2, <1>3, <2>3, <2>4 DEF Added, Passed
    <2> QED
      BY <1>2, <2>2, <2>5, SameTables DEF Stored
  <1>6. CASE Append_new
    <2>1. k \in DOMAIN devices /\ Store /\ ~ \E i \in Slots : Matches(i)
      BY <1>4, <1>6 DEF Append_new
    <2>2. devices[k] \notin Entries(configs)
      BY <1>2, <2>1, Recognised DEF Tables, Running
    <2>3. devices[k] = x
      BY <1>3, <2>1, <2>2 DEF Entries
    <2>4. ids'[NewSlot] = x /\ pend' = TRUE
      BY <1>2, <2>1, <2>3 DEF Store, TypeOK
    <2> QED
      BY <1>2, <2>4, SameTables DEF Stored
  <1>7. CASE Append_ends
    <2>1. PICK j \in DOMAIN devices : devices[j] = x
      BY <1>3 DEF Entries
    <2>2. j < k
      BY <1>4, <1>7, <2>1 DEF Append_ends
    <2>3. Stored(x)
      BY <1>2, <1>3, <2>1, <2>2 DEF Added, Passed
    <2> QED
      BY <1>2, <1>7, <2>3, SameTables DEF Stored, Append_ends, table, saving
  <1> QED
    BY <1>5, <1>6, <1>7 DEF Append_new_sensors_id

(* A save that is not done reaches the slot, unless the card fails.         *)
LEMMA SaveAdds ==
  ASSUME SoundAlways, Added, Save_Params_to_file
  PROVE  Added'
  <1> USE DEF SoundAlways
  <1>1. SUFFICES ASSUME Clean', NEW x \in World, OnlyNew(x)', Passed(x)' PROVE Stored(x)'
    BY DEF Added
  <1>2. UNCHANGED <<table, search, pc, configs, ids, devices>>
    BY DEF Save_Params_to_file, SaveBegins, SaveFails, SaveWrites, SaveBreaks,
           table, search
  <1>3. Clean
    BY <1>1 DEF Save_Params_to_file, SaveBegins, SaveFails, SaveWrites, SaveBreaks,
                Clean, Trouble, past
  <1>4. OnlyNew(x) /\ Passed(x) /\ NewSlot \in Slots
    <2>1. OnlyNew(x) /\ Passed(x)
      BY <1>1, <1>2, SameNumber, SameTables DEF OnlyNew, Passed, Entries, search
    <2>2. Get_valid_sensors_num \in 0 .. Zones
      BY ValidNumber DEF TypeOK, Table
    <2> QED
      BY <2>1, <2>2, SizeAssumption DEF OnlyNew, NewSlot, Slots, TypeOK
  <1>5. Stored(x)
    BY <1>3, <1>4 DEF Added
  <1>6. ids'[NewSlot] = x
    BY <1>2, <1>5 DEF Stored
  <1>7. CASE SaveFails \/ SaveBreaks
    <2>1. "card" \in upset'
      BY <1>7 DEF SaveFails, SaveBreaks, Trouble
    <2> QED
      BY <1>2, <1>6, <2>1, SameTables DEF Stored
  <1>8. CASE SaveBegins
    <2>1. written' \in 1 .. NewSlot
      BY <1>4, <1>8 DEF SaveBegins, Slots
    <2> QED
      BY <1>2, <1>6, <2>1, SameTables DEF Stored
  <1>9. CASE SaveWrites
    <2>1. /\ written \in Slots /\ UNCHANGED <<pend, upset>>
          /\ \A i \in Slots : file'[i] = IF i = written THEN ids[i] ELSE file[i]
          /\ written' = IF written = Zones THEN 0 ELSE written + 1
      BY <1>9 DEF SaveWrites, TypeOK, past
    <2>2. CASE written \in 1 .. NewSlot /\ written # NewSlot
      <3>1. written' \in 1 .. NewSlot
        BY <1>4, <2>1, <2>2, SizeAssumption DEF Slots
      <3> QED
        BY <1>2, <1>6, <3>1, SameTables DEF Stored
    <2>3. CASE written = NewSlot
      <3>1. file'[NewSlot] = x
        BY <1>4, <1>5, <2>1, <2>3 DEF Stored
      <3> QED
        BY <1>2, <1>6, <3>1, SameTables DEF Stored
    <2>4. CASE written \notin 1 .. NewSlot
      <3>1. written # NewSlot
        BY <1>4, <2>4 DEF Slots
      <3>2. file'[NewSlot] = file[NewSlot]
        BY <1>4, <2>1, <3>1
      <3>3. file'[NewSlot] = x \/ pend' \/ "card" \in upset'
        BY <1>5, <2>1, <2>4, <3>2 DEF Stored
      <3> QED
        BY <1>2, <1>6, <3>3, SameTables DEF Stored
    <2> QED
      BY <2>2, <2>3, <2>4
  <1> QED
    BY <1>7, <1>8, <1>9 DEF Save_Params_to_file

(* The one more device of an undisturbed search, when it is the only new    *)
(* one, gets the next valid entry of the settings and of the file, for any  *)
(* number of zones and sensors (lines 147-153 of MZTS_task.c, line 587 of   *)
(* App_logger.c), unless the card fails.                                    *)
THEOREM NewIsAdded == Spec => []NewSensorAdded
  <1>1. Init => Added
    BY DEF Init, Added, Passed
  <1>2. SoundAlways /\ Added /\ [Next]_vars => Added'
    <2> SUFFICES ASSUME SoundAlways, Added, [Next]_vars PROVE Added'
      OBVIOUS
    <2>1. CASE Restore \/ RestoreFails \/ Init_sensors_config \/ Reset
      BY <2>1 DEF Restore, RestoreFails, Init_sensors_config, Reset, Added, Passed
    <2>2. CASE Search \/ SearchDisturbed
      <3>1. PICK d : Found(d)
        BY <2>2 DEF Search, SearchDisturbed
      <3>2. /\ devices' = d /\ k' = 1 /\ UNCHANGED configs
            /\ pc' = IF MayAppend(d) THEN "append" ELSE "measure"
        BY <3>1 DEF Found, table
      <3>3. \A j \in DOMAIN devices' : ~ (j < 1)
        <4>1. d \in Seq(World \cup {0})
          <5>1. TypeOK'
            BY <2>2, SearchTypes DEF SoundAlways
          <5> QED
            BY <3>2, <5>1 DEF TypeOK
        <4>2. DOMAIN d = 1 .. Len(d) /\ Len(d) \in Nat
          BY <4>1, LenProperties
        <4> QED
          BY <3>2, <4>2
      <3>4. ASSUME NEW x \in World, OnlyNew(x)', Passed(x)' PROVE FALSE
        <4>1. MayAppend(d)
          BY <3>2, <3>4, SameNumber DEF OnlyNew, MayAppend
        <4> QED
          BY <3>2, <3>3, <3>4, <4>1 DEF Passed
      <3> QED
        BY <3>4 DEF Added
    <2>3. CASE Measure \/ MZTS_task \/ RowFails \/ UNCHANGED vars
      <3>1. UNCHANGED <<table, saving, search, pc, past>>
        BY <2>3 DEF Measure, MZTS_task, RowFails, Wait_for_app_event, WriteRow, CloseRow, vars
      <3> QED
        BY <3>1, SameNumber, SameTables
           DEF Added, Clean, OnlyNew, Passed, Stored, Entries, table, saving, search, past
    <2>4. CASE \E i \in Slots, x \in World \cup {0} : Edit_func(i, x)
      BY <2>4 DEF Edit_func, Trouble, Added, Clean
    <2> QED
      BY <2>1, <2>2, <2>3, <2>4, AppendAdds, SaveAdds DEF Next
  <1>3. SoundAlways /\ Added => NewSensorAdded
    <2> SUFFICES ASSUME SoundAlways, Added, pc = "measure", Clean,
                        Len(devices) = Get_valid_sensors_num + 1,
                        NEW x \in Entries(devices) \ Entries(configs),
                        Entries(devices) \ Entries(configs) = {x}
                 PROVE  Stored(x)
      BY DEF NewSensorAdded, Clean, Stored
    <2>1. devices \in [1 .. Len(devices) -> World \cup {0}]
      BY LenProperties DEF SoundAlways, TypeOK
    <2>2. x \in World
      BY <2>1 DEF Entries, SoundAlways, Listed
    <2> QED
      BY <2>2 DEF Added, OnlyNew, Passed
  <1> QED
    BY <1>1, <1>2, <1>3, AlwaysSound, PTL DEF Spec

-------------------------------------------------------------------------------
(* What is written of the file is what the settings are, as long as no new  *)
(* save is requested; and a restart begins with nothing to save.            *)
FileFollows ==
  /\ pc = "restore" => ~pend /\ written = 0
  /\ "card" \notin upset /\ pc # "restore" /\ ~pend =>
       \A i \in Slots : Written(i) => file[i] = ids[i]

(* The steps of a save keep it, whoever changes the settings meanwhile.     *)
LEMMA SaveFollows ==
  ASSUME TypeOK, FileFollows, Save_Params_to_file
  PROVE  FileFollows'
  <1>0. /\ pc # "restore" /\ pc' = pc /\ ids' = ids
        /\ Zones \in Nat /\ written \in 0 .. Zones /\ file \in [Slots -> World \cup {0}]
    BY SizeAssumption DEF Save_Params_to_file, SaveBegins, SaveFails, SaveWrites, SaveBreaks,
       table, FileFollows, TypeOK, Slots
  <1>1. SUFFICES ASSUME "card" \notin upset', ~pend', NEW i \in Slots, Written(i)'
                 PROVE  file'[i] = ids[i]
    BY <1>0 DEF FileFollows
  <1>2. CASE SaveBegins
    BY <1>1, <1>2 DEF SaveBegins, Written, Slots
  <1>3. CASE SaveFails \/ SaveBreaks
    BY <1>1, <1>3 DEF SaveFails, SaveBreaks, Trouble
  <1>4. CASE SaveWrites
    <2>1. "card" \notin upset /\ ~pend
      BY <1>1, <1>4 DEF SaveWrites, past
    <2>2. CASE i = written
      BY <1>0, <1>4, <2>2 DEF SaveWrites
    <2>3. CASE i # written
      <3>1. Written(i)
        BY <1>0, <1>1, <1>4, <2>3 DEF SaveWrites, Written, Slots
      <3>2. file[i] = ids[i]
        BY <1>0, <2>1, <3>1 DEF FileFollows
      <3> QED
        BY <1>0, <1>4, <2>3, <3>2 DEF SaveWrites
    <2> QED
      BY <2>2, <2>3
  <1> QED
    BY <1>2, <1>3, <1>4 DEF Save_Params_to_file

(* Whenever no save is requested or under way and the card has not failed,  *)
(* the parameter file holds the ids of the settings: a reset at such a      *)
(* moment loses nothing, however new sensors, edits in the menu, saves and  *)
(* resets, those in the middle of a save too, have interleaved              *)
(* (Save_Params_to_file, MZTS_task.c:152-153, App_logger.c:587-591).        *)
Settled ==
  /\ "card" \notin upset /\ pc # "restore"
  /\ ~pend /\ written = 0
  => file = ids

(* It takes that the request is cleared before the save, not after it.      *)
THEOREM SettingsReachFile == Spec => []Settled
  <1>1. Init => FileFollows
    BY DEF Init, FileFollows
  <1>2. TypeOK /\ FileFollows /\ [Next]_vars => FileFollows'
    <2> SUFFICES ASSUME TypeOK, FileFollows, [Next]_vars PROVE FileFollows'
      OBVIOUS
    <2>1. CASE Save_Params_to_file
      BY <2>1, SaveFollows
    <2>2. CASE Restore
      BY <2>2 DEF Restore, saving, past, FileFollows, Written
    <2>3. CASE RestoreFails
      BY <2>3 DEF RestoreFails, Trouble, FileFollows
    <2>4. CASE Append_new
      BY <2>4 DEF Append_new, Store, FileFollows
    <2>5. CASE Reset
      BY <2>5 DEF Reset, FileFollows
    <2>6. ASSUME NEW i \in Slots, NEW x \in World \cup {0}, Edit_func(i, x)
          PROVE  FileFollows'
      BY <2>6, SizeAssumption DEF Edit_func, FileFollows, Written, Slots
    <2>7. CASE \/ Init_sensors_config \/ Search \/ SearchDisturbed \/ Append_known
               \/ Append_ends \/ Measure \/ MZTS_task \/ RowFails \/ UNCHANGED vars
      <3>1. UNCHANGED <<ids, file, pend, written>>
        BY <2>7 DEF Init_sensors_config, Search, SearchDisturbed, Found, Append_known,
           Append_ends, Measure, MZTS_task, Wait_for_app_event, WriteRow, CloseRow,
           RowFails, vars, table, saving
      <3>2. "card" \notin upset' => "card" \notin upset
        BY <2>7 DEF Init_sensors_config, Search, SearchDisturbed, Found, Append_known,
           Append_ends, Measure, MZTS_task, Wait_for_app_event, WriteRow, CloseRow,
           RowFails, vars, past, Trouble
      <3>3. pc' = "restore" => pc = "restore"
        BY <2>7 DEF Init_sensors_config, Search, SearchDisturbed, Found, Append_known,
           Append_ends, Measure, MZTS_task, Wait_for_app_event, WriteRow, CloseRow,
           RowFails, vars
      <3>4. pc = "restore" => pc' = "restore"
        BY <2>7 DEF Init_sensors_config, Search, SearchDisturbed, Found, Append_known,
           Append_ends, Measure, MZTS_task, Wait_for_app_event, WriteRow, CloseRow,
           RowFails, vars
      <3> QED
        BY <3>1, <3>2, <3>3, <3>4 DEF FileFollows, Written
    <2> QED
      BY <2>1, <2>2, <2>3, <2>4, <2>5, <2>6, <2>7 DEF Next, Append_new_sensors_id
  <1>3. TypeOK /\ FileFollows => Settled
    <2> SUFFICES ASSUME TypeOK, FileFollows, "card" \notin upset, pc # "restore",
                        ~pend, written = 0
                 PROVE  file = ids
      BY DEF Settled
    <2>1. \A i \in Slots : file[i] = ids[i]
      BY DEF FileFollows, Written
    <2>2. file \in [Slots -> World \cup {0}] /\ ids \in [Slots -> World \cup {0}]
      BY DEF TypeOK
    <2> QED
      BY <2>1, <2>2
  <1> QED
    BY <1>1, <1>2, <1>3, TypeCorrect, PTL DEF Spec
===============================================================================
