------------------------------- MODULE RomSearch -------------------------------
(***************************************************************************)
(* What a search of the 1-Wire bus promises (DS1W_SearchBuses in           *)
(* App/MZTS_APP/MZTS_DS1Wire.c): as long as nothing disturbs the bus, the  *)
(* devices are discovered one by one in the lexicographic order of their   *)
(* ids, each once, until all of them or MaxDevices are found.  An id is a  *)
(* function from the positions of its bits, in the order they are sent, to *)
(* {0, 1}.  After a disturbance nothing is promised.                       *)
(***************************************************************************)
EXTENDS Naturals

CONSTANTS
  N,                    \* bits of an id: 64
  MaxDevices,           \* elements of the array of devices: TEMP_ZONES_NUM
  Valid                 \* the ids whose last byte is the CRC of the others

Ids   == [1 .. N -> {0, 1}]
Zeros == [i \in 1 .. N |-> 0]

VARIABLES
  bus,                  \* the ids of the attached devices
  found,                \* the ids discovered so far
  count,                \* how many entries of the array are filled
  status                \* "searching", "done", "nobody" or "disturbed"

vars == <<bus, found, count, status>>

\* x comes before y: at their first difference x has a 0.
Less(x, y) ==
  \E k \in 1 .. N : /\ x[k] = 0 /\ y[k] = 1
                    /\ \A j \in 1 .. k - 1 : x[j] = y[j]

Init ==
  /\ bus \in SUBSET (Valid \ {Zeros})
  /\ found = {} /\ count = 0 /\ status = "searching"

\* The least of the devices not yet discovered.
Discover ==
  /\ status = "searching" /\ count < MaxDevices
  /\ \E x \in bus \ found :
       /\ \A y \in bus \ found : y = x \/ Less(x, y)
       /\ found' = found \cup {x}
  /\ count' = count + 1
  /\ UNCHANGED <<bus, status>>

Finish ==
  /\ status = "searching"
  /\ found = bus \/ count = MaxDevices
  /\ status' = IF bus = {} THEN "nobody" ELSE "done"
  /\ UNCHANGED <<bus, found, count>>

\* A device comes or goes, or a bit is misread.
Disturb ==
  /\ bus' \in SUBSET Ids
  /\ found' = {} /\ count' = 0 /\ status' = "disturbed"

Next == Discover \/ Finish \/ Disturb

Spec == Init /\ [][Next]_vars
===============================================================================
