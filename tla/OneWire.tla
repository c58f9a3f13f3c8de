-------------------------------- MODULE OneWire --------------------------------
(***************************************************************************)
(* The search for temperature sensors that Task_1WIRE runs once after a    *)
(* reset (DS1W_SearchBuses and D1W_SearchRom in                            *)
(* App/MZTS_APP/MZTS_DS1Wire.c).                                           *)
(*                                                                         *)
(* The bus is a wired AND: for every position the devices that still take  *)
(* part answer with their bit and then with its complement, and the bit    *)
(* the master writes back silences those that have the other one.  A pass  *)
(* of N such steps spells one id; lastDeviation is the position at which   *)
(* the next pass turns off to the 1 branch.  The environment may attach or *)
(* remove a device and may disturb a reading, MaxFaults times in all.      *)
(***************************************************************************)
EXTENDS Naturals

CONSTANTS
  N,                    \* bits of an id: 64
  MaxDevices,           \* elements of the array of devices: TEMP_ZONES_NUM
  Valid,                \* the ids that pass D1W_CheckRomCRC
  MaxFaults             \* bound: disturbances of the bus during the search

Ids   == [1 .. N -> {0, 1}]
Zeros == [i \in 1 .. N |-> 0]

\* Eight zero bytes have the right CRC.
ASSUME ConstantAssumption ==
  /\ N \in Nat \ {0} /\ MaxDevices \in Nat \ {0} /\ MaxFaults \in Nat
  /\ Valid \subseteq Ids /\ Zeros \in Valid

VARIABLES
  bus,                  \* the ids of the attached devices
  listening,            \* those that still take part in the running pass
  devices, numDevices,  \* the array of ids and how many passes filled it
  lastDeviation, newDeviation,
  currentBit,
  pc,                   \* "start", "pass", "bit", "crc" or "done"
  result,               \* what DS1W_SearchBuses returned
  seen, faults          \* history: every id ever attached; disturbances

pass    == <<listening, lastDeviation, newDeviation, currentBit>>
search  == <<pass, devices, numDevices, pc, result>>
world   == <<bus, seen, faults>>
vars    == <<search, world>>

\* 0xFF, a position behind the last bit.
D1W_ROM_SEARCH_FAILED == N + 1

Init ==
  /\ bus \in SUBSET (Valid \ {Zeros}) /\ seen = bus /\ faults = 0
  /\ listening = {} /\ lastDeviation = 0 /\ newDeviation = 0 /\ currentBit = 1
  /\ devices = [i \in 1 .. MaxDevices |-> Zeros] /\ numDevices = 0
  /\ pc = "start" /\ result = "none"

-------------------------------------------------------------------------------
(* DS1W_SearchBuses                                                         *)

\* The array is cleared (Init); somebody must answer the reset pulse.
Start ==
  /\ pc = "start"
  /\ IF bus = {}
       THEN pc' = "done" /\ result' = "SEARCH_FAILED"
       ELSE pc' = "pass" /\ UNCHANGED result
  /\ UNCHANGED <<pass, devices, numDevices, world>>

\* The previous id is copied to the next element, the bus is reset, whatever
\* that reset answers, and every device takes part again.
BeginPass ==
  /\ pc = "pass"
  /\ devices' = [devices EXCEPT ![numDevices + 1] =
                   IF numDevices = 0 THEN @ ELSE devices[numDevices]]
  /\ listening' = bus
  /\ currentBit' = 1 /\ newDeviation' = 0
  /\ pc' = "bit"
  /\ UNCHANGED <<lastDeviation, numDevices, result, world>>

\* Faulty: the array may be filled one element too far.
PassEndsLate(deviation) ==
  /\ lastDeviation' = deviation
  /\ numDevices' = numDevices + 1
  /\ pc' = IF numDevices + 1 > MaxDevices \/ deviation = 0 THEN "crc" ELSE "pass"

\* D1W_SearchRom returns: its id is counted, and the loop goes on until there
\* is no deviation left or the array is full.
PassEnds(deviation) ==
  /\ lastDeviation' = deviation
  /\ numDevices' = numDevices + 1
  /\ pc' = IF numDevices + 1 >= MaxDevices \/ deviation = 0 THEN "crc" ELSE "pass"

CheckCrc ==
  /\ pc = "crc"
  /\ IF \A i \in 1 .. numDevices : devices[i] \in Valid
       THEN result' = "SEARCH_SUCCESSFUL" /\ UNCHANGED numDevices
       ELSE result' = "SEARCH_CRC_ERROR" /\ numDevices' = 0
  /\ pc' = "done"
  /\ UNCHANGED <<pass, devices, world>>

-------------------------------------------------------------------------------
(* D1W_SearchRom                                                            *)

\* The pattern of the running pass.
pattern == devices[numDevices + 1]

\* What the master reads: every device of s lets the line be b.
Answer(s, b) == IF \A x \in s : x[currentBit] = b THEN 1 ELSE 0

\* Faulty: the branch of the last deviation is taken from the old id again.
BranchOld(b1, b2) ==
  IF b1 # b2 THEN b1
  ELSE IF currentBit > lastDeviation THEN 0
  ELSE pattern[currentBit]

\* The bit that is written back, from the two bits read.
Branch(b1, b2) ==
  IF b1 # b2 THEN b1
  ELSE IF currentBit = lastDeviation THEN 1
  ELSE IF currentBit > lastDeviation THEN 0
  ELSE pattern[currentBit]

\* Faulty: the pass is started again when nobody answers.
NoAnswerRetry(bitA, bitB) ==
  /\ bitA = 1 /\ bitB = 1
  /\ pc' = "pass"
  /\ UNCHANGED <<lastDeviation, numDevices, listening, newDeviation, currentBit,
                 devices, result>>

\* Both bits are 1: nobody takes part any more.
NoAnswer(bitA, bitB) ==
  /\ bitA = 1 /\ bitB = 1
  /\ PassEnds(D1W_ROM_SEARCH_FAILED)
  /\ UNCHANGED <<listening, newDeviation, currentBit, devices, result>>

Select(bitA, bitB) ==
  LET b == Branch(bitA, bitB) IN
  /\ bitA = 0 \/ bitB = 0
  /\ devices' = [devices EXCEPT ![numDevices + 1][currentBit] = b]
  /\ newDeviation' = IF bitA = bitB /\ b = 0 THEN currentBit ELSE newDeviation
  /\ listening' = {x \in listening : x[currentBit] = b}
  /\ currentBit' = currentBit + 1
  /\ UNCHANGED <<lastDeviation, numDevices, pc, result>>

\* Both readings of one position and what follows from them.
Step(bitA, bitB) ==
  /\ pc = "bit" /\ currentBit <= N
  /\ NoAnswer(bitA, bitB) \/ Select(bitA, bitB)

ReadBits == Step(Answer(listening, 1), Answer(listening, 0)) /\ UNCHANGED world

EndPass ==
  /\ pc = "bit" /\ currentBit > N
  /\ PassEnds(newDeviation)
  /\ UNCHANGED <<listening, newDeviation, currentBit, devices, result, world>>

Program == Start \/ BeginPass \/ ReadBits \/ EndPass \/ CheckCrc

-------------------------------------------------------------------------------
(* The environment                                                          *)

Fault == pc # "done" /\ faults < MaxFaults /\ faults' = faults + 1

\* A device that comes takes part from the next reset pulse on.
Plug(x) ==
  /\ Fault
  /\ x \notin bus /\ bus' = bus \cup {x} /\ seen' = seen \cup {x}
  /\ UNCHANGED search

Unplug(x) ==
  /\ Fault
  /\ x \in bus /\ bus' = bus \ {x} /\ listening' = listening \ {x}
  /\ UNCHANGED <<seen, lastDeviation, newDeviation, currentBit, devices, numDevices, pc, result>>

\* Noise, or the time-out that D1W_ReadBit answers with 0.
Noise(bitA, bitB) ==
  /\ Fault
  /\ Step(bitA, bitB)
  /\ UNCHANGED <<bus, seen>>

Environment ==
  \/ \E x \in Valid \ {Zeros} : Plug(x) \/ Unplug(x)
  \/ \E bitA, bitB \in {0, 1} : Noise(bitA, bitB)

Next == Program \/ Environment

Spec == Init /\ [][Next]_vars

\* Task_1WIRE has one of the highest priorities and waits only with time-outs.
FairSpec == Spec /\ WF_vars(Program)

-------------------------------------------------------------------------------
\* Types: the array is never written behind its end (the guard at line 162).
TypeOK ==
  /\ bus \in SUBSET Ids /\ seen \in SUBSET Ids /\ listening \in SUBSET Ids
  /\ devices \in [1 .. MaxDevices -> Ids] /\ numDevices \in 0 .. MaxDevices
  /\ lastDeviation \in 0 .. N + 1 /\ newDeviation \in 0 .. N
  /\ currentBit \in 1 .. N + 1
  /\ pc \in {"start", "pass", "bit", "crc", "done"}
  /\ result \in {"none", "SEARCH_SUCCESSFUL", "SEARCH_FAILED", "SEARCH_CRC_ERROR"}
  /\ pc \in {"start", "pass", "bit"} => numDevices < MaxDevices
  /\ faults \in Nat

\* What the search has found, for RomSearch; a disturbance ends the promise.
AbstractFound == IF faults > 0 THEN {} ELSE {devices[i] : i \in 1 .. numDevices}
AbstractCount == IF faults > 0 THEN 0 ELSE numDevices
AbstractStatus ==
  IF faults > 0 THEN "disturbed"
  ELSE CASE result = "SEARCH_SUCCESSFUL" -> "done"
         [] result = "SEARCH_FAILED"     -> "nobody"
         [] result = "SEARCH_CRC_ERROR"  -> "crc error"
         [] OTHER                        -> "searching"

Abstract == INSTANCE RomSearch WITH
  found <- AbstractFound, count <- AbstractCount, status <- AbstractStatus

\* On an undisturbed bus the search is the abstract one: every device once, in
\* the order of the ids, and a successful end only when all are found or the
\* array is full (DS1W_SearchBuses lines 153-164 with D1W_SearchRom).
RefinesRomSearch == Abstract!Spec

\* Whatever happens on the bus, the search comes to an end: a pass that fails
\* (line 457) is counted too, and the array has an end.
SearchEnds == <>(pc = "done")

\* The array holds discovered devices only, as the comment at lines 110-111 has
\* it: every id of a successful search belongs to a device that was attached.
DiscoveredOnly ==
  result = "SEARCH_SUCCESSFUL" => \A i \in 1 .. numDevices : devices[i] \in seen
===============================================================================
