----------------------------- MODULE OneWire_proofs ----------------------------
(***************************************************************************)
(* Theorems about the search of the 1-Wire bus, for ids of any length, any *)
(* number of devices and any size of the array: its type correctness, and  *)
(* that it implements RomSearch; hence what it delivers to its caller, on  *)
(* a quiet and on a disturbed bus, and how many steps it may take.         *)
(***************************************************************************)
EXTENDS OneWire, WellFoundedInduction, TLAPS

(* An id is a function, and a bit may be written into it.                   *)
LEMMA IdFacts ==
  /\ Zeros \in Ids
  /\ \A x \in Ids, c \in 1 .. N, b \in {0, 1} : [x EXCEPT ![c] = b] \in Ids
  BY DEF Ids, Zeros

(* The bit written back is a bit.                                           *)
LEMMA BranchFact ==
  ASSUME TypeOK, pc = "bit", currentBit <= N, NEW b1 \in {0, 1}, NEW b2 \in {0, 1}
  PROVE  Branch(b1, b2) \in {0, 1}
  <1>1. numDevices + 1 \in 1 .. MaxDevices /\ currentBit \in 1 .. N
    BY ConstantAssumption DEF TypeOK
  <1>2. pattern \in Ids
    BY <1>1 DEF TypeOK, pattern
  <1>3. pattern[currentBit] \in {0, 1}
    BY <1>1, <1>2 DEF Ids
  <1> QED
    BY <1>3 DEF Branch

-------------------------------------------------------------------------------
(* Type correctness is inductive: a pass ends inside the array, ...         *)
LEMMA PassEndsTypes ==
  ASSUME TypeOK, pc = "bit", NEW d \in 0 .. N + 1, PassEnds(d)
  PROVE  /\ lastDeviation' \in 0 .. N + 1 /\ numDevices' \in 0 .. MaxDevices
         /\ pc' \in {"pass", "crc"} /\ (pc' = "pass" => numDevices' < MaxDevices)
  BY ConstantAssumption DEF PassEnds, TypeOK

(* ... a step writes a bit into it, ...                                     *)
LEMMA StepTypes ==
  ASSUME TypeOK, NEW b1 \in {0, 1}, NEW b2 \in {0, 1}, Step(b1, b2),
         bus' \in SUBSET Ids, seen' \in SUBSET Ids, faults' \in Nat
  PROVE  TypeOK'
  <1>1. pc = "bit" /\ currentBit <= N /\ currentBit \in 1 .. N
        /\ numDevices + 1 \in 1 .. MaxDevices
    BY ConstantAssumption DEF Step, TypeOK
  <1>2. CASE NoAnswer(b1, b2)
    <2>1. N + 1 \in 0 .. N + 1
      BY ConstantAssumption
    <2> QED
      BY <1>1, <1>2, <2>1, PassEndsTypes DEF NoAnswer, D1W_ROM_SEARCH_FAILED, TypeOK
  <1>3. CASE Select(b1, b2)
    <2>1. PICK b \in {0, 1} : b = Branch(b1, b2)
      BY <1>1, BranchFact
    <2>2. devices[numDevices + 1] \in Ids
      BY <1>1 DEF TypeOK
    <2>3. [devices[numDevices + 1] EXCEPT ![currentBit] = b] \in Ids
      BY <1>1, <2>2, IdFacts
    <2>4. devices' = [devices EXCEPT ![numDevices + 1] =
                        [devices[numDevices + 1] EXCEPT ![currentBit] = b]]
      BY <1>3, <2>1 DEF Select
    <2>5. devices' \in [1 .. MaxDevices -> Ids]
      BY <2>3, <2>4 DEF TypeOK
    <2>6. newDeviation' \in 0 .. N /\ currentBit' \in 1 .. N + 1
      BY <1>1, <1>3, ConstantAssumption DEF Select, TypeOK
    <2>7. listening' \in SUBSET Ids
      BY <1>3 DEF Select, TypeOK
    <2> QED
      BY <1>3, <2>5, <2>6, <2>7 DEF Select, TypeOK
  <1> QED
    BY <1>2, <1>3 DEF Step

(* ... and so does the rest of the search ...                               *)
LEMMA ProgramTypes == ASSUME TypeOK, Program PROVE TypeOK'
  <1>1. CASE Start
    BY <1>1, ConstantAssumption DEF Start, TypeOK, pass, world
  <1>2. CASE BeginPass
    <2>1. devices' \in [1 .. MaxDevices -> Ids]
      BY <1>2, ConstantAssumption DEF BeginPass, TypeOK
    <2>2. 1 \in 1 .. N + 1 /\ 0 \in 0 .. N
      BY ConstantAssumption
    <2> QED
      BY <1>2, <2>1, <2>2 DEF BeginPass, TypeOK, world
  <1>3. CASE ReadBits
    <2>1. Answer(listening, 1) \in {0, 1} /\ Answer(listening, 0) \in {0, 1}
      BY DEF Answer
    <2> QED
      BY <1>3, <2>1, StepTypes DEF ReadBits, world, TypeOK
  <1>4. CASE EndPass
    <2>1. newDeviation \in 0 .. N + 1
      BY ConstantAssumption DEF TypeOK
    <2> QED
      BY <1>4, <2>1, PassEndsTypes DEF EndPass, world, TypeOK
  <1>5. CASE CheckCrc
    BY <1>5, ConstantAssumption DEF CheckCrc, TypeOK, pass, world
  <1> QED
    BY <1>1, <1>2, <1>3, <1>4, <1>5 DEF Program

(* ... and the environment.                                                 *)
LEMMA EnvironmentTypes == ASSUME TypeOK, Environment PROVE TypeOK'
  <1>1. ASSUME NEW x \in Valid \ {Zeros}, Plug(x) \/ Unplug(x) PROVE TypeOK'
    BY <1>1, ConstantAssumption DEF Plug, Unplug, Fault, search, pass, TypeOK
  <1>2. ASSUME NEW b1 \in {0, 1}, NEW b2 \in {0, 1}, Noise(b1, b2) PROVE TypeOK'
    <2>1. bus' \in SUBSET Ids /\ seen' \in SUBSET Ids /\ faults' \in Nat
      BY <1>2 DEF Noise, Fault, TypeOK
    <2> QED
      BY <1>2, <2>1, StepTypes DEF Noise
  <1> QED
    BY <1>1, <1>2 DEF Environment

(* The array of ids is never written behind its end, whatever the bus does  *)
(* and however long the ids are (line 162 of MZTS_DS1Wire.c).               *)
THEOREM TypeCorrect == Spec => []TypeOK
  <1>1. Init => TypeOK
    <2> SUFFICES ASSUME Init PROVE TypeOK
      OBVIOUS
    <2>1. devices \in [1 .. MaxDevices -> Ids]
      BY IdFacts DEF Init
    <2>2. 0 \in 0 .. N + 1 /\ 0 \in 0 .. N /\ 1 \in 1 .. N + 1 /\ 0 \in 0 .. MaxDevices
      BY ConstantAssumption
    <2> QED
      BY <2>1, <2>2, ConstantAssumption DEF Init, TypeOK
  <1>2. TypeOK /\ [Next]_vars => TypeOK'
    <2> SUFFICES ASSUME TypeOK, [Next]_vars PROVE TypeOK'
      OBVIOUS
    <2>1. CASE UNCHANGED vars
      BY <2>1 DEF TypeOK, vars, search, world, pass
    <2> QED
      BY <2>1, ProgramTypes, EnvironmentTypes DEF Next
  <1> QED
    BY <1>1, <1>2, PTL DEF Spec

-------------------------------------------------------------------------------
(* The order of ids.                                                        *)
Agree(x, y, n) == \A j \in 1 .. n : x[j] = y[j]

(* Different ids have a first difference.                                   *)
LEMMA FirstDifference ==
  ASSUME NEW x \in Ids, NEW y \in Ids, x # y
  PROVE  \E k \in 1 .. N : x[k] # y[k] /\ Agree(x, y, k - 1)
  <1> DEFINE D == {k \in 1 .. N : x[k] # y[k]}
  <1>1. D # {}
    <2>1. DOMAIN x = 1 .. N /\ DOMAIN y = 1 .. N
      BY DEF Ids
    <2>2. x = [k \in 1 .. N |-> x[k]] /\ y = [k \in 1 .. N |-> y[k]]
      BY DEF Ids
    <2>3. SUFFICES ASSUME \A k \in 1 .. N : x[k] = y[k] PROVE FALSE
      OBVIOUS
    <2>4. x = y
      BY <2>1, <2>2, <2>3
    <2> QED
      BY <2>4
  <1>2. D \subseteq Nat
    BY ConstantAssumption
  <1>3. PICK k \in D : \A j \in D : ~ (<<j, k>> \in OpToRel(<, Nat))
    BY <1>1, <1>2, NatLessThanWellFounded, WFMin
  <1>4. \A j \in D : ~ (j < k)
    BY <1>2, <1>3 DEF OpToRel
  <1>5. \A j \in 1 .. k - 1 : j \in 1 .. N /\ j < k
    BY ConstantAssumption
  <1>6. Agree(x, y, k - 1)
    BY <1>4, <1>5 DEF Agree
  <1> QED
    BY <1>6

(* The order of RomSearch is a strict total one.                            *)
LEMMA Total ==
  ASSUME NEW x \in Ids, NEW y \in Ids, x # y
  PROVE  Abstract!Less(x, y) \/ Abstract!Less(y, x)
  <1>1. PICK k \in 1 .. N : x[k] # y[k] /\ Agree(x, y, k - 1)
    BY FirstDifference
  <1>2. x[k] \in {0, 1} /\ y[k] \in {0, 1}
    BY DEF Ids
  <1> QED
    BY <1>1, <1>2 DEF Abstract!Less, Agree

(* No two ids come before each other.                                       *)
LEMMA Asymmetric ==
  ASSUME NEW x \in Ids, NEW y \in Ids, Abstract!Less(x, y)
  PROVE  ~ Abstract!Less(y, x) /\ x # y
  <1>1. PICK k \in 1 .. N : x[k] = 0 /\ y[k] = 1 /\ \A j \in 1 .. k - 1 : x[j] = y[j]
    BY DEF Abstract!Less
  <1>2. ASSUME NEW m \in 1 .. N, y[m] = 0, x[m] = 1, \A j \in 1 .. m - 1 : y[j] = x[j]
        PROVE  FALSE
    <2>1. CASE m < k
      BY <1>1, <1>2, <2>1, ConstantAssumption
    <2>2. CASE k < m
      BY <1>1, <1>2, <2>2, ConstantAssumption
    <2>3. CASE k = m
      BY <1>1, <1>2, <2>3
    <2> QED
      BY <2>1, <2>2, <2>3, ConstantAssumption
  <1>3. x # y
    BY <1>1
  <1> QED
    BY <1>2, <1>3 DEF Abstract!Less

(* The order is transitive.                                                 *)
LEMMA Transitive ==
  ASSUME NEW x \in Ids, NEW y \in Ids, NEW z \in Ids,
         Abstract!Less(x, y), Abstract!Less(y, z)
  PROVE  Abstract!Less(x, z)
  <1>1. PICK k \in 1 .. N : x[k] = 0 /\ y[k] = 1 /\ \A j \in 1 .. k - 1 : x[j] = y[j]
    BY DEF Abstract!Less
  <1>2. PICK m \in 1 .. N : y[m] = 0 /\ z[m] = 1 /\ \A j \in 1 .. m - 1 : y[j] = z[j]
    BY DEF Abstract!Less
  <1>3. CASE k < m
    <2>1. z[k] = 1 /\ \A j \in 1 .. k - 1 : x[j] = z[j]
      BY <1>1, <1>2, <1>3, ConstantAssumption
    <2> QED
      BY <1>1, <2>1 DEF Abstract!Less
  <1>4. CASE m < k
    <2>1. x[m] = 0 /\ \A j \in 1 .. m - 1 : x[j] = z[j]
      BY <1>1, <1>2, <1>4, ConstantAssumption
    <2> QED
      BY <1>2, <2>1 DEF Abstract!Less
  <1> QED
    BY <1>1, <1>2, <1>3, <1>4, ConstantAssumption

-------------------------------------------------------------------------------
(* What a pass knows of the devices s when it has spelt p up to a bit.  p   *)
(* deviates at k when it took the 0 there and a device has the 1; it is     *)
(* least at k when it took the 1 only because every device has it.          *)
Deviates(s, p, k) == p[k] = 0 /\ \E y \in s : Agree(y, p, k - 1) /\ y[k] = 1

LastDeviates(s, d, p, n) ==
  /\ d \in 0 .. n
  /\ d # 0 => Deviates(s, p, d)
  /\ \A k \in 1 .. n : k > d => ~ Deviates(s, p, k)

Least(s, p, k) == p[k] = 1 => \A y \in s : Agree(y, p, k - 1) => y[k] = 1

(* These depend only on the bits up to k.                                   *)
LEMMA LocalFacts ==
  ASSUME NEW s \in SUBSET Ids, NEW p \in Ids, NEW r \in Ids,
         NEW c \in 1 .. N, Agree(p, r, c - 1)
  PROVE  /\ \A y \in s, n \in 0 .. c - 1 : Agree(y, r, n) <=> Agree(y, p, n)
         /\ \A k \in 1 .. c - 1 : /\ Deviates(s, r, k) <=> Deviates(s, p, k)
                                  /\ Least(s, r, k) <=> Least(s, p, k)
  <1>1. ASSUME NEW y \in s, NEW n \in 0 .. c - 1 PROVE Agree(y, r, n) <=> Agree(y, p, n)
    <2>1. \A j \in 1 .. n : j \in 1 .. c - 1
      BY ConstantAssumption
    <2> QED
      BY <2>1 DEF Agree
  <1>2. ASSUME NEW k \in 1 .. c - 1
        PROVE  /\ Deviates(s, r, k) <=> Deviates(s, p, k)
               /\ Least(s, r, k) <=> Least(s, p, k)
    <2>1. k - 1 \in 0 .. c - 1 /\ r[k] = p[k]
      BY ConstantAssumption DEF Agree
    <2> QED
      BY <1>1, <2>1 DEF Deviates, Least
  <1> QED
    BY <1>1, <1>2

previous == devices[numDevices]

(* The invariant of a pass: the devices that take part agree with what is   *)
(* spelt, which follows the previous id up to lastDeviation and turns there.*)
Turns ==
  /\ currentBit <= lastDeviation => pattern = previous
  /\ currentBit > lastDeviation =>
       pattern[lastDeviation] = 1 /\ Agree(pattern, previous, lastDeviation - 1)

Passing ==
  pc = "bit" =>
    /\ listening = {x \in bus : Agree(x, pattern, currentBit - 1)}
    /\ listening # {}
    /\ LastDeviates(bus, newDeviation, pattern, currentBit - 1)
    /\ \A k \in 1 .. currentBit - 1 : k > lastDeviation => Least(bus, pattern, k)
    /\ numDevices > 0 => Turns

(* The invariant of the search: the ids found are those up to the previous  *)
(* one, and lastDeviation tells whether there are others.                   *)
FoundIds == {devices[i] : i \in 1 .. numDevices}

Finding ==
  /\ bus \subseteq Valid \ {Zeros}
  /\ pc = "start" => numDevices = 0
  /\ pc # "done" => result = "none"
  /\ pc \in {"pass", "bit", "crc"} => bus # {}
  /\ pc \in {"start", "pass", "bit"} => (numDevices = 0 <=> lastDeviation = 0)
  /\ pc = "crc" => numDevices > 0 /\ (numDevices = MaxDevices \/ lastDeviation = 0)
  /\ numDevices > 0 =>
       /\ previous \in bus
       /\ FoundIds = {x \in bus : x = previous \/ Abstract!Less(x, previous)}
       /\ LastDeviates(bus, lastDeviation, previous, N)

Sound == faults = 0 => Passing /\ Finding

(* What the master reads when somebody answers, and what it writes back.    *)
LEMMA Chosen ==
  ASSUME TypeOK, listening # {}, currentBit <= N, pc = "bit",
         NEW bitA, NEW bitB, bitA = Answer(listening, 1), bitB = Answer(listening, 0),
         NEW b, b = Branch(bitA, bitB)
  PROVE  /\ b \in {0, 1} /\ ~ (bitA = 1 /\ bitB = 1)
         /\ bitA # bitB => \A x \in listening : x[currentBit] = b
         /\ bitA = bitB => /\ \E x \in listening : x[currentBit] = 0
                           /\ \E x \in listening : x[currentBit] = 1
  <1>1. \A x \in listening : x[currentBit] \in {0, 1}
    BY ConstantAssumption DEF TypeOK, Ids
  <1>2. bitA \in {0, 1} /\ bitB \in {0, 1}
    BY DEF Answer
  <1>3. b \in {0, 1}
    BY <1>2, BranchFact
  <1>4. /\ bitA = 1 <=> \A x \in listening : x[currentBit] = 1
        /\ bitB = 1 <=> \A x \in listening : x[currentBit] = 0
    BY DEF Answer
  <1>5. ~ (bitA = 1 /\ bitB = 1)
    BY <1>4
  <1>6. bitA # bitB => b = bitA
    BY DEF Branch
  <1>7. bitA # bitB => \A x \in listening : x[currentBit] = b
    BY <1>2, <1>4, <1>6
  <1>8. bitA = bitB => /\ \E x \in listening : x[currentBit] = 0
                       /\ \E x \in listening : x[currentBit] = 1
    BY <1>1, <1>2, <1>4, <1>5
  <1> QED
    BY <1>3, <1>5, <1>7, <1>8

(* A reading of an undisturbed bus is answered: one bit more is spelt.      *)
LEMMA ReadSelects ==
  ASSUME TypeOK, Passing, ReadBits
  PROVE  /\ pc = "bit" /\ currentBit \in 1 .. N /\ listening # {}
         /\ Select(Answer(listening, 1), Answer(listening, 0)) /\ UNCHANGED world
  <1>1. pc = "bit" /\ currentBit \in 1 .. N /\ listening # {}
    BY DEF ReadBits, Step, Passing, TypeOK
  <1>2. ~ (Answer(listening, 1) = 1 /\ Answer(listening, 0) = 1)
    BY <1>1, Chosen
  <1> QED
    BY <1>1, <1>2 DEF ReadBits, Step, NoAnswer

(* The bit that is spelt: the devices that agree with it go on, the last    *)
(* deviation is kept and the pattern turns where it should.                 *)
LEMMA ReadKeeps ==
  ASSUME TypeOK, Passing, Finding, ReadBits
  PROVE  /\ Passing'
         /\ UNCHANGED <<bus, pc, numDevices, lastDeviation, result, FoundIds, previous>>
  <1> DEFINE c == currentBit
             p == pattern
             r == pattern'
             bitA == Answer(listening, 1)
             bitB == Answer(listening, 0)
             b == Branch(bitA, bitB)
  <1>1. /\ pc = "bit" /\ c \in 1 .. N /\ listening # {}
        /\ Select(bitA, bitB) /\ UNCHANGED world
    BY ReadSelects
  <1>2. /\ b \in {0, 1}
        /\ bitA # bitB => \A x \in listening : x[c] = b
        /\ bitA = bitB => /\ \E x \in listening : x[c] = 0
                          /\ \E x \in listening : x[c] = 1
    BY <1>1, Chosen DEF TypeOK
  <1>3. numDevices \in Nat /\ numDevices + 1 \in 1 .. MaxDevices /\ bus \in SUBSET Ids /\ p \in Ids
        /\ c \in Nat /\ c - 1 \in Nat /\ (c + 1) - 1 = c
    BY <1>1, ConstantAssumption DEF TypeOK, pattern
  <1>4. /\ devices' = [devices EXCEPT ![numDevices + 1] =
                         [devices[numDevices + 1] EXCEPT ![c] = b]]
        /\ newDeviation' = IF bitA = bitB /\ b = 0 THEN c ELSE newDeviation
        /\ listening' = {x \in listening : x[c] = b}
        /\ currentBit' = c + 1
        /\ UNCHANGED <<bus, pc, numDevices, lastDeviation, result>>
    BY <1>1 DEF Select, world
  <1>5. r = [p EXCEPT ![c] = b] /\ \A i \in 1 .. numDevices : devices'[i] = devices[i]
    BY <1>3, <1>4 DEF TypeOK, pattern
  <1>6. r \in Ids /\ r[c] = b /\ \A j \in 1 .. N : j # c => r[j] = p[j]
    BY <1>1, <1>2, <1>3, <1>5, IdFacts DEF Ids
  <1>7. Agree(p, r, c - 1)
    BY <1>1, <1>6, ConstantAssumption DEF Agree
  <1>8. UNCHANGED <<FoundIds, previous>>
    <2>1. numDevices = 0 \/ numDevices \in 1 .. numDevices
      BY <1>3
    <2>2. numDevices # 0 => devices'[numDevices] = devices[numDevices]
      BY <1>5, <2>1
    <2>3. numDevices = 0 => devices'[0] = devices[0]
      BY <1>3, <1>4 DEF TypeOK
    <2> QED
      BY <1>4, <1>5, <2>2, <2>3 DEF FoundIds, previous
  <1>8a. bitA = bitB => /\ c = lastDeviation => b = 1
                        /\ c > lastDeviation => b = 0
                        /\ c < lastDeviation => b = p[c]
    <2>1. lastDeviation \in Nat
      BY ConstantAssumption DEF TypeOK
    <2> QED
      BY <1>3, <2>1 DEF Branch
  <1> HIDE DEF c, p, r, bitA, bitB, b
  <1>9. listening = {x \in bus : Agree(x, p, c - 1)}
    BY <1>1 DEF Passing, c, p
  <1>10. /\ \A y \in bus, n \in 0 .. c - 1 : Agree(y, r, n) <=> Agree(y, p, n)
         /\ \A k \in 1 .. c - 1 : /\ Deviates(bus, r, k) <=> Deviates(bus, p, k)
                                  /\ Least(bus, r, k) <=> Least(bus, p, k)
    BY <1>1, <1>3, <1>6, <1>7, LocalFacts
  <1>11. \A y \in bus : Agree(y, r, c) <=> Agree(y, p, c - 1) /\ y[c] = b
    <2>1. \A j : j \in 1 .. c <=> j \in 1 .. c - 1 \/ j = c
      BY <1>1, <1>3
    <2>2. c - 1 \in 0 .. c - 1
      BY <1>1, <1>3
    <2>3. ASSUME NEW y \in bus PROVE Agree(y, r, c) <=> Agree(y, r, c - 1) /\ y[c] = b
      BY <1>6, <2>1 DEF Agree
    <2> QED
      BY <1>10, <2>2, <2>3
  <1>12. listening' = {x \in bus : Agree(x, r, c)} /\ listening' # {}
    <2>1. \E x \in listening : x[c] = b
      BY <1>1, <1>2
    <2> QED
      BY <1>4, <1>9, <1>11, <2>1
  <1>13. LastDeviates(bus, newDeviation', r, c)
    <2>1. LastDeviates(bus, newDeviation, p, c - 1)
      BY <1>1 DEF Passing, c, p
    <2>2. Deviates(bus, r, c) <=> b = 0 /\ bitA = bitB
      <3>1. c - 1 \in 0 .. c - 1
        BY <1>1, <1>3
      <3>2. Deviates(bus, r, c) <=> b = 0 /\ \E y \in listening : y[c] = 1
        BY <1>6, <1>9, <1>10, <3>1 DEF Deviates
      <3> QED
        BY <1>2, <3>2
    <2>3. \A k \in 1 .. c : k = c \/ k \in 1 .. c - 1
      BY <1>1, <1>3
    <2>4. CASE b = 0 /\ bitA = bitB
      <3>1. newDeviation' = c /\ c \in 0 .. c /\ \A k \in 1 .. c : ~ (k > c)
        BY <1>3, <1>4, <2>4
      <3> QED
        BY <2>2, <2>4, <3>1 DEF LastDeviates
    <2>5. CASE ~ (b = 0 /\ bitA = bitB)
      <3>1. newDeviation' = newDeviation
        BY <1>4, <2>5
      <3>2. newDeviation \in 0 .. c - 1 /\ newDeviation \in 0 .. c
            /\ (newDeviation # 0 => newDeviation \in 1 .. c - 1)
        BY <1>3, <2>1 DEF LastDeviates
      <3> QED
        BY <1>10, <2>1, <2>2, <2>3, <2>5, <3>1, <3>2 DEF LastDeviates
    <2> QED
      BY <2>4, <2>5
  <1>14. ASSUME NEW k \in 1 .. c, k > lastDeviation PROVE Least(bus, r, k)
    <2>1. CASE k \in 1 .. c - 1
      <3>1. Least(bus, p, k)
        BY <1>1, <1>14, <2>1 DEF Passing, c, p
      <3> QED
        BY <1>10, <2>1, <3>1
    <2>2. CASE k = c
      <3>1. SUFFICES ASSUME b = 1, NEW y \in bus, Agree(y, r, c - 1) PROVE y[c] = 1
        BY <1>6, <2>2 DEF Least
      <3>2. bitA # bitB
        BY <1>8a, <1>14, <2>2, <3>1
      <3>3. c - 1 \in 0 .. c - 1
        BY <1>1, <1>3
      <3>4. y \in listening
        BY <1>9, <1>10, <3>1, <3>3
      <3> QED
        BY <1>2, <3>1, <3>2, <3>4
    <2> QED
      BY <1>1, <1>3, <2>1, <2>2
  <1>15. ASSUME numDevices > 0 PROVE Turns'
    <2> DEFINE q == previous
               L == lastDeviation
    <2>1. Turns
      BY <1>1, <1>15 DEF Passing
    <2>2. q \in bus /\ Deviates(bus, q, L) /\ L \in 1 .. N
      BY <1>1, <1>3, <1>15 DEF Finding, LastDeviates
    <2>3. q \in Ids /\ L \in Nat
      BY <1>3, <2>2, ConstantAssumption
    <2>4. r = pattern' /\ currentBit' = c + 1 /\ L' = L /\ q' = q
      BY <1>4, <1>8 DEF r
    <2> HIDE DEF q, L
    <2>5. CASE c < L
      <3>1. p = q
        BY <1>3, <2>1, <2>3, <2>5 DEF Turns, c, p, q, L
      <3>2. q \in listening
        BY <1>9, <2>2, <3>1 DEF Agree
      <3>3. b = p[c]
        <4>1. CASE bitA = bitB
          BY <1>8a, <2>5, <4>1 DEF L
        <4>2. CASE bitA # bitB
          BY <1>2, <3>1, <3>2, <4>2
        <4> QED
          BY <4>1, <4>2
      <3>4. r = p
        BY <1>3, <1>5, <3>3 DEF Ids, c, p, r, b
      <3>5. c + 1 <= L
        BY <1>3, <2>3, <2>5
      <3> QED
        BY <1>3, <2>3, <2>4, <3>1, <3>4, <3>5 DEF Turns, q, L
    <2>6. CASE c = L
      <3>1. p = q
        BY <1>3, <2>1, <2>3, <2>6 DEF Turns, c, p, q, L
      <3>2. PICK y \in bus : Agree(y, q, L - 1) /\ y[L] = 1
        BY <2>2 DEF Deviates
      <3>3. q[c] = 0 /\ q \in listening /\ y[c] = 1 /\ y \in listening
        BY <1>9, <2>2, <2>6, <3>1, <3>2 DEF Agree, Deviates
      <3>4. b = 1
        BY <1>2, <1>8a, <2>6, <3>3 DEF L
      <3>5. r[L] = 1 /\ Agree(r, q, L - 1)
        BY <1>6, <1>7, <2>6, <3>1, <3>4 DEF Agree
      <3>6. ~ (c + 1 <= L)
        BY <1>3, <2>6
      <3> QED
        BY <2>4, <3>5, <3>6 DEF Turns, q, L
    <2>7. CASE c > L
      <3>1. p[L] = 1 /\ Agree(p, q, L - 1)
        BY <2>1, <2>7 DEF Turns, c, p, q, L
      <3>2. r[L] = 1
        BY <1>6, <2>2, <2>7, <3>1, <1>3, <2>3
      <3>3. \A j \in 1 .. L - 1 : j \in 1 .. N /\ j # c
        BY <1>3, <2>2, <2>3, <2>7, ConstantAssumption
      <3>4. Agree(r, q, L - 1)
        BY <1>6, <3>1, <3>3 DEF Agree
      <3>5. ~ (c + 1 <= L)
        BY <1>3, <2>3, <2>7
      <3> QED
        BY <2>4, <3>2, <3>4, <3>5 DEF Turns, q, L
    <2> QED
      BY <1>3, <2>3, <2>5, <2>6, <2>7
  <1>16. Passing'
    <2>1. r = pattern' /\ currentBit' - 1 = c
      BY <1>3, <1>4 DEF r
    <2>2. numDevices' > 0 => Turns'
      BY <1>4, <1>15
    <2> QED
      BY <1>4, <1>12, <1>13, <1>14, <2>1, <2>2 DEF Passing
  <1> QED
    BY <1>4, <1>8, <1>16

-------------------------------------------------------------------------------
(* A pass that is least behind L comes before all others that agree with it *)
(* up to L.                                                                 *)
LEMMA LeastIsFirst ==
  ASSUME NEW s \in SUBSET Ids, NEW p \in Ids, NEW L \in Nat,
         \A k \in 1 .. N : k > L => Least(s, p, k),
         NEW y \in s, y # p, Agree(y, p, L)
  PROVE  Abstract!Less(p, y)
  <1>1. PICK k \in 1 .. N : y[k] # p[k] /\ Agree(y, p, k - 1)
    BY FirstDifference
  <1>2. k > L
    <2>1. SUFFICES ASSUME ~ (k > L) PROVE FALSE
      OBVIOUS
    <2>2. k \in 1 .. L
      BY <2>1, ConstantAssumption
    <2> QED
      BY <1>1, <2>2 DEF Agree
  <1>3. p[k] # 1
    BY <1>1, <1>2 DEF Least, Ids
  <1>4. p[k] = 0 /\ y[k] = 1
    BY <1>1, <1>3 DEF Ids
  <1> QED
    BY <1>1, <1>4 DEF Abstract!Less, Agree

(* A finished pass has spelt the id of a device: the first of those not yet *)
(* found.                                                                   *)
LEMMA PassFinds ==
  ASSUME TypeOK, Passing, Finding, pc = "bit", currentBit > N
  PROVE  /\ pattern \in bus \ FoundIds
         /\ \A y \in bus \ FoundIds : y = pattern \/ Abstract!Less(pattern, y)
         /\ numDevices > 0 => Abstract!Less(previous, pattern)
         /\ LastDeviates(bus, newDeviation, pattern, N)
  <1> DEFINE p == pattern
             q == previous
             L == lastDeviation
  <1>1. /\ currentBit = N + 1 /\ currentBit - 1 = N /\ numDevices \in Nat
        /\ p \in Ids /\ bus \in SUBSET Ids /\ L \in Nat
    BY ConstantAssumption DEF TypeOK, pattern
  <1>2. /\ listening = {x \in bus : Agree(x, p, N)} /\ listening # {}
        /\ LastDeviates(bus, newDeviation, p, N)
        /\ \A k \in 1 .. N : k > L => Least(bus, p, k)
    BY <1>1 DEF Passing
  <1>3. p \in bus
    <2>1. PICK x \in bus : Agree(x, p, N)
      BY <1>2
    <2>2. x = p
      <3>1. SUFFICES ASSUME x # p PROVE FALSE
        OBVIOUS
      <3>2. PICK k \in 1 .. N : x[k] # p[k]
        BY <1>1, <3>1, FirstDifference
      <3> QED
        BY <2>1, <3>2 DEF Agree
    <2> QED
      BY <2>2
  <1>4. CASE numDevices = 0
    <2>1. L = 0 /\ FoundIds = {}
      BY <1>4 DEF Finding, FoundIds
    <2>2. \A y : Agree(y, p, 0)
      BY DEF Agree
    <2> HIDE DEF p, L
    <2>3. \A y \in bus : y = p \/ Abstract!Less(p, y)
      BY <1>1, <1>2, <2>1, <2>2, LeastIsFirst
    <2> QED
      BY <1>2, <1>3, <1>4, <2>1, <2>3 DEF p
  <1>5. CASE numDevices > 0
    <2>1. /\ q \in bus /\ FoundIds = {x \in bus : x = q \/ Abstract!Less(x, q)}
          /\ LastDeviates(bus, L, q, N)
      BY <1>5 DEF Finding
    <2>2. L \in 1 .. N /\ Deviates(bus, q, L)
      BY <1>1, <1>5, <2>1 DEF Finding, LastDeviates
    <2>3. p[L] = 1 /\ Agree(p, q, L - 1)
      BY <1>1, <1>5, <2>2 DEF Passing, Turns
    <2>4. q \in Ids
      BY <1>1, <2>1
    <2> HIDE DEF p, q, L
    <2>5. Abstract!Less(q, p)
      BY <2>2, <2>3 DEF Abstract!Less, Deviates, Agree
    <2>6. ASSUME NEW y \in bus, Abstract!Less(q, y), y # p PROVE Abstract!Less(p, y)
      <3>1. PICK k \in 1 .. N : q[k] = 0 /\ y[k] = 1 /\ \A j \in 1 .. k - 1 : q[j] = y[j]
        BY <2>6 DEF Abstract!Less
      <3>2. ~ (k > L)
        BY <2>1, <3>1 DEF LastDeviates, Deviates, Agree
      <3>3. CASE k < L
        <4>1. p[k] = 0 /\ \A j \in 1 .. k - 1 : p[j] = y[j]
          BY <2>2, <2>3, <3>1, <3>3, ConstantAssumption DEF Agree
        <4> QED
          BY <3>1, <4>1 DEF Abstract!Less
      <3>4. CASE k = L
        <4>1. \A j \in 1 .. L : j = L \/ j \in 1 .. L - 1
          BY <1>1
        <4>2. Agree(y, p, L)
          BY <2>3, <3>1, <3>4, <4>1 DEF Agree
        <4> QED
          BY <1>1, <1>2, <2>6, <4>2, LeastIsFirst
      <3> QED
        BY <1>1, <3>2, <3>3, <3>4, ConstantAssumption
    <2>7. \A y \in bus \ FoundIds : Abstract!Less(q, y)
      BY <1>1, <2>1, <2>4, Total
    <2>8. p \notin FoundIds
      BY <1>1, <2>1, <2>4, <2>5, Asymmetric
    <2> QED
      BY <1>2, <1>3, <2>5, <2>6, <2>7, <2>8 DEF p, q
  <1> QED
    BY <1>1, <1>4, <1>5

(* So the invariant of the search holds again, with one id more.            *)
LEMMA EndPassKeeps ==
  ASSUME TypeOK, Passing, Finding, EndPass
  PROVE  Passing' /\ Finding' /\ FoundIds' = FoundIds \cup {pattern}
  <1>1. /\ pc = "bit" /\ currentBit > N
        /\ lastDeviation' = newDeviation /\ numDevices' = numDevices + 1
        /\ pc' = IF numDevices + 1 >= MaxDevices \/ newDeviation = 0 THEN "crc" ELSE "pass"
        /\ UNCHANGED <<devices, bus, result>>
    BY DEF EndPass, PassEnds, world
  <1>2. /\ pattern \in bus \ FoundIds
        /\ \A y \in bus \ FoundIds : y = pattern \/ Abstract!Less(pattern, y)
        /\ numDevices > 0 => Abstract!Less(previous, pattern)
        /\ LastDeviates(bus, newDeviation, pattern, N)
    BY <1>1, PassFinds
  <1>3. numDevices \in Nat /\ numDevices < MaxDevices /\ MaxDevices \in Nat /\ bus \in SUBSET Ids
    BY <1>1, ConstantAssumption DEF TypeOK
  <1>4. previous' = pattern /\ FoundIds' = FoundIds \cup {pattern}
    <2>1. \A i : i \in 1 .. numDevices + 1 <=> i \in 1 .. numDevices \/ i = numDevices + 1
      BY <1>3
    <2> QED
      BY <1>1, <2>1 DEF previous, pattern, FoundIds
  <1>5. FoundIds' = {x \in bus : x = pattern \/ Abstract!Less(x, pattern)}
    <2>1. ASSUME NEW x \in FoundIds PROVE x \in bus /\ Abstract!Less(x, pattern)
      <3>1. numDevices > 0
        BY <1>3 DEF FoundIds
      <3>2. /\ x \in bus /\ previous \in bus
            /\ x = previous \/ Abstract!Less(x, previous)
        BY <3>1 DEF Finding
      <3> QED
        BY <1>2, <1>3, <3>1, <3>2, Transitive
    <2>2. ASSUME NEW x \in bus \ FoundIds, Abstract!Less(x, pattern) PROVE FALSE
      BY <1>2, <1>3, <2>2, Asymmetric
    <2> QED
      BY <1>2, <1>4, <2>1, <2>2
  <1>6. Finding'
    <2>1. numDevices' > 0 /\ numDevices' # 0
      BY <1>1, <1>3
    <2>2. pc' = "crc" => numDevices' = MaxDevices \/ lastDeviation' = 0
      BY <1>1, <1>3
    <2>3. pc' = "pass" => lastDeviation' # 0
      BY <1>1
    <2>4. pc' \in {"pass", "crc"}
      BY <1>1
    <2>5. bus \subseteq Valid \ {Zeros} /\ bus # {} /\ result = "none"
      BY <1>1 DEF Finding
    <2> QED
      BY <1>1, <1>2, <1>4, <1>5, <2>1, <2>2, <2>3, <2>4, <2>5 DEF Finding
  <1> QED
    BY <1>1, <1>4, <1>6 DEF Passing

-------------------------------------------------------------------------------
(* The begin of a pass and the end of the search keep the invariant, too.   *)
LEMMA BeginKeeps ==
  ASSUME TypeOK, Finding, BeginPass
  PROVE  Passing' /\ Finding' /\ UNCHANGED <<bus, FoundIds, numDevices, result>>
  <1>1. /\ pc = "pass" /\ pc' = "bit" /\ listening' = bus /\ currentBit' = 1
        /\ newDeviation' = 0
        /\ devices' = [devices EXCEPT ![numDevices + 1] =
                         IF numDevices = 0 THEN devices[numDevices + 1] ELSE devices[numDevices]]
        /\ UNCHANGED <<lastDeviation, numDevices, result, bus>>
    BY DEF BeginPass, world
  <1>2. /\ numDevices \in Nat /\ numDevices + 1 \in 1 .. MaxDevices /\ lastDeviation \in Nat
        /\ numDevices > 0 => numDevices \in 1 .. MaxDevices /\ numDevices \in 1 .. numDevices
    BY <1>1, ConstantAssumption DEF TypeOK
  <1>3. \A i \in 1 .. numDevices : devices'[i] = devices[i]
    BY <1>1, <1>2 DEF TypeOK
  <1>4. FoundIds' = FoundIds
    BY <1>1, <1>3 DEF FoundIds
  <1>5. numDevices > 0 => pattern' = previous /\ previous' = previous
    BY <1>1, <1>2, <1>3 DEF TypeOK, pattern, previous
  <1>6. Finding'
    BY <1>1, <1>2, <1>4, <1>5 DEF Finding
  <1>7. ASSUME numDevices > 0 PROVE Turns'
    <2>1. ~ (1 > lastDeviation)
      BY <1>1, <1>2, <1>7 DEF Finding
    <2> QED
      BY <1>1, <1>2, <1>5, <1>7, <2>1 DEF Turns
  <1>8. Passing'
    <2>1. \A x, y : Agree(x, y, 0)
      BY DEF Agree
    <2>2. bus # {}
      BY <1>1 DEF Finding
    <2>3. \A p : LastDeviates(bus, 0, p, 0)
      BY DEF LastDeviates
    <2>4. \A k \in 1 .. 0 : FALSE
      OBVIOUS
    <2>5. currentBit' - 1 = 0
      BY <1>1
    <2> QED
      BY <1>1, <1>7, <2>1, <2>2, <2>3, <2>4, <2>5 DEF Passing
  <1> QED
    BY <1>1, <1>4, <1>6, <1>8

(* When no deviation is left every device is found, and the ids of devices  *)
(* have the right CRC.                                                      *)
LEMMA CheckFacts ==
  ASSUME TypeOK, Finding, CheckCrc
  PROVE  /\ numDevices > 0 /\ bus # {} /\ (FoundIds = bus \/ numDevices = MaxDevices)
         /\ result = "none" /\ result' = "SEARCH_SUCCESSFUL" /\ pc' = "done"
         /\ UNCHANGED <<bus, devices, numDevices, lastDeviation, FoundIds, previous>>
  <1>1. /\ pc = "crc" /\ numDevices > 0 /\ bus # {} /\ result = "none"
        /\ numDevices = MaxDevices \/ lastDeviation = 0
        /\ FoundIds = {x \in bus : x = previous \/ Abstract!Less(x, previous)}
        /\ LastDeviates(bus, lastDeviation, previous, N)
        /\ bus \subseteq Valid \ {Zeros} /\ previous \in bus
    BY DEF Finding, CheckCrc
  <1>2. \A i \in 1 .. numDevices : devices[i] \in FoundIds
    BY DEF FoundIds
  <1>3. /\ result' = "SEARCH_SUCCESSFUL" /\ pc' = "done"
        /\ UNCHANGED <<bus, devices, numDevices, lastDeviation>>
    BY <1>1, <1>2 DEF CheckCrc, pass, world
  <1>4. ASSUME lastDeviation = 0, NEW y \in bus PROVE y \in FoundIds
    <2>1. y \in Ids /\ previous \in Ids
      BY <1>1 DEF TypeOK
    <2>2. ~ Abstract!Less(previous, y)
      <3>1. SUFFICES ASSUME Abstract!Less(previous, y) PROVE FALSE
        OBVIOUS
      <3>2. PICK k \in 1 .. N : Deviates(bus, previous, k)
        BY <3>1 DEF Abstract!Less, Deviates, Agree
      <3>3. k > lastDeviation
        BY <1>4, ConstantAssumption
      <3> QED
        BY <1>1, <3>2, <3>3 DEF LastDeviates
    <2> QED
      BY <1>1, <2>1, <2>2, Total
  <1>5. FoundIds = bus \/ numDevices = MaxDevices
    BY <1>1, <1>4
  <1>6. UNCHANGED <<FoundIds, previous>>
    BY <1>3 DEF FoundIds, previous
  <1> QED
    BY <1>1, <1>3, <1>5, <1>6

(* The invariant holds as long as nothing disturbs the bus.                 *)
LEMMA SoundAlways == Spec => [](TypeOK /\ Sound)
  <1>1. Init => Sound
    BY DEF Init, Sound, Passing, Finding
  <1>2. TypeOK /\ Sound /\ [Next]_vars => Sound'
    <2> SUFFICES ASSUME TypeOK, Sound, [Next]_vars, faults' = 0 PROVE Passing' /\ Finding'
      BY DEF Sound
    <2>1. faults \in Nat
      BY DEF TypeOK
    <2>2. ~ Environment
      BY <2>1 DEF Environment, Plug, Unplug, Noise, Fault
    <2>3. faults = 0 /\ (Program \/ UNCHANGED vars)
      BY <2>2 DEF Next, Program, Start, BeginPass, ReadBits, EndPass, CheckCrc, vars, world
    <2>4. Passing /\ Finding
      BY <2>3 DEF Sound
    <2>5. CASE Start
      <3>1. /\ pc = "start" /\ UNCHANGED <<bus, numDevices, devices, lastDeviation>>
            /\ numDevices = 0
        BY <2>4, <2>5 DEF Start, pass, world, Finding
      <3> QED
        BY <2>4, <2>5, <3>1 DEF Start, Passing, Finding
    <2>6. CASE BeginPass
      BY <2>4, <2>6, BeginKeeps
    <2>7. CASE ReadBits
      <3>1. Passing' /\ UNCHANGED <<bus, pc, numDevices, lastDeviation, result, FoundIds, previous>>
        BY <2>4, <2>7, ReadKeeps
      <3> QED
        BY <2>4, <3>1 DEF Finding
    <2>8. CASE EndPass
      BY <2>4, <2>8, EndPassKeeps
    <2>9. CASE CheckCrc
      <3>1. /\ pc' = "done"
            /\ UNCHANGED <<bus, devices, numDevices, lastDeviation, FoundIds, previous>>
        BY <2>4, <2>9, CheckFacts
      <3> QED
        BY <2>4, <3>1 DEF Passing, Finding
    <2>10. CASE UNCHANGED vars
      BY <2>4, <2>10
         DEF Passing, Finding, Turns, FoundIds, previous, pattern, vars, search, pass, world
    <2> QED
      BY <2>3, <2>5, <2>6, <2>7, <2>8, <2>9, <2>10 DEF Program
  <1> QED
    BY <1>1, <1>2, TypeCorrect, PTL DEF Spec

(* The search of an undisturbed bus is RomSearch, for ids of any length,    *)
(* any devices and any size of the array: every device is discovered once,  *)
(* in the order of the ids, and the search succeeds only when all are       *)
(* discovered or the array is full (lines 153-179 and 435-523 of            *)
(* MZTS_DS1Wire.c).                                                         *)
THEOREM SearchCorrect == Spec => RefinesRomSearch
  <1>1. Init => Abstract!Init
    BY DEF Init, Abstract!Init, Abstract!Zeros, Zeros, AbstractFound, AbstractCount,
           AbstractStatus
  <1>2. TypeOK /\ TypeOK' /\ Sound /\ [Next]_vars => [Abstract!Next]_Abstract!vars
    <2> SUFFICES ASSUME TypeOK, TypeOK', Sound, [Next]_vars
                 PROVE  [Abstract!Next]_Abstract!vars
      OBVIOUS
    <2> USE DEF Abstract!vars
    <2>1. faults \in Nat
      BY DEF TypeOK
    <2>2. CASE Environment
      <3>1. faults' > 0
        BY <2>1, <2>2 DEF Environment, Plug, Unplug, Noise, Fault
      <3>2. bus' \in SUBSET Ids
        BY DEF TypeOK
      <3> QED
        BY <3>1, <3>2 DEF Abstract!Next, Abstract!Disturb, Abstract!Ids, Ids,
                          AbstractFound, AbstractCount, AbstractStatus
    <2>3. CASE UNCHANGED world /\ faults > 0
      BY <2>3 DEF world, AbstractFound, AbstractCount, AbstractStatus
    <2>4. ASSUME faults = 0, Program PROVE [Abstract!Next]_Abstract!vars
      <3>1. Passing /\ Finding /\ UNCHANGED world
        BY <2>4 DEF Sound, Program, Start, BeginPass, ReadBits, EndPass, CheckCrc
      <3>2. /\ AbstractFound = FoundIds /\ AbstractFound' = FoundIds'
            /\ AbstractCount = numDevices /\ AbstractCount' = numDevices'
            /\ bus' = bus
        BY <2>4, <3>1 DEF world, AbstractFound, AbstractCount, FoundIds
      <3>3. /\ result = "none" => AbstractStatus = "searching"
            /\ result' = "SEARCH_FAILED" => AbstractStatus' = "nobody"
            /\ result' = "SEARCH_SUCCESSFUL" => AbstractStatus' = "done"
            /\ UNCHANGED result => UNCHANGED AbstractStatus
        <4>1. faults' = 0
          BY <2>4, <3>1 DEF world
        <4>2. /\ result = "none" => AbstractStatus = "searching"
              /\ result' = "SEARCH_FAILED" => AbstractStatus' = "nobody"
              /\ result' = "SEARCH_SUCCESSFUL" => AbstractStatus' = "done"
          BY <2>4, <4>1 DEF AbstractStatus
        <4>3. UNCHANGED result => UNCHANGED AbstractStatus
          BY <2>4, <4>1 DEF AbstractStatus
        <4> QED
          BY <4>2, <4>3
      <3>4. CASE Start
        <4>1. result = "none" /\ numDevices = 0 /\ UNCHANGED <<numDevices, devices>>
          BY <3>1, <3>4 DEF Start, Finding
        <4>2. FoundIds = {} /\ FoundIds' = FoundIds
          BY <4>1 DEF FoundIds
        <4>3. CASE bus = {}
          <5>1. result' = "SEARCH_FAILED"
            BY <3>4, <4>3 DEF Start
          <5> QED
            BY <3>2, <3>3, <4>1, <4>2, <4>3, <5>1 DEF Abstract!Next, Abstract!Finish
        <4>4. CASE bus # {}
          BY <3>2, <3>3, <3>4, <4>1, <4>2, <4>4 DEF Start
        <4> QED
          BY <4>3, <4>4
      <3>5. CASE BeginPass
        BY <3>1, <3>2, <3>3, <3>5, BeginKeeps
      <3>6. CASE ReadBits
        BY <3>1, <3>2, <3>3, <3>6, ReadKeeps
      <3>7. CASE EndPass
        <4>1. FoundIds' = FoundIds \cup {pattern}
          BY <3>1, <3>7, EndPassKeeps
        <4>2. /\ pattern \in bus \ FoundIds
              /\ \A y \in bus \ FoundIds : y = pattern \/ Abstract!Less(pattern, y)
          BY <3>1, <3>7, PassFinds DEF EndPass
        <4>3. /\ numDevices < MaxDevices /\ numDevices' = numDevices + 1
              /\ result = "none" /\ result' = result
          BY <3>1, <3>7 DEF EndPass, PassEnds, TypeOK, Finding
        <4>4. Abstract!Discover
          BY <3>2, <3>3, <4>1, <4>2, <4>3 DEF Abstract!Discover
        <4> QED
          BY <4>4 DEF Abstract!Next
      <3>8. CASE CheckCrc
        <4>1. /\ bus # {} /\ (FoundIds = bus \/ numDevices = MaxDevices)
              /\ result = "none" /\ result' = "SEARCH_SUCCESSFUL"
              /\ UNCHANGED <<numDevices, FoundIds>>
          BY <3>1, <3>8, CheckFacts
        <4> QED
          BY <3>2, <3>3, <4>1 DEF Abstract!Next, Abstract!Finish
      <3> QED
        BY <2>4, <3>4, <3>5, <3>6, <3>7, <3>8 DEF Program
    <2>5. CASE UNCHANGED vars
      BY <2>5 DEF vars, search, world, AbstractFound, AbstractCount, AbstractStatus
    <2>6. CASE Program /\ faults > 0
      <3>1. UNCHANGED world
        BY <2>6 DEF Program, Start, BeginPass, ReadBits, EndPass, CheckCrc
      <3> QED
        BY <2>3, <2>6, <3>1
    <2> QED
      BY <2>1, <2>2, <2>4, <2>5, <2>6 DEF Next
  <1> QED
    BY <1>1, <1>2, SoundAlways, PTL DEF Spec, RefinesRomSearch, Abstract!Spec

-------------------------------------------------------------------------------
(* What the search leaves behind for its caller.  The ids are in ascending  *)
(* order in the array; and once the search has ended on an undisturbed bus, *)
(* it has failed exactly when nobody was there, and has found every device  *)
(* unless the array is full.                                                *)
Ascending == \A i, j \in 1 .. numDevices : i < j => Abstract!Less(devices[i], devices[j])

Ended ==
  pc = "done" =>
    /\ result = IF bus = {} THEN "SEARCH_FAILED" ELSE "SEARCH_SUCCESSFUL"
    /\ FoundIds = bus \/ numDevices = MaxDevices

Kept == faults = 0 => Ascending /\ Ended /\ bus = seen

(* The end of a pass appends an id that comes after all others.             *)
LEMMA EndPassAscends ==
  ASSUME TypeOK, Passing, Finding, Ascending, EndPass
  PROVE  Ascending'
  <1>1. /\ numDevices \in Nat /\ numDevices' = numDevices + 1 /\ devices' = devices
        /\ bus \in SUBSET Ids
    BY DEF EndPass, PassEnds, TypeOK
  <1>2. /\ pattern \in bus
        /\ numDevices > 0 => Abstract!Less(previous, pattern)
    BY PassFinds DEF EndPass
  <1>3. ASSUME NEW i \in 1 .. numDevices PROVE Abstract!Less(devices[i], pattern)
    <2>1. numDevices > 0 /\ devices[i] \in FoundIds
      BY <1>1 DEF FoundIds
    <2>2. /\ devices[i] \in bus /\ previous \in bus
          /\ devices[i] = previous \/ Abstract!Less(devices[i], previous)
      BY <2>1 DEF Finding
    <2> QED
      BY <1>1, <1>2, <2>1, <2>2, Transitive
  <1>4. ASSUME NEW i \in 1 .. numDevices + 1, NEW j \in 1 .. numDevices + 1, i < j
        PROVE  Abstract!Less(devices[i], devices[j])
    <2>1. CASE j = numDevices + 1
      <3>1. i \in 1 .. numDevices /\ devices[j] = pattern
        BY <1>1, <1>4, <2>1 DEF pattern
      <3> QED
        BY <1>3, <3>1
    <2>2. CASE j # numDevices + 1
      <3>1. i \in 1 .. numDevices /\ j \in 1 .. numDevices
        BY <1>1, <1>4, <2>2
      <3> QED
        BY <1>4, <3>1 DEF Ascending
    <2> QED
      BY <2>1, <2>2
  <1> QED
    BY <1>1, <1>4 DEF Ascending

(* Both hold as long as nothing disturbs the bus.                           *)
LEMMA KeptAlways == Spec => []Kept
  <1>1. Init => Kept
    <2> SUFFICES ASSUME Init PROVE Ascending /\ Ended /\ bus = seen
      BY DEF Kept
    <2>1. \A i \in 1 .. 0 : FALSE
      OBVIOUS
    <2> QED
      BY <2>1 DEF Init, Ascending, Ended
  <1>2. TypeOK /\ Sound /\ Kept /\ [Next]_vars => Kept'
    <2> SUFFICES ASSUME TypeOK, Sound, Kept, [Next]_vars, faults' = 0
                 PROVE  Ascending' /\ Ended' /\ bus' = seen'
      BY DEF Kept
    <2>1. faults \in Nat
      BY DEF TypeOK
    <2>2. ~ Environment
      BY <2>1 DEF Environment, Plug, Unplug, Noise, Fault
    <2>3. faults = 0 /\ (Program \/ UNCHANGED vars) /\ UNCHANGED <<bus, seen>>
      BY <2>2 DEF Next, Program, Start, BeginPass, ReadBits, EndPass, CheckCrc, vars, world
    <2>4. Passing /\ Finding /\ Ascending /\ Ended /\ bus' = seen'
      BY <2>3 DEF Sound, Kept
    <2>5. CASE Start
      <3>1. /\ numDevices = 0 /\ UNCHANGED <<bus, devices, numDevices>>
            /\ pc' = "done" => bus = {} /\ result' = "SEARCH_FAILED"
        BY <2>4, <2>5 DEF Start, world, Finding
      <3>2. FoundIds' = {} /\ Ascending'
        BY <3>1 DEF FoundIds, Ascending
      <3> QED
        BY <2>4, <3>1, <3>2 DEF Ended
    <2>6. CASE BeginPass
      <3>1. pc' = "bit" /\ UNCHANGED numDevices /\ numDevices \in Nat
            /\ devices' = [devices EXCEPT ![numDevices + 1] =
                             IF numDevices = 0 THEN devices[numDevices + 1] ELSE devices[numDevices]]
        BY <2>6 DEF BeginPass, TypeOK
      <3>2. \A i \in 1 .. numDevices : devices'[i] = devices[i]
        BY <3>1 DEF TypeOK
      <3> QED
        BY <2>4, <3>1, <3>2 DEF Ascending, Ended
    <2>7. CASE ReadBits
      <3>1. UNCHANGED <<pc, numDevices>> /\ pc = "bit"
        BY <2>4, <2>7, ReadKeeps DEF ReadBits, Step
      <3>2. Select(Answer(listening, 1), Answer(listening, 0))
        BY <2>4, <2>7, ReadSelects
      <3>3. numDevices \in Nat /\ \A i \in 1 .. numDevices : devices'[i] = devices[i]
        BY <3>2 DEF Select, TypeOK
      <3> QED
        BY <2>4, <3>1, <3>3 DEF Ascending, Ended
    <2>8. CASE EndPass
      <3>1. pc' # "done"
        BY <2>8 DEF EndPass, PassEnds
      <3> QED
        BY <2>4, <2>8, <3>1, EndPassAscends DEF Ended
    <2>9. CASE CheckCrc
      <3>1. /\ bus # {} /\ (FoundIds = bus \/ numDevices = MaxDevices)
            /\ result' = "SEARCH_SUCCESSFUL"
            /\ UNCHANGED <<bus, devices, numDevices, FoundIds>>
        BY <2>4, <2>9, CheckFacts
      <3> QED
        BY <2>4, <3>1 DEF Ascending, Ended
    <2>10. CASE UNCHANGED vars
      BY <2>4, <2>10 DEF Ascending, Ended, FoundIds, vars, search, world
    <2> QED
      BY <2>3, <2>5, <2>6, <2>7, <2>8, <2>9, <2>10 DEF Program
  <1> QED
    BY <1>1, <1>2, SoundAlways, PTL DEF Spec

(* What MZTS_task takes for granted (the assumption IsSearchResult of the   *)
(* module Sensors, with ids as numbers there): on an undisturbed bus the    *)
(* array holds attached devices in ascending order, and a device that is    *)
(* not in it was left out because the array is full of earlier ones; the    *)
(* result tells whether anybody was there.                                  *)
SearchPromise ==
  pc = "done" /\ faults = 0 =>
    /\ FoundIds \subseteq bus
    /\ Ascending
    /\ \A x \in bus \ FoundIds :
         numDevices = MaxDevices /\ \A i \in 1 .. numDevices : Abstract!Less(devices[i], x)
    /\ result = IF bus = {} THEN "SEARCH_FAILED" ELSE "SEARCH_SUCCESSFUL"

(* The search keeps that promise: what it found, with the bus undisturbed,  *)
(* is what Update_sensors_info compares with its table.                     *)
THEOREM SearchDelivers == Spec => []SearchPromise
  <1>1. TypeOK /\ Sound /\ Kept => SearchPromise
    <2> SUFFICES ASSUME TypeOK, Sound, Kept, pc = "done", faults = 0
                 PROVE  /\ FoundIds \subseteq bus
                        /\ \A x \in bus \ FoundIds :
                             /\ numDevices = MaxDevices
                             /\ \A i \in 1 .. numDevices : Abstract!Less(devices[i], x)
      BY DEF SearchPromise, Kept, Ended
    <2>1. Finding /\ Ended /\ bus \in SUBSET Ids /\ numDevices \in Nat
      BY DEF Sound, Kept, TypeOK
    <2>2. CASE numDevices = 0
      <3>1. FoundIds = {} /\ \A i \in 1 .. 0 : FALSE
        BY <2>2 DEF FoundIds
      <3>2. bus = {}
        BY <2>1, <2>2, <3>1, ConstantAssumption DEF Ended
      <3> QED
        BY <3>1, <3>2
    <2>3. CASE numDevices > 0
      <3>1. /\ previous \in bus
            /\ FoundIds = {x \in bus : x = previous \/ Abstract!Less(x, previous)}
        BY <2>1, <2>3 DEF Finding
      <3>2. ASSUME NEW x \in bus \ FoundIds, NEW i \in 1 .. numDevices
            PROVE  Abstract!Less(devices[i], x)
        <4>1. Abstract!Less(previous, x)
          BY <2>1, <3>1, <3>2, Total
        <4>2. devices[i] \in FoundIds
          BY DEF FoundIds
        <4> QED
          BY <2>1, <3>1, <3>2, <4>1, <4>2, Transitive
      <3> QED
        BY <2>1, <3>1, <3>2 DEF Ended
    <2> QED
      BY <2>1, <2>2, <2>3
  <1> QED
    BY <1>1, SoundAlways, KeptAlways, PTL

(* The comment at lines 110-111 of MZTS_DS1Wire.c, which a disturbance      *)
(* refutes, is true of an undisturbed bus: the array holds discovered       *)
(* devices only.                                                            *)
THEOREM QuietBusDiscovered == Spec => [](faults = 0 => DiscoveredOnly)
  <1>1. TypeOK /\ Sound /\ Kept => (faults = 0 => DiscoveredOnly)
    <2> SUFFICES ASSUME TypeOK, Sound, Kept, faults = 0, NEW i \in 1 .. numDevices
                 PROVE  devices[i] \in seen
      BY DEF DiscoveredOnly
    <2>1. numDevices > 0 /\ devices[i] \in FoundIds /\ Finding /\ bus = seen
      BY DEF TypeOK, FoundIds, Sound, Kept
    <2> QED
      BY <2>1 DEF Finding
  <1> QED
    BY <1>1, SoundAlways, KeptAlways, PTL

-------------------------------------------------------------------------------
(* The steps that are left: a pass takes at most N + 2 of them, and every   *)
(* pass, failed or not, uses up an element of the array.                    *)
Left == (MaxDevices - numDevices) * (N + 3)

Remaining ==
  CASE pc = "start" -> Left + 2
    [] pc = "pass"  -> Left + 1
    [] pc = "bit"   -> Left - currentBit
    [] pc = "crc"   -> 1
    [] OTHER        -> 0

(* One pass less.                                                           *)
LEMMA OneLess ==
  ASSUME NEW a \in Int, NEW w \in Int
  PROVE  (a - 1) * w = a * w - w
  OBVIOUS

(* What is left while the search runs.                                      *)
LEMMA LeftFacts ==
  ASSUME TypeOK
  PROVE  /\ numDevices \in Int /\ N \in Nat /\ MaxDevices \in Int /\ currentBit \in 1 .. N + 1
         /\ Left \in Nat /\ (numDevices < MaxDevices => Left >= N + 3)
  <1>1. /\ numDevices \in Int /\ N \in Nat /\ MaxDevices \in Int /\ currentBit \in 1 .. N + 1
        /\ numDevices <= MaxDevices
    BY ConstantAssumption DEF TypeOK
  <1>2. ASSUME NEW a \in Nat, NEW w \in Nat PROVE a * w \in Nat /\ (a > 0 => a * w >= w)
    OBVIOUS
  <1> QED
    BY <1>1, <1>2 DEF Left

(* A pass that ends, with or without an answer, leaves less.                *)
LEMMA PassEndsLess ==
  ASSUME TypeOK, TypeOK', pc = "bit", NEW d, PassEnds(d)
  PROVE  Remaining' < Remaining
  <1>1. /\ numDevices' = numDevices + 1 /\ numDevices < MaxDevices
        /\ pc' \in {"crc", "pass"}
    BY DEF PassEnds, TypeOK
  <1>2. Left' = Left - (N + 3)
    <2>1. MaxDevices - (numDevices + 1) = (MaxDevices - numDevices) - 1
      BY LeftFacts
    <2> QED
      BY <1>1, <2>1, LeftFacts, OneLess DEF Left
  <1>3. Left \in Nat /\ Left >= N + 3 /\ currentBit <= N + 1 /\ N \in Nat /\ currentBit \in Nat
    BY <1>1, LeftFacts
  <1>4. Remaining = Left - currentBit
    BY DEF Remaining
  <1>5. Remaining' = IF pc' = "crc" THEN 1 ELSE Left' + 1
    BY <1>1 DEF Remaining
  <1> HIDE DEF Left, Remaining
  <1> QED
    BY <1>2, <1>3, <1>4, <1>5

(* So does the reading of a position, whatever is read.                     *)
LEMMA StepLess ==
  ASSUME TypeOK, TypeOK', NEW bitA, NEW bitB, Step(bitA, bitB)
  PROVE  Remaining' < Remaining
  <1>1. pc = "bit"
    BY DEF Step
  <1>2. CASE NoAnswer(bitA, bitB)
    BY <1>1, <1>2, PassEndsLess DEF NoAnswer
  <1>3. CASE Select(bitA, bitB)
    <2>1. pc' = "bit" /\ currentBit' = currentBit + 1 /\ Left' = Left
      BY <1>1, <1>3 DEF Select, Left
    <2>2. Left \in Nat /\ currentBit \in Nat
      BY LeftFacts
    <2>3. Remaining = Left - currentBit /\ Remaining' = Left' - currentBit'
      BY <1>1, <2>1 DEF Remaining
    <2> HIDE DEF Left, Remaining
    <2> QED
      BY <2>1, <2>2, <2>3
  <1> QED
    BY <1>2, <1>3 DEF Step

(* The bound.                                                               *)
LEMMA RemainingBounded == ASSUME TypeOK PROVE Remaining \in 0 .. MaxDevices * (N + 3) + 2
  <1>1. Left <= MaxDevices * (N + 3) /\ MaxDevices * (N + 3) \in Nat
    <2>1. ASSUME NEW a \in Nat, NEW n \in 0 .. a, NEW w \in Nat
          PROVE  (a - n) * w <= a * w /\ a * w \in Nat
      OBVIOUS
    <2> QED
      BY <2>1, ConstantAssumption DEF TypeOK, Left
  <1>2. Left \in Nat /\ currentBit \in 1 .. N + 1 /\ N \in Nat
        /\ (pc = "bit" => Left >= N + 3)
    BY LeftFacts DEF TypeOK
  <1> DEFINE bound == MaxDevices * (N + 3)
  <1> HIDE DEF Left, bound
  <1>3. Left <= bound /\ bound \in Nat
    BY <1>1 DEF bound
  <1>4. Remaining \in 0 .. bound + 2
    BY <1>2, <1>3 DEF Remaining
  <1> QED
    BY <1>4 DEF bound

(* The safety half of SearchEnds, for any length of the ids, any size of    *)
(* the array and any disturbances: at most MaxDevices * (N + 3) + 2 steps   *)
(* are left to a search, each of its own steps leaves fewer, and no         *)
(* disturbance of the bus leaves more (lines 153-164 and 457).              *)
THEOREM SearchShrinks ==
  Spec => /\ [](Remaining \in 0 .. MaxDevices * (N + 3) + 2)
          /\ [][Remaining' <= Remaining /\ (Program => Remaining' < Remaining)]_vars
  <1>1. TypeOK => Remaining \in 0 .. MaxDevices * (N + 3) + 2
    BY RemainingBounded
  <1>2. /\ TypeOK /\ TypeOK' /\ [Next]_vars
        /\ Remaining \in 0 .. MaxDevices * (N + 3) + 2
        /\ (Remaining \in 0 .. MaxDevices * (N + 3) + 2)'
        => [Remaining' <= Remaining /\ (Program => Remaining' < Remaining)]_vars
    <2> SUFFICES ASSUME TypeOK, TypeOK', Next,
                        Remaining \in 0 .. MaxDevices * (N + 3) + 2,
                        Remaining' \in 0 .. MaxDevices * (N + 3) + 2
                 PROVE  Remaining' <= Remaining /\ (Program => Remaining' < Remaining)
      OBVIOUS
    <2>1. Remaining \in Int /\ Remaining' \in Int
      BY ConstantAssumption
    <2>2. ASSUME Program PROVE Remaining' < Remaining
      <3>1. CASE Start
        <4>1. pc = "start" /\ pc' \in {"pass", "done"} /\ Left' = Left
          BY <3>1 DEF Start, Left
        <4> HIDE DEF Left
        <4> QED
          BY <4>1, LeftFacts DEF Remaining
      <3>2. CASE BeginPass
        <4>1. pc = "pass" /\ pc' = "bit" /\ Left' = Left /\ currentBit' = 1
          BY <3>2 DEF BeginPass, Left
        <4> HIDE DEF Left
        <4> QED
          BY <4>1, LeftFacts DEF Remaining
      <3>3. CASE ReadBits
        BY <3>3, StepLess DEF ReadBits
      <3>4. CASE EndPass
        BY <3>4, PassEndsLess DEF EndPass
      <3>5. CASE CheckCrc
        BY <3>5 DEF CheckCrc, Remaining
      <3> QED
        BY <2>2, <3>1, <3>2, <3>3, <3>4, <3>5 DEF Program
    <2>3. ASSUME Environment PROVE Remaining' <= Remaining
      <3>1. ASSUME NEW x, Plug(x) \/ Unplug(x) PROVE Remaining' = Remaining
        <4>1. UNCHANGED <<pc, numDevices, currentBit>>
          BY <3>1 DEF Plug, Unplug, search, pass
        <4> QED
          BY <4>1 DEF Remaining, Left
      <3>2. ASSUME NEW bitA, NEW bitB, Noise(bitA, bitB) PROVE Remaining' < Remaining
        BY <3>2, StepLess DEF Noise
      <3> QED
        BY <2>1, <2>3, <3>1, <3>2 DEF Environment
    <2> QED
      BY <2>1, <2>2, <2>3 DEF Next
  <1> QED
    BY <1>1, <1>2, TypeCorrect, PTL DEF Spec

-------------------------------------------------------------------------------
(* What the caller gets whatever happens on the bus: a search that succeeds *)
(* has at least one id and at most as many as the array holds, each with a  *)
(* right CRC; any other has none.                                           *)
Reported ==
  pc = "done" =>
    \/ result # "SEARCH_SUCCESSFUL" /\ numDevices = 0
    \/ /\ result = "SEARCH_SUCCESSFUL" /\ numDevices \in 1 .. MaxDevices
       /\ \A i \in 1 .. numDevices : devices[i] \in Valid

(* Until then there is no result, and each pass is counted.                 *)
Counted ==
  /\ pc # "done" => result = "none"
  /\ pc = "start" => numDevices = 0
  /\ pc = "crc" => numDevices > 0

(* Neither noise nor a device that comes or goes makes DS1W_SearchBuses     *)
(* report an id whose CRC is wrong, or a number of devices without ids      *)
(* (MZTS_DS1Wire.c:124-192).                                                *)
THEOREM OnlyValidReported == Spec => []Reported
  <1>1. Init => Reported /\ Counted
    BY DEF Init, Reported, Counted
  <1>2. TypeOK /\ Reported /\ Counted /\ [Next]_vars => Reported' /\ Counted'
    <2> SUFFICES ASSUME TypeOK, Reported, Counted, [Next]_vars
                 PROVE  Reported' /\ Counted'
      OBVIOUS
    <2>1. /\ numDevices \in 0 .. MaxDevices /\ MaxDevices \in Nat
          /\ pc \in {"start", "pass", "bit", "crc", "done"}
      BY ConstantAssumption DEF TypeOK
    <2>2. CASE Start
      BY <2>1, <2>2 DEF Start, Reported, Counted
    <2>3. CASE BeginPass
      BY <2>1, <2>3 DEF BeginPass, Reported, Counted
    <2>4. CASE \E a, b \in {0, 1} : Step(a, b)
      BY <2>1, <2>4 DEF Step, NoAnswer, Select, PassEnds, Reported, Counted
    <2>5. CASE EndPass
      BY <2>1, <2>5 DEF EndPass, PassEnds, Reported, Counted
    <2>6. CASE CheckCrc
      <3>1. CASE \A i \in 1 .. numDevices : devices[i] \in Valid
        BY <2>1, <2>6, <3>1 DEF CheckCrc, Reported, Counted
      <3>2. CASE ~ \A i \in 1 .. numDevices : devices[i] \in Valid
        BY <2>1, <2>6, <3>2 DEF CheckCrc, Reported, Counted
      <3> QED
        BY <3>1, <3>2
    <2>7. CASE UNCHANGED <<pc, result, numDevices, devices>>
      BY <2>7 DEF Reported, Counted
    <2>8. \A a, b \in {0, 1} : Noise(a, b) => Step(a, b)
      BY DEF Noise
    <2>9. ReadBits => \E a, b \in {0, 1} : Step(a, b)
      BY DEF ReadBits, Answer
    <2>10. \A x : Plug(x) \/ Unplug(x) => UNCHANGED <<pc, result, numDevices, devices>>
      BY DEF Plug, Unplug, search
    <2>11. UNCHANGED vars => UNCHANGED <<pc, result, numDevices, devices>>
      BY DEF vars, search
    <2> QED
      BY <2>2, <2>3, <2>4, <2>5, <2>6, <2>7, <2>8, <2>9, <2>10, <2>11
         DEF Next, Program, Environment
  <1> QED
    BY <1>1, <1>2, TypeCorrect, PTL DEF Spec
===============================================================================
