----------------------------- MODULE VcomRx_proofs -----------------------------
(***************************************************************************)
(* Theorems about the reception on a virtual COM port, for any number of   *)
(* buffers, packets and errors: its type correctness, that at most one     *)
(* reception is on its way, the order of the bytes, the one cause of a     *)
(* reception into a buffer in use, and what an empty ring means.           *)
(***************************************************************************)
EXTENDS VcomRx, SequenceTheorems, TLAPS

(* What taking the first element of a queue leaves.                         *)
LEMMA TailFacts ==
  ASSUME NEW S, NEW q \in Seq(S), q # << >>
  PROVE  /\ Tail(q) \in Seq(S) /\ Head(q) \in S
         /\ Len(Tail(q)) = Len(q) - 1 /\ Len(q) \in Nat /\ Len(q) > 0
  BY EmptySeq, HeadTailProperties, LenProperties

(* What appending to a queue gives.                                         *)
LEMMA AppendFacts ==
  ASSUME NEW S, NEW q \in Seq(S), NEW x \in S
  PROVE  /\ Append(q, x) \in Seq(S)
         /\ Len(Append(q, x)) = Len(q) + 1 /\ Len(q) \in Nat
  BY AppendProperties, LenProperties

(* The buffer after one of the ring is one of the ring.                     *)
LEMMA FollowingFact == \A i \in Bufs : Following(i) \in Bufs
  BY SizeAssumption DEF Bufs, Following

(* What arming a buffer does to the list of armed ones, or its refusal.     *)
LEMMA ArmingFacts ==
  ASSUME TypeOK, NEW q \in Seq(Bufs), NEW i \in Bufs, USB_Class_CDC_Recv_Data(q, i)
  PROVE  /\ armed' \in Seq(Bufs) /\ refused' \in BOOLEAN /\ errors' \in 0 .. MaxErrors
         /\ Len(q) \in Nat
         /\ \/ armed' = Append(q, i) /\ Len(armed') = Len(q) + 1 /\ refused' = FALSE
            \/ armed' = q /\ refused' = TRUE
  <1>1. Len(q) \in Nat /\ Append(q, i) \in Seq(Bufs) /\ Len(Append(q, i)) = Len(q) + 1
    BY AppendFacts
  <1>2. errors \in 0 .. MaxErrors /\ MaxErrors \in Nat
    BY SizeAssumption DEF TypeOK
  <1>3. CASE armed' = Append(q, i) /\ refused' = FALSE /\ UNCHANGED errors
    BY <1>1, <1>2, <1>3
  <1>4. CASE errors < MaxErrors /\ errors' = errors + 1 /\ armed' = q /\ refused' = TRUE
    <2>1. errors' \in 0 .. MaxErrors
      BY <1>2, <1>4
    <2> QED
      BY <1>1, <1>4, <2>1
  <1> QED
    BY <1>3, <1>4 DEF USB_Class_CDC_Recv_Data

-------------------------------------------------------------------------------
(* Type correctness is inductive: the controller keeps it, ...              *)
LEMMA ControllerTypes ==
  ASSUME TypeOK, Nothing \/ \E n \in 1 .. MaxLen : Packet(n)
  PROVE  TypeOK'
  <1> USE DEF TypeOK
  <1>1. CASE Nothing
    <2>1. armed # << >> /\ armed' = Tail(armed) /\ completed' = Append(completed, 0)
      BY <1>1 DEF Nothing, history
    <2>2. armed' \in Seq(Bufs)
      BY <2>1, TailFacts
    <2>3. 0 \in 0 .. MaxLen
      BY SizeAssumption
    <2>4. completed' \in Seq(0 .. MaxLen)
      BY <2>1, <2>3, AppendFacts
    <2>5. errors' \in 0 .. MaxErrors
      BY <1>1, SizeAssumption DEF Nothing
    <2> QED
      BY <1>1, <2>2, <2>4, <2>5 DEF Nothing, ring, history, mishaps
  <1>2. ASSUME NEW n \in 1 .. MaxLen, Packet(n) PROVE TypeOK'
    <2>1. armed # << >> /\ armed' = Tail(armed) /\ completed' = Append(completed, n)
      BY <1>2 DEF Packet
    <2>2. armed' \in Seq(Bufs) /\ Head(armed) \in Bufs
      BY <2>1, TailFacts
    <2>3. n \in 0 .. MaxLen
      BY SizeAssumption
    <2>4. completed' \in Seq(0 .. MaxLen)
      BY <2>1, <2>3, AppendFacts
    <2>5. sent' \in 0 .. MaxPackets /\ sent' = sent + 1
      BY <1>2, SizeAssumption DEF Packet
    <2>6. content' \in [Bufs -> 0 .. MaxPackets] /\ size' \in [0 .. MaxPackets -> 0 .. MaxLen]
      BY <1>2, <2>2, <2>3, <2>5 DEF Packet
    <2> QED
      BY <1>2, <2>2, <2>4, <2>5, <2>6 DEF Packet, ring, mishaps, trouble
  <1> QED
    BY <1>1, <1>2

(* ... so do the callbacks of the stack ...                                 *)
LEMMA CallbackTypes == ASSUME TypeOK, USB_DEV PROVE TypeOK'
  <1> USE DEF TypeOK
  <1>1. CASE BUS_RESET
    <2>1. errors' \in 0 .. MaxErrors /\ armed' \in Seq(Bufs)
      BY <1>1, EmptySeq, SizeAssumption DEF BUS_RESET
    <2> QED
      BY <1>1, <2>1 DEF BUS_RESET, ring, history, mishaps
  <1>2. CASE CONFIG_CHANGED
    <2>1. armed' \in Seq(Bufs) /\ refused' \in BOOLEAN /\ errors' \in 0 .. MaxErrors
      BY <1>2, EmptySeq, ArmingFacts DEF CONFIG_CHANGED
    <2>2. reconfigured' \in BOOLEAN
      BY <1>2 DEF CONFIG_CHANGED
    <2> QED
      BY <1>2, <2>1, <2>2 DEF CONFIG_CHANGED, ring, history
  <1>3. CASE DATA_RECEIVED
    <2>1. completed' \in Seq(0 .. MaxLen) /\ Head(completed) \in 0 .. MaxLen
      BY <1>3, TailFacts DEF DATA_RECEIVED
    <2>2. UNCHANGED <<configured, content, pc, sent, size, last, reconfigured, overtaken>>
      BY <1>3 DEF DATA_RECEIVED, history, mishaps
    <2>3. CASE Accept(Head(completed))
      <3>1. /\ len' \in [Bufs -> 0 .. MaxLen] /\ pos' \in [Bufs -> Nat]
            /\ flag' \in BOOLEAN /\ rx_tail' \in Bufs
        BY <2>1, <2>3 DEF Accept
      <3>2. /\ Following(rx_head) \in Bufs
            /\ USB_Class_CDC_Recv_Data(armed, Following(rx_head))
                 \/ UNCHANGED <<armed, refused, errors>>
        BY <2>3, FollowingFact DEF Accept, trouble
      <3>3. /\ rx_head' \in Bufs /\ rx_full' \in {0, 1} /\ armed' \in Seq(Bufs)
            /\ refused' \in BOOLEAN /\ errors' \in 0 .. MaxErrors
        <4>1. rx_head' \in Bufs /\ rx_full' \in {0, 1}
          BY <2>3, <3>2 DEF Accept
        <4> QED
          BY <3>2, <4>1, ArmingFacts
      <3> QED
        BY <2>1, <2>2, <3>1, <3>3
    <2>4. CASE Rearm
      <3>1. armed' \in Seq(Bufs) /\ refused' \in BOOLEAN /\ errors' \in 0 .. MaxErrors
        BY <2>4, ArmingFacts DEF Rearm
      <3> QED
        BY <2>1, <2>2, <2>4, <3>1 DEF Rearm, ring
    <2> QED
      BY <1>3, <2>3, <2>4 DEF DATA_RECEIVED
  <1> QED
    BY <1>1, <1>2, <1>3 DEF USB_DEV

(* ... and the reader.                                                      *)
LEMMA ReaderTypes == ASSUME TypeOK, VCom1_USB_get_data PROVE TypeOK'
  <1> USE DEF TypeOK
  <1>1. CASE Check \/ Flagged \/ TimedOut
    BY <1>1 DEF Check, Flagged, TimedOut, ring, bus, history, mishaps, trouble
  <1>2. CASE Take
    <2>1. last' \in (0 .. MaxPackets) \X Nat
      BY <1>2 DEF Take
    <2>2. pos' \in [Bufs -> Nat]
      BY <1>2 DEF Take
    <2> QED
      BY <1>2, <2>1, <2>2 DEF Take, bus, mishaps, trouble
  <1>3. CASE Free
    BY <1>3, FollowingFact DEF Free, bus, history, mishaps, trouble
  <1>4. CASE WasFull
    <2>1. overtaken' \in BOOLEAN
      BY <1>4 DEF WasFull
    <2> QED
      BY <1>4, <2>1 DEF WasFull, ClearFull, bus, history, trouble
  <1>5. CASE Advance
    BY <1>5, FollowingFact DEF Advance, bus, history, mishaps, trouble
  <1>6. CASE Arm
    <2>1. armed' \in Seq(Bufs) /\ refused' \in BOOLEAN /\ errors' \in 0 .. MaxErrors
      BY <1>6, ArmingFacts DEF Arm
    <2> QED
      BY <1>6, <2>1 DEF Arm, ring, history, mishaps
  <1> QED
    BY <1>1, <1>2, <1>3, <1>4, <1>5, <1>6 DEF VCom1_USB_get_data

(* The indices stay inside the ring, whatever order the callbacks and the   *)
(* reader take, for any number of buffers.                                  *)
THEOREM TypeCorrect == Spec => []TypeOK
  <1>1. Init => TypeOK
    <2> SUFFICES ASSUME Init PROVE TypeOK
      OBVIOUS
    <2>1. 0 \in Bufs /\ 0 \in 0 .. MaxLen /\ 0 \in 0 .. MaxPackets /\ 0 \in 0 .. MaxErrors
      BY SizeAssumption DEF Bufs
    <2>2. armed \in Seq(Bufs) /\ completed \in Seq(0 .. MaxLen)
      BY EmptySeq DEF Init
    <2>3. last \in (0 .. MaxPackets) \X Nat
      BY <2>1 DEF Init
    <2> QED
      BY <2>1, <2>2, <2>3 DEF Init, TypeOK
  <1>2. TypeOK /\ [Next]_vars => TypeOK'
    <2> SUFFICES ASSUME TypeOK, [Next]_vars PROVE TypeOK'
      OBVIOUS
    <2>1. CASE UNCHANGED vars
      BY <2>1 DEF TypeOK, vars, ring, bus, history, mishaps, trouble
    <2> QED
      BY <2>1, ControllerTypes, CallbackTypes, ReaderTypes DEF Next
  <1> QED
    BY <1>1, <1>2, PTL DEF Spec

-------------------------------------------------------------------------------
(* A reset comes after the callbacks of what is complete.                   *)
Quiet == ~configured => completed = << >>

(* The two lengths and the flag are numbers.                                *)
LEMMA DutyFacts ==
  ASSUME TypeOK
  PROVE  Len(armed) \in Nat /\ Len(completed) \in Nat /\ rx_full \in {0, 1}
  BY LenProperties DEF TypeOK

(* The controller turns an armed transfer into a completion.                *)
LEMMA ControllerKeeps ==
  ASSUME TypeOK, Quiet, OneReceive, Nothing \/ \E n \in 1 .. MaxLen : Packet(n)
  PROVE  OneReceive' /\ Quiet'
  <1>1. PICK n \in 0 .. MaxLen :
          /\ configured /\ configured' = configured
          /\ armed # << >> /\ armed' = Tail(armed) /\ completed' = Append(completed, n)
          /\ UNCHANGED <<rx_full, pc, reconfigured, refused>>
    BY SizeAssumption DEF Nothing, Packet, ring, mishaps, trouble
  <1>2. Len(armed') = Len(armed) - 1
    BY <1>1, TailFacts DEF TypeOK
  <1>3. Len(completed') = Len(completed) + 1
    BY <1>1, AppendFacts DEF TypeOK
  <1> QED
    BY <1>1, <1>2, <1>3, DutyFacts DEF OneReceive, Quiet

(* A callback arms the next buffer or leaves it to the reader.              *)
LEMMA CallbackKeeps ==
  ASSUME TypeOK, Quiet, OneReceive, USB_DEV
  PROVE  OneReceive' /\ Quiet'
  <1>1. CASE BUS_RESET
    BY <1>1 DEF BUS_RESET, OneReceive, Quiet
  <1>2. CASE CONFIG_CHANGED
    <2>1. \/ Len(armed') = 1 /\ refused' = FALSE
          \/ armed' = << >> /\ refused' = TRUE
      <3>1. rx_head \in Bufs /\ << >> \in Seq(Bufs) /\ Len(<< >>) = 0
        BY EmptySeq DEF TypeOK
      <3>2. USB_Class_CDC_Recv_Data(<< >>, rx_head)
        BY <1>2 DEF CONFIG_CHANGED
      <3>3. \/ Len(armed') = Len(<< >>) + 1 /\ refused' = FALSE
            \/ armed' = << >> /\ refused' = TRUE
        BY <3>1, <3>2, ArmingFacts
      <3> QED
        BY <3>1, <3>3
    <2>2. ~reconfigured' => rx_full = 0 /\ pc \notin {"advance", "arm"}
      BY <1>2 DEF CONFIG_CHANGED, TypeOK
    <2>3. /\ configured' /\ completed' = << >> /\ Len(<< >>) = 0
          /\ rx_full' = rx_full /\ pc' = pc /\ rx_full \in {0, 1}
      BY <1>2, EmptySeq, DutyFacts DEF CONFIG_CHANGED, ring
    <2>4. Len(armed') = IF refused' THEN 0 ELSE 1
      BY <2>1, <2>3
    <2> QED
      BY <2>2, <2>3, <2>4 DEF OneReceive, Quiet
  <1>3. CASE DATA_RECEIVED
    <2>1. /\ configured /\ configured' = configured
          /\ completed # << >> /\ completed' = Tail(completed)
          /\ UNCHANGED <<pc, reconfigured>>
      BY <1>3 DEF DATA_RECEIVED, mishaps
    <2>2. Len(completed') = Len(completed) - 1 /\ Len(completed) > 0
      BY <2>1, TailFacts DEF TypeOK
    <2>3. \/ Len(armed') = Len(armed) + 1 /\ refused' = FALSE /\ UNCHANGED rx_full
          \/ armed' = armed /\ refused' = TRUE /\ UNCHANGED rx_full
          \/ armed' = armed /\ rx_full' = 1 /\ UNCHANGED refused
      <3>1. \/ \E i \in Bufs : USB_Class_CDC_Recv_Data(armed, i) /\ UNCHANGED rx_full
            \/ armed' = armed /\ rx_full' = 1 /\ UNCHANGED refused
        BY <1>3, FollowingFact DEF DATA_RECEIVED, Accept, Rearm, TypeOK, ring, trouble
      <3>2. armed \in Seq(Bufs)
        BY DEF TypeOK
      <3> QED
        BY <3>1, <3>2, ArmingFacts
    <2> QED
      BY <2>1, <2>2, <2>3, DutyFacts DEF OneReceive, Quiet
  <1> QED
    BY <1>1, <1>2, <1>3 DEF USB_DEV

(* The reader takes over what the callback left.                            *)
LEMMA ReaderKeeps ==
  ASSUME TypeOK, Quiet, OneReceive, VCom1_USB_get_data
  PROVE  OneReceive' /\ Quiet'
  <1> USE DEF OneReceive, Quiet
  <1>1. CASE Check \/ Flagged \/ TimedOut
    BY <1>1 DEF Check, Flagged, TimedOut, ring, bus, history, mishaps, trouble
  <1>2. CASE Take \/ Free
    BY <1>2 DEF Take, Free, bus, mishaps, trouble
  <1>3. CASE WasFull
    BY <1>3, DutyFacts DEF WasFull, ClearFull, bus, trouble
  <1>4. CASE Advance
    BY <1>4 DEF Advance, bus, mishaps, trouble
  <1>5. CASE Arm
    <2>1. \/ Len(armed') = Len(armed) + 1 /\ refused' = FALSE
          \/ armed' = armed /\ refused' = TRUE
      BY <1>5, ArmingFacts DEF Arm, TypeOK
    <2> QED
      BY <1>5, <2>1, DutyFacts DEF Arm, ring, mishaps
  <1> QED
    BY <1>1, <1>2, <1>3, <1>4, <1>5 DEF VCom1_USB_get_data

(* Both hold in every reachable state.                                      *)
LEMMA QuietAlways == Spec => [](OneReceive /\ Quiet)
  <1>1. Init => OneReceive /\ Quiet
    BY DEF Init, OneReceive, Quiet
  <1>2. TypeOK /\ Quiet /\ OneReceive /\ [Next]_vars => (OneReceive /\ Quiet)'
    <2> SUFFICES ASSUME TypeOK, Quiet, OneReceive, [Next]_vars PROVE (OneReceive /\ Quiet)'
      OBVIOUS
    <2>1. CASE UNCHANGED vars
      BY <2>1 DEF OneReceive, Quiet, vars, ring, bus, mishaps, trouble
    <2> QED
      BY <2>1, ControllerKeeps, CallbackKeeps, ReaderKeeps DEF Next
  <1> QED
    BY <1>1, <1>2, TypeCorrect, PTL DEF Spec

(* The flow control without a lock keeps exactly one duty to see to the     *)
(* next packet, for any number of buffers (lines 314-329 and 483-505), as   *)
(* long as the host does not configure the device while the ring is full,   *)
(* and none from a refused arming (lines 209, 319, 336 and 503) until the   *)
(* next configuration: nobody tries again.                                  *)
THEOREM OneReception == Spec => []OneReceive
  BY QuietAlways, PTL

-------------------------------------------------------------------------------
(* Why the bytes are read in order.  Dist counts the buffers from the tail; *)
(* Base is the packet that belongs in the buffer at the tail.               *)
Dist(t, i) == IF i >= t THEN i - t ELSE i - t + IN_BUF_QUANTITY

Mid == last[2] < size[last[1]]

Base == IF Mid \/ pc = "free" THEN last[1] ELSE last[1] + 1

HeadFull == rx_full = 1 \/ pc = "advance"

Filled(i) == Dist(rx_tail, i) < Dist(rx_tail, rx_head) \/ (i = rx_head /\ HeadFull)

Pending == completed # << >> /\ Head(completed) > 0

(* The reader: it reads, and has read a part of, a filled buffer only.      *)
Reading ==
  /\ last[2] <= size[last[1]]
  /\ Mid \/ pc \in {"take", "free"} => rx_head # rx_tail
  /\ pc \in {"free", "full", "advance", "arm"} => ~Mid
  /\ pc = "advance" => Following(rx_head) # rx_tail /\ rx_full = 0

(* The ring: its filled buffers hold consecutive packets, the last of which *)
(* is the last sent, but for one that waits for its callback at the head.   *)
Counted ==
  sent = Base + Dist(rx_tail, rx_head) - (IF HeadFull \/ Pending THEN 0 ELSE 1)

Holds(i) ==
  /\ content[i] = Base + Dist(rx_tail, i)
  /\ len[i] = size[content[i]] /\ len[i] > 0
  /\ i # rx_tail => pos[i] = 0
  /\ i = rx_tail /\ pc # "free" => pos[i] = IF Mid THEN last[2] ELSE 0

Consecutive == \A i \in Bufs : Filled(i) => Holds(i)

(* The controller writes into the buffer at the head.                       *)
AtHead ==
  /\ Pending => content[rx_head] = sent /\ size[sent] = Head(completed)
  /\ configured /\ armed # << >> => Head(armed) = rx_head

InOrderInv == Reading /\ Counted /\ Consecutive /\ AtHead

NoMishap == ~reconfigured /\ ~overtaken

(* Distances in the ring.                                                   *)
LEMMA RingFacts ==
  ASSUME NEW t \in Bufs, NEW i \in Bufs
  PROVE  /\ Dist(t, i) \in 0 .. IN_BUF_QUANTITY - 1
         /\ Dist(t, i) = 0 <=> i = t
         /\ Following(i) # t => Dist(t, Following(i)) = Dist(t, i) + 1
         /\ Following(i) = t => Dist(t, i) = IN_BUF_QUANTITY - 1
         /\ i # t => Dist(Following(t), i) = Dist(t, i) - 1
         /\ Dist(Following(t), t) = IN_BUF_QUANTITY - 1
  BY SizeAssumption DEF Bufs, Dist, Following

(* Different buffers have different distances.                              *)
LEMMA DistInjective ==
  ASSUME NEW t \in Bufs, NEW i \in Bufs, NEW j \in Bufs, Dist(t, i) = Dist(t, j)
  PROVE  i = j
  BY SizeAssumption DEF Bufs, Dist

(* The numbers among the variables.                                         *)
LEMMA Numbers ==
  ASSUME TypeOK
  PROVE  /\ rx_head \in Bufs /\ rx_tail \in Bufs
         /\ last[1] \in 0 .. MaxPackets /\ last[1] \in Nat /\ last[2] \in Nat
         /\ sent \in Nat /\ Base \in Nat
         /\ \A p \in 0 .. MaxPackets : size[p] \in Nat
         /\ \A i \in Bufs : content[i] \in 0 .. MaxPackets /\ Dist(rx_tail, i) \in Nat
  <1>1. rx_head \in Bufs /\ rx_tail \in Bufs
    BY DEF TypeOK
  <1>2. last[1] \in 0 .. MaxPackets /\ last[2] \in Nat
    BY DEF TypeOK
  <1>3. last[1] \in Nat /\ Base \in Nat /\ sent \in Nat
    BY <1>2, SizeAssumption DEF Base, TypeOK
  <1>4. \A p \in 0 .. MaxPackets : size[p] \in Nat
    BY SizeAssumption DEF TypeOK
  <1>5. \A i \in Bufs : content[i] \in 0 .. MaxPackets
    BY DEF TypeOK
  <1>6. \A i \in Bufs : Dist(rx_tail, i) \in Nat
    BY <1>1, RingFacts, SizeAssumption
  <1> QED
    BY <1>1, <1>2, <1>3, <1>4, <1>5, <1>6

(* What the invariant says of packets read or filled: they have been sent.  *)
LEMMA SentBefore ==
  ASSUME TypeOK, InOrderInv
  PROVE  /\ last[1] <= sent
         /\ \A i \in Bufs : Filled(i) => content[i] <= sent
  <1>1. last[1] <= sent
    <2>1. CASE Mid \/ pc = "free"
      <3>1. Dist(rx_tail, rx_head) > 0
        BY <2>1, RingFacts, Numbers, SizeAssumption DEF InOrderInv, Reading
      <3> QED
        BY <2>1, <3>1, Numbers DEF InOrderInv, Counted, Base
    <2>2. CASE ~(Mid \/ pc = "free")
      BY <2>2, Numbers DEF InOrderInv, Counted, Base
    <2> QED
      BY <2>1, <2>2
  <1>2. ASSUME NEW i \in Bufs, Filled(i) PROVE content[i] <= sent
    <2>1. content[i] = Base + Dist(rx_tail, i)
      BY <1>2 DEF InOrderInv, Consecutive, Holds
    <2>2. CASE Dist(rx_tail, i) < Dist(rx_tail, rx_head)
      BY <2>1, <2>2, Numbers DEF InOrderInv, Counted
    <2>3. CASE i = rx_head /\ HeadFull
      BY <2>1, <2>3, Numbers DEF InOrderInv, Counted
    <2> QED
      BY <1>2, <2>2, <2>3 DEF Filled
  <1> QED
    BY <1>1, <1>2

(* One element, taken or put.                                               *)
LEMMA OneElement ==
  ASSUME NEW S, NEW q \in Seq(S), NEW x \in S
  PROVE  /\ Len(q) = 0 <=> q = << >>
         /\ q = << >> => Append(q, x) # << >> /\ Head(Append(q, x)) = x
         /\ q # << >> /\ Len(q) = 1 => Tail(q) = << >>
  <1>1. Len(q) = 0 <=> q = << >>
    BY EmptySeq
  <1>2. q = << >> => Append(q, x) # << >> /\ Head(Append(q, x)) = x
    <2>1. SUFFICES ASSUME q = << >> PROVE Append(q, x) # << >> /\ Head(Append(q, x)) = x
      OBVIOUS
    <2>2. Append(q, x) \in Seq(S) /\ Len(Append(q, x)) = 1 /\ Append(q, x)[1] = x
      BY <2>1, AppendProperties, EmptySeq
    <2>3. Append(q, x) # << >>
      BY <2>2, EmptySeq
    <2>4. Head(Append(q, x)) = Append(q, x)[1]
      OBVIOUS
    <2> QED
      BY <2>2, <2>3, <2>4
  <1>3. q # << >> /\ Len(q) = 1 => Tail(q) = << >>
    <2>1. SUFFICES ASSUME q # << >>, Len(q) = 1 PROVE Tail(q) = << >>
      OBVIOUS
    <2>2. Tail(q) \in Seq(S) /\ Len(Tail(q)) = Len(q) - 1
      BY <2>1, TailFacts
    <2>3. Len(Tail(q)) = 0
      BY <2>1, <2>2
    <2> QED
      BY <2>2, <2>3, EmptySeq
  <1> QED
    BY <1>1, <1>2, <1>3

(* The duty that OneReceive counts, from the controller's side ...          *)
LEMMA DutyOfBus ==
  ASSUME TypeOK, OneReceive, configured, ~reconfigured,
         armed # << >> \/ completed # << >>
  PROVE  /\ rx_full = 0 /\ pc \notin {"advance", "arm"} /\ ~HeadFull
         /\ armed # << >> => completed = << >> /\ Len(armed) = 1
         /\ completed # << >> => armed = << >> /\ Len(completed) = 1
  <1>1. /\ Len(armed) \in Nat /\ Len(completed) \in Nat /\ rx_full \in {0, 1}
        /\ Len(armed) = 0 <=> armed = << >>
        /\ Len(completed) = 0 <=> completed = << >>
    BY DutyFacts, EmptySeq DEF TypeOK
  <1>2. Len(armed) + Len(completed) + rx_full
          + (IF pc \in {"advance", "arm"} THEN 1 ELSE 0) = 1
    BY <1>1 DEF OneReceive
  <1>3. rx_full = 0 /\ pc \notin {"advance", "arm"}
    BY <1>1, <1>2
  <1>4. Len(armed) + Len(completed) = 1
    BY <1>1, <1>2, <1>3
  <1>5. /\ armed # << >> => completed = << >> /\ Len(armed) = 1
        /\ completed # << >> => armed = << >> /\ Len(completed) = 1
    <2>1. \A m, n \in Nat : m + n = 1 => (m # 0 => m = 1 /\ n = 0)
                                        /\ (n # 0 => n = 1 /\ m = 0)
      OBVIOUS
    <2>2. Len(armed) \in Nat /\ Len(completed) \in Nat
      BY <1>1
    <2>3. /\ Len(armed) # 0 => Len(armed) = 1 /\ Len(completed) = 0
          /\ Len(completed) # 0 => Len(completed) = 1 /\ Len(armed) = 0
      BY <1>4, <2>1, <2>2
    <2> QED
      BY <1>1, <2>3
  <1> QED
    BY <1>3, <1>5 DEF HeadFull

(* ... and from the reader's.                                               *)
LEMMA DutyOfReader ==
  ASSUME TypeOK, OneReceive, configured, ~reconfigured,
         rx_full = 1 \/ pc \in {"advance", "arm"}
  PROVE  armed = << >> /\ completed = << >>
  BY DutyOfBus

(* A packet comes into the buffer at the head.                              *)
LEMMA PacketOrders ==
  ASSUME TypeOK, OneReceive, NoMishap, InOrderInv, NEW n \in 1 .. MaxLen, Packet(n)
  PROVE  InOrderInv'
  <1>1. /\ configured /\ armed # << >> /\ sent < MaxPackets /\ sent' = sent + 1
        /\ size' = [size EXCEPT ![sent + 1] = n]
        /\ content' = [content EXCEPT ![Head(armed)] = sent + 1]
        /\ armed' = Tail(armed) /\ completed' = Append(completed, n)
        /\ UNCHANGED <<configured, rx_head, rx_tail, rx_full, len, pos, pc, last>>
    BY DEF Packet, ring
  <1>2. completed = << >> /\ Len(armed) = 1 /\ ~HeadFull /\ Head(armed) = rx_head
    BY <1>1, DutyOfBus DEF NoMishap, InOrderInv, AtHead
  <1>3. ~Pending /\ armed' = << >> /\ completed' # << >> /\ Head(completed') = n
    <2>1. n \in 0 .. MaxLen
      BY SizeAssumption
    <2>2. completed' # << >> /\ Head(completed') = n
      BY <1>1, <1>2, <2>1, OneElement DEF TypeOK
    <2>3. armed' = << >>
      BY <1>1, <1>2, OneElement DEF TypeOK
    <2> QED
      BY <1>2, <2>2, <2>3 DEF Pending
  <1>4. Pending'
    BY <1>3, SizeAssumption DEF Pending
  <1>5. \A p \in 0 .. sent : size'[p] = size[p]
    BY <1>1, Numbers DEF TypeOK
  <1>6. /\ size'[last'[1]] = size[last[1]] /\ (Mid' <=> Mid)
        /\ Base' = Base /\ (HeadFull' <=> HeadFull)
    <2>1. last[1] \in 0 .. sent
      BY SentBefore, Numbers
    <2>2. size'[last'[1]] = size[last[1]]
      BY <1>1, <1>5, <2>1
    <2>3. Mid' <=> Mid
      BY <1>1, <2>2 DEF Mid
    <2>4. Base' = Base
      BY <1>1, <2>3 DEF Base
    <2> QED
      BY <1>1, <2>2, <2>3, <2>4 DEF HeadFull
  <1>7. Reading'
    BY <1>1, <1>6 DEF InOrderInv, Reading
  <1>8. Counted'
    BY <1>1, <1>2, <1>3, <1>4, <1>6, Numbers DEF InOrderInv, Counted
  <1>9. Consecutive'
    <2>1. SUFFICES ASSUME NEW i \in Bufs, Filled(i)' PROVE Holds(i)'
      BY DEF Consecutive
    <2>2. Filled(i) /\ i # rx_head
      BY <1>1, <1>2, <1>6, <2>1, Numbers DEF Filled
    <2>3. content'[i] = content[i] /\ content[i] \in 0 .. sent
      <3>1. content'[i] = content[i]
        BY <1>1, <1>2, <2>2 DEF TypeOK
      <3>2. content[i] \in 0 .. MaxPackets /\ content[i] <= sent /\ sent \in Nat
        BY <2>2, SentBefore, Numbers
      <3> QED
        BY <3>1, <3>2, SizeAssumption
    <2>4. Holds(i)
      BY <2>2 DEF InOrderInv, Consecutive
    <2> QED
      BY <1>1, <1>5, <1>6, <2>3, <2>4 DEF Holds
  <1>10. AtHead'
    <2>1. content'[rx_head] = sent + 1 /\ size'[sent + 1] = n
      <3>1. content'[rx_head] = sent + 1
        BY <1>1, <1>2, Numbers DEF TypeOK
      <3>2. sent + 1 \in 0 .. MaxPackets
        BY <1>1, Numbers, SizeAssumption
      <3> QED
        BY <1>1, <3>1, <3>2 DEF TypeOK
    <2> QED
      BY <1>1, <1>3, <2>1 DEF AtHead
  <1> QED
    BY <1>7, <1>8, <1>9, <1>10 DEF InOrderInv

(* When only the lists of transfers change, and no packet with them, the    *)
(* order remains.                                                           *)
LEMMA SameRing ==
  ASSUME InOrderInv, UNCHANGED <<ring, content, pc, last, sent, size>>,
         ~Pending, ~Pending', (configured /\ armed # << >> => Head(armed) = rx_head)'
  PROVE  InOrderInv'
  <1>1. UNCHANGED <<rx_head, rx_tail, rx_full, len, pos>>
    BY DEF ring
  <1>2. /\ (Mid' <=> Mid) /\ Base' = Base /\ (HeadFull' <=> HeadFull)
        /\ \A i : Filled(i)' <=> Filled(i)
    BY <1>1 DEF Mid, Base, HeadFull, Filled
  <1>3. Reading' /\ Counted'
    BY <1>1, <1>2 DEF InOrderInv, Reading, Counted
  <1>4. Consecutive'
    BY <1>1, <1>2 DEF InOrderInv, Consecutive, Holds
  <1> QED
    BY <1>3, <1>4 DEF InOrderInv, AtHead

(* An empty transfer, a reset and a configuration bring no packet.          *)
LEMMA NoPacketOrders ==
  ASSUME TypeOK, OneReceive, Quiet, NoMishap', NoMishap, InOrderInv,
         Nothing \/ BUS_RESET \/ CONFIG_CHANGED
  PROVE  InOrderInv'
  <1>1. CASE Nothing
    <2>1. /\ configured /\ armed # << >> /\ armed' = Tail(armed)
          /\ completed' = Append(completed, 0) /\ UNCHANGED configured
          /\ UNCHANGED <<ring, content, pc, last, sent, size>>
      BY <1>1 DEF Nothing, history
    <2>2. completed = << >> /\ Len(armed) = 1
      BY <2>1, DutyOfBus DEF NoMishap
    <2>3. 0 \in 0 .. MaxLen
      BY SizeAssumption
    <2>4. Head(completed') = 0
      BY <2>1, <2>2, <2>3, OneElement DEF TypeOK
    <2>5. armed' = << >>
      BY <2>1, <2>2, OneElement DEF TypeOK
    <2> QED
      BY <2>1, <2>2, <2>4, <2>5, SameRing DEF Pending
  <1>2. CASE BUS_RESET
    <2>1. /\ completed = << >> /\ UNCHANGED completed /\ armed' = << >>
          /\ UNCHANGED <<ring, content, pc, last, sent, size>>
      BY <1>2 DEF BUS_RESET, history
    <2> QED
      BY <2>1, SameRing DEF Pending
  <1>3. CASE CONFIG_CHANGED
    <2>1. /\ completed = << >> /\ UNCHANGED <<rx_head, completed>>
          /\ armed' = Append(<< >>, rx_head) \/ armed' = << >>
          /\ UNCHANGED <<ring, content, pc, last, sent, size>>
      BY <1>3 DEF CONFIG_CHANGED, USB_Class_CDC_Recv_Data, ring, history
    <2>2. armed' # << >> => Head(armed') = rx_head
      BY <2>1, Numbers, OneElement, EmptySeq
    <2> QED
      BY <2>1, <2>2, SameRing DEF Pending
  <1> QED
    BY <1>1, <1>2, <1>3

(* A callback puts the packet at the head behind the others.                *)
LEMMA CallbackOrders ==
  ASSUME TypeOK, OneReceive, NoMishap, InOrderInv, DATA_RECEIVED
  PROVE  InOrderInv'
  <1>1. /\ configured /\ completed # << >> /\ completed' = Tail(completed)
        /\ UNCHANGED <<configured, content, pc, sent, size, last>>
    BY DEF DATA_RECEIVED, history, mishaps
  <1>2. armed = << >> /\ Len(completed) = 1 /\ rx_full = 0 /\ ~HeadFull /\ pc # "advance"
    BY <1>1, DutyOfBus DEF NoMishap
  <1>3. completed' = << >> /\ ~Pending'
    BY <1>1, <1>2, OneElement, TailFacts, EmptySeq DEF TypeOK, Pending
  <1>4. CASE Head(completed) = 0 /\ Rearm
    <2>1. UNCHANGED ring /\ armed' \in {Append(armed, rx_head), armed} /\ rx_head' = rx_head
      BY <1>4 DEF Rearm, USB_Class_CDC_Recv_Data, ring
    <2>2. armed' # << >> => Head(armed') = rx_head
      BY <1>2, <2>1, Numbers, OneElement DEF TypeOK
    <2>3. ~Pending
      BY <1>4 DEF Pending
    <2> QED
      BY <1>1, <1>3, <2>1, <2>2, <2>3, SameRing
  <1>5. CASE Head(completed) > 0 /\ Accept(Head(completed))
    <2>1. Pending
      BY <1>1, <1>5 DEF Pending
    <2>2. /\ content[rx_head] = sent /\ size[sent] = Head(completed) /\ Head(completed) \in Nat
          /\ sent = Base + Dist(rx_tail, rx_head)
      <3>1. Head(completed) \in 0 .. MaxLen
        BY <1>1, TailFacts DEF TypeOK
      <3>2. sent = Base + Dist(rx_tail, rx_head)
        BY <2>1, Numbers DEF InOrderInv, Counted
      <3> QED
        BY <2>1, <3>1, <3>2, SizeAssumption DEF InOrderInv, AtHead
    <2>3. /\ len' = [len EXCEPT ![rx_head] = Head(completed)]
          /\ pos' = [pos EXCEPT ![rx_head] = 0]
          /\ rx_tail' = rx_tail
          /\ \/ /\ Following(rx_head) # rx_tail /\ rx_head' = Following(rx_head)
                /\ armed' \in {Append(armed, Following(rx_head)), armed} /\ rx_full' = rx_full
             \/ /\ Following(rx_head) = rx_tail /\ rx_full' = 1
                /\ UNCHANGED <<rx_head, armed>>
      BY <1>5 DEF Accept, USB_Class_CDC_Recv_Data
    <2>4. /\ len'[rx_head] = Head(completed) /\ pos'[rx_head] = 0
          /\ \A i \in Bufs \ {rx_head} : len'[i] = len[i] /\ pos'[i] = pos[i]
      BY <2>3, Numbers DEF TypeOK
    <2>5. (Mid' <=> Mid) /\ Base' = Base
      BY <1>1 DEF Mid, Base
    <2>6. rx_head = rx_tail => ~Mid
      BY DEF InOrderInv, Reading
    <2>7. rx_head \in Bufs /\ rx_tail \in Bufs /\ Following(rx_head) \in Bufs
      BY Numbers, FollowingFact
    <2>8. Reading'
      <3>1. rx_head' # rx_tail' \/ rx_head' = rx_head
        BY <2>3
      <3> QED
        BY <1>1, <1>2, <2>3, <2>5, <3>1 DEF InOrderInv, Reading
    <2>9. ASSUME NEW i \in Bufs, Filled(i) \/ i = rx_head PROVE Holds(i)'
      <3>1. CASE i = rx_head
        <4>1. content'[i] = Base' + Dist(rx_tail', i) /\ len'[i] = size'[content'[i]]
              /\ len'[i] > 0 /\ pos'[i] = 0
          BY <1>1, <1>5, <2>2, <2>3, <2>4, <2>5, <3>1
        <4>2. i = rx_tail' => ~Mid'
          BY <2>3, <2>5, <2>6, <3>1
        <4> QED
          BY <4>1, <4>2 DEF Holds
      <3>2. CASE i # rx_head
        <4>1. Holds(i)
          BY <2>9, <3>2 DEF InOrderInv, Consecutive
        <4> QED
          BY <1>1, <2>3, <2>4, <2>5, <3>2, <4>1 DEF Holds
      <3> QED
        BY <3>1, <3>2
    <2>10. CASE Following(rx_head) # rx_tail
      <3>1. /\ rx_head' = Following(rx_head)
            /\ armed' \in {Append(armed, Following(rx_head)), armed}
            /\ rx_full' = 0 /\ ~HeadFull'
        BY <1>1, <1>2, <2>3, <2>10 DEF HeadFull
      <3>2. Dist(rx_tail, rx_head') = Dist(rx_tail, rx_head) + 1
        BY <2>7, <2>10, <3>1, RingFacts
      <3>3. Counted'
        BY <1>1, <1>3, <2>2, <2>3, <2>5, <3>1, <3>2, Numbers DEF Counted
      <3>4. ASSUME NEW i \in Bufs, Filled(i)' PROVE Filled(i) \/ i = rx_head
        <4>1. Dist(rx_tail, i) < Dist(rx_tail, rx_head) + 1
          BY <2>3, <3>1, <3>2, <3>4 DEF Filled
        <4>2. \/ Dist(rx_tail, i) < Dist(rx_tail, rx_head)
              \/ Dist(rx_tail, i) = Dist(rx_tail, rx_head)
          BY <2>7, <4>1, Numbers
        <4> QED
          BY <2>7, <4>2, DistInjective DEF Filled
      <3>5. Consecutive'
        BY <2>9, <3>4 DEF Consecutive
      <3>6. armed' # << >> => Head(armed') = rx_head'
        BY <1>2, <2>7, <3>1, OneElement DEF TypeOK
      <3> QED
        BY <1>3, <2>8, <3>3, <3>5, <3>6 DEF InOrderInv, AtHead
    <2>11. CASE Following(rx_head) = rx_tail
      <3>1. UNCHANGED <<rx_head, armed>> /\ HeadFull'
        BY <2>3, <2>11 DEF HeadFull
      <3>2. Counted'
        BY <1>1, <2>2, <2>3, <2>5, <3>1, Numbers DEF Counted
      <3>3. \A i \in Bufs : Filled(i)' => Filled(i) \/ i = rx_head
        BY <2>3, <3>1 DEF Filled
      <3>4. Consecutive'
        BY <2>9, <3>3 DEF Consecutive
      <3> QED
        BY <1>2, <1>3, <2>8, <3>1, <3>2, <3>4 DEF InOrderInv, AtHead
    <2> QED
      BY <2>10, <2>11
  <1> QED
    BY <1>4, <1>5 DEF DATA_RECEIVED

(* The reader looks, ...                                                    *)
LEMMA LookOrders ==
  ASSUME TypeOK, InOrderInv, Check \/ Flagged \/ TimedOut
  PROVE  InOrderInv'
  <1>1. /\ UNCHANGED <<configured, rx_head, rx_tail, rx_full, len, pos, content, armed,
                       completed, sent, size, last>>
        /\ pc \in {"check", "wait"} /\ pc' \in {"check", "wait", "take"}
        /\ pc' = "take" => rx_head # rx_tail
    BY DEF Check, Flagged, TimedOut, IsEmpty, ring, bus, history
  <1>2. /\ (Mid' <=> Mid) /\ Base' = Base /\ (HeadFull' <=> HeadFull) /\ (Pending' <=> Pending)
        /\ \A i \in Bufs : Filled(i)' <=> Filled(i)
    BY <1>1 DEF Mid, Base, HeadFull, Filled, Pending
  <1>3. Reading' /\ Counted'
    BY <1>1, <1>2 DEF InOrderInv, Reading, Counted
  <1>4. Consecutive' /\ AtHead'
    BY <1>1, <1>2 DEF InOrderInv, Consecutive, Holds, AtHead
  <1> QED
    BY <1>3, <1>4 DEF InOrderInv

(* ... takes the next byte, ...                                             *)
LEMMA TakeOrders ==
  ASSUME TypeOK, InOrderInv, Take
  PROVE  InOrderInv' /\ IsNext(last')
  <1>1. /\ pc = "take" /\ rx_head # rx_tail
        /\ last' = <<content[rx_tail], pos[rx_tail] + 1>>
        /\ pos' = [pos EXCEPT ![rx_tail] = pos[rx_tail] + 1]
        /\ pc' = IF pos[rx_tail] + 1 >= len[rx_tail] THEN "free" ELSE "check"
        /\ UNCHANGED <<configured, rx_head, rx_tail, rx_full, len, content, armed,
                       completed, sent, size>>
    BY DEF Take, Ends, bus, InOrderInv, Reading
  <1>2. Filled(rx_tail)
    BY <1>1, RingFacts, Numbers, SizeAssumption DEF Filled
  <1>3. /\ content[rx_tail] = Base /\ len[rx_tail] = size[Base] /\ len[rx_tail] > 0
        /\ pos[rx_tail] = IF Mid THEN last[2] ELSE 0
        /\ Base = IF Mid THEN last[1] ELSE last[1] + 1
    <2>1. Holds(rx_tail) /\ Dist(rx_tail, rx_tail) = 0
      BY <1>2, Numbers, RingFacts DEF InOrderInv, Consecutive
    <2> QED
      BY <1>1, <2>1, Numbers DEF Holds, Base
  <1>4. Base \in 0 .. MaxPackets /\ size[Base] \in Nat /\ pos[rx_tail] \in Nat
        /\ pos[rx_tail] < size[Base]
    <2>1. Base \in 0 .. MaxPackets /\ size[Base] \in Nat
      BY <1>3, Numbers
    <2>2. CASE Mid
      BY <1>3, <2>1, <2>2, Numbers DEF Mid
    <2>3. CASE ~Mid
      BY <1>3, <2>1, <2>3
    <2> QED
      BY <2>1, <2>2, <2>3
  <1>5. last' = <<Base, pos[rx_tail] + 1>> /\ last'[1] = Base /\ last'[2] = pos[rx_tail] + 1
    BY <1>1, <1>3
  <1>6. IsNext(last')
    BY <1>3, <1>5 DEF IsNext, Mid
  <1>7. /\ last'[2] <= size'[last'[1]]
        /\ Mid' <=> pos[rx_tail] + 1 < size[Base]
        /\ pc' = IF Mid' THEN "check" ELSE "free"
    <2>1. size'[last'[1]] = size[Base]
      BY <1>1, <1>5
    <2>2. Mid' <=> pos[rx_tail] + 1 < size[Base]
      BY <1>5, <2>1 DEF Mid
    <2>3. pos[rx_tail] + 1 <= size[Base]
      BY <1>4
    <2>4. pos[rx_tail] + 1 >= len[rx_tail] <=> ~Mid'
      BY <1>3, <1>4, <2>2
    <2> QED
      BY <1>1, <1>5, <2>1, <2>2, <2>3, <2>4
  <1>8. Base' = Base
    BY <1>5, <1>7 DEF Base
  <1>9. (HeadFull' <=> HeadFull) /\ (Pending' <=> Pending)
        /\ \A i \in Bufs : Filled(i)' <=> Filled(i)
    BY <1>1, <1>7 DEF HeadFull, Pending, Filled
  <1>10. Reading' /\ Counted' /\ AtHead'
    BY <1>1, <1>7, <1>8, <1>9 DEF InOrderInv, Reading, Counted, AtHead
  <1>11. Consecutive'
    <2>1. SUFFICES ASSUME NEW i \in Bufs, Filled(i) PROVE Holds(i)'
      BY <1>9 DEF Consecutive
    <2>2. Holds(i)
      BY <2>1 DEF InOrderInv, Consecutive
    <2>3. i # rx_tail => pos'[i] = 0
      BY <1>1, <2>2 DEF Holds, TypeOK
    <2>4. i = rx_tail /\ pc' # "free" => pos'[i] = IF Mid' THEN last'[2] ELSE 0
      BY <1>1, <1>5, <1>7 DEF TypeOK
    <2> QED
      BY <1>1, <1>8, <2>2, <2>3, <2>4 DEF Holds
  <1> QED
    BY <1>6, <1>10, <1>11 DEF InOrderInv

(* ... gives the buffer back, ...                                           *)
LEMMA FreeOrders ==
  ASSUME TypeOK, InOrderInv, Free
  PROVE  InOrderInv'
  <1>1. /\ pc = "free" /\ pc' = "full" /\ rx_head # rx_tail /\ ~Mid
        /\ rx_tail' = Following(rx_tail)
        /\ UNCHANGED <<configured, rx_head, rx_full, len, pos, content, armed, completed,
                       sent, size, last>>
    BY DEF Free, bus, history, InOrderInv, Reading
  <1>2. (Mid' <=> Mid) /\ Base' = Base + 1 /\ (HeadFull' <=> HeadFull)
        /\ (Pending' <=> Pending)
    BY <1>1 DEF Mid, Base, HeadFull, Pending
  <1>3. \A i \in Bufs : i # rx_tail => Dist(rx_tail', i) = Dist(rx_tail, i) - 1
    BY <1>1, Numbers, RingFacts
  <1>4. Dist(rx_tail', rx_tail) = IN_BUF_QUANTITY - 1
    BY <1>1, Numbers, RingFacts
  <1>5. Reading'
    BY <1>1, <1>2 DEF InOrderInv, Reading
  <1>6. Counted'
    BY <1>1, <1>2, <1>3, Numbers DEF InOrderInv, Counted
  <1>7. Consecutive'
    <2>1. SUFFICES ASSUME NEW i \in Bufs, Filled(i)' PROVE Holds(i)'
      BY DEF Consecutive
    <2>2. i # rx_tail
      <3>1. Dist(rx_tail', rx_head) <= IN_BUF_QUANTITY - 1
        BY <1>1, Numbers, RingFacts, FollowingFact, SizeAssumption
      <3>2. Dist(rx_tail', rx_head) \in Nat
        BY <1>1, Numbers, RingFacts, FollowingFact, SizeAssumption
      <3>3. ~(Dist(rx_tail', rx_tail) < Dist(rx_tail', rx_head))
        BY <1>4, <3>1, <3>2, SizeAssumption
      <3> QED
        BY <1>1, <2>1, <3>3 DEF Filled
    <2>3. Filled(i)
      BY <1>1, <1>2, <1>3, <2>1, <2>2, Numbers DEF Filled
    <2>4. Holds(i)
      BY <2>3 DEF InOrderInv, Consecutive
    <2>5. content[i] = Base' + Dist(rx_tail', i)
      BY <1>2, <1>3, <2>2, <2>4, Numbers DEF Holds
    <2>6. pos[i] = 0
      BY <2>2, <2>4 DEF Holds
    <2> QED
      BY <1>1, <1>2, <2>4, <2>5, <2>6 DEF Holds
  <1> QED
    BY <1>1, <1>2, <1>5, <1>6, <1>7 DEF InOrderInv, AtHead

(* ... and takes over a full ring.                                          *)
LEMMA FullOrders ==
  ASSUME TypeOK, OneReceive, Quiet, NoMishap, NoMishap', InOrderInv,
         WasFull \/ Advance \/ Arm
  PROVE  InOrderInv'
  <1>1. UNCHANGED <<configured, rx_tail, len, pos, content, completed, sent, size, last>>
    BY DEF WasFull, Advance, Arm, bus, history, ring
  <1>2. (Mid' <=> Mid) /\ (Pending' <=> Pending)
    BY <1>1 DEF Mid, Pending
  <1>3. pc # "free" /\ pc' # "free" /\ Base' = Base
    BY <1>1, <1>2 DEF Base, WasFull, Advance, Arm
  <1>4. ASSUME NEW i \in Bufs, Holds(i) PROVE Holds(i)'
    BY <1>1, <1>2, <1>3, <1>4 DEF Holds
  <1>5. CASE WasFull
    <2>1. /\ pc = "full" /\ rx_full' = 0 /\ UNCHANGED <<rx_head, armed>>
          /\ pc' = IF rx_full = 1 THEN "advance" ELSE "check"
          /\ rx_full = 1 => Following(rx_head) # rx_tail
      BY <1>5 DEF WasFull, ClearFull, bus, NoMishap
    <2>2. HeadFull' <=> HeadFull
      BY <2>1 DEF HeadFull
    <2>3. \A i \in Bufs : Filled(i)' <=> Filled(i)
      BY <1>1, <2>1, <2>2 DEF Filled
    <2>4. Reading' /\ Counted' /\ AtHead'
      BY <1>1, <1>2, <1>3, <2>1, <2>2 DEF InOrderInv, Reading, Counted, AtHead
    <2>5. Consecutive'
      BY <1>4, <2>3 DEF InOrderInv, Consecutive
    <2> QED
      BY <2>4, <2>5 DEF InOrderInv
  <1>6. CASE Advance
    <2>1. /\ pc = "advance" /\ pc' = "arm" /\ rx_head' = Following(rx_head)
          /\ Following(rx_head) # rx_tail /\ rx_full' = 0 /\ rx_full = 0 /\ armed' = armed
          /\ HeadFull /\ ~HeadFull'
      BY <1>6 DEF Advance, bus, HeadFull, InOrderInv, Reading
    <2>2. completed = << >> /\ (configured => armed = << >>)
      BY <2>1, DutyOfReader DEF NoMishap, Quiet
    <2>3. Dist(rx_tail, rx_head') = Dist(rx_tail, rx_head) + 1
      BY <2>1, Numbers, RingFacts
    <2>4. Reading'
      BY <1>1, <1>2, <2>1 DEF InOrderInv, Reading
    <2>5. Counted'
      <3>1. ~Pending'
        BY <1>1, <2>2 DEF Pending
      <3> QED
        BY <1>1, <1>3, <2>1, <2>3, <3>1, Numbers DEF InOrderInv, Counted
    <2>6. ASSUME NEW i \in Bufs, Filled(i)' PROVE Filled(i)
      <3>1. Dist(rx_tail, i) < Dist(rx_tail, rx_head) + 1
        BY <1>1, <2>1, <2>3, <2>6 DEF Filled
      <3>2. \/ Dist(rx_tail, i) < Dist(rx_tail, rx_head)
            \/ Dist(rx_tail, i) = Dist(rx_tail, rx_head)
        BY <3>1, Numbers
      <3> QED
        BY <2>1, <3>2, DistInjective, Numbers DEF Filled
    <2>7. Consecutive'
      BY <1>4, <2>6 DEF InOrderInv, Consecutive
    <2> QED
      BY <1>1, <2>1, <2>2, <2>4, <2>5, <2>7 DEF InOrderInv, AtHead, Pending
  <1>7. CASE Arm
    <2>1. /\ pc = "arm" /\ pc' = "check" /\ armed' \in {Append(armed, rx_head), armed}
          /\ UNCHANGED <<rx_head, rx_full>>
      BY <1>7 DEF Arm, USB_Class_CDC_Recv_Data, ring
    <2>2. (HeadFull' <=> HeadFull) /\ \A i \in Bufs : Filled(i)' <=> Filled(i)
      BY <1>1, <2>1 DEF HeadFull, Filled
    <2>3. configured => armed = << >> /\ (armed' # << >> => Head(armed') = rx_head)
      BY <2>1, DutyOfReader, OneElement, Numbers DEF NoMishap, TypeOK
    <2>4. Reading' /\ Counted' /\ AtHead'
      BY <1>1, <1>2, <1>3, <2>1, <2>2, <2>3 DEF InOrderInv, Reading, Counted, AtHead
    <2>5. Consecutive'
      BY <1>4, <2>2 DEF InOrderInv, Consecutive
    <2> QED
      BY <2>4, <2>5 DEF InOrderInv
  <1> QED
    BY <1>5, <1>6, <1>7

(* The order holds from the start on until a mishap.                        *)
Ordered == NoMishap => InOrderInv

(* Before the first packet there is nothing to be out of order.             *)
LEMMA OrdersInit == ASSUME Init PROVE InOrderInv
  <1>1. ~Mid /\ Base = 1 /\ ~HeadFull /\ ~Pending /\ Dist(rx_tail, rx_head) = 0
    BY SizeAssumption DEF Init, Mid, Base, HeadFull, Pending, Dist
  <1>2. \A i \in Bufs : ~Filled(i)
    BY <1>1, Numbers, RingFacts, SizeAssumption DEF Filled, Init, Bufs, Dist
  <1> QED
    BY <1>1, <1>2, SizeAssumption DEF Init, InOrderInv, Reading, Counted, Consecutive, AtHead

(* Every step keeps it, and reads the next byte if it reads one.            *)
LEMMA OrdersKept ==
  ASSUME TypeOK, Quiet, OneReceive, Ordered, [Next]_vars
  PROVE  Ordered' /\ (last' # last /\ ~reconfigured /\ ~overtaken => IsNext(last'))
  <1>1. CASE UNCHANGED vars
    <2>1. UNCHANGED <<configured, rx_head, rx_tail, rx_full, len, pos, content, armed,
                      completed, pc, sent, size, last, reconfigured, overtaken>>
      BY <1>1 DEF vars, ring, bus, history, mishaps
    <2> QED
      BY <2>1 DEF NoMishap, Ordered, InOrderInv, Reading, Counted, Consecutive, AtHead, Holds,
                  Filled, Mid, Base, HeadFull, Pending
  <1>2. CASE Take
    <2>1. NoMishap' => NoMishap
      BY <1>2 DEF Take, mishaps, NoMishap
    <2>2. NoMishap => InOrderInv' /\ IsNext(last')
      BY <1>2, TakeOrders DEF Ordered
    <2> QED
      BY <2>1, <2>2 DEF NoMishap, Ordered
  <1>3. CASE Next /\ ~Take
    <2>1. last' = last
      BY <1>3 DEF Next, Packet, Nothing, USB_DEV, BUS_RESET, CONFIG_CHANGED, DATA_RECEIVED,
                  VCom1_USB_get_data, Check, Flagged, TimedOut, Free, WasFull, Advance, Arm,
                  history
    <2>2. NoMishap' => NoMishap
      BY <1>3 DEF Next, Packet, Nothing, USB_DEV, BUS_RESET, CONFIG_CHANGED, DATA_RECEIVED,
                  VCom1_USB_get_data, Check, Flagged, TimedOut, Free, WasFull, Advance, Arm,
                  history, mishaps, NoMishap, TypeOK
    <2>3. ASSUME NoMishap' PROVE InOrderInv'
      <3>1. NoMishap /\ InOrderInv
        BY <2>2, <2>3 DEF Ordered
      <3> QED
        BY <1>3, <2>3, <3>1, PacketOrders, NoPacketOrders, CallbackOrders, LookOrders,
           FreeOrders, FullOrders DEF Next, USB_DEV, VCom1_USB_get_data
    <2> QED
      BY <2>1, <2>3 DEF Ordered
  <1> QED
    BY <1>1, <1>2, <1>3

(* Hence it always holds.                                                   *)
LEMMA OrdersAlways == Spec => [](TypeOK /\ Quiet /\ OneReceive /\ Ordered)
  <1>1. Init => Ordered
    BY OrdersInit DEF Ordered
  <1>2. TypeOK /\ Quiet /\ OneReceive /\ Ordered /\ [Next]_vars => Ordered'
    BY OrdersKept
  <1> QED
    BY <1>1, <1>2, TypeCorrect, QuietAlways, PTL DEF Spec

(* Until one of the two mishaps happens, every byte is read once and in the *)
(* order sent, for any number of buffers and of packets of any length and   *)
(* for every interleaving of callbacks and reader (lines 300-329 of         *)
(* USB_virtual_com1.c and 477-505).                                         *)
THEOREM BytesInOrder == Spec => InOrder
  <1>1. /\ TypeOK /\ Quiet /\ OneReceive /\ Ordered /\ [Next]_vars
        => [last' # last /\ ~reconfigured /\ ~overtaken => IsNext(last')]_vars
    BY OrdersKept
  <1> QED
    BY <1>1, OrdersAlways, PTL DEF Spec, InOrder

-------------------------------------------------------------------------------
(* Who arms which buffer when the ring is full: the callback that finds it  *)
(* full leaves the head just behind the tail, and until the reader has      *)
(* freed the tail nothing moves.                                            *)
Handover ==
  NoMishap =>
    /\ rx_full = 1 => pc \notin {"advance", "arm"}
    /\ rx_full = 1 /\ pc # "full" => Following(rx_head) = rx_tail
    /\ pc = "arm" => rx_head # rx_tail

(* Every step keeps it.                                                     *)
LEMMA HandoverKept ==
  ASSUME TypeOK, Quiet, OneReceive, Ordered, Handover, [Next]_vars
  PROVE  Handover'
  <1> SUFFICES ASSUME NoMishap'
               PROVE  /\ rx_full' = 1 => pc' \notin {"advance", "arm"}
                      /\ rx_full' = 1 /\ pc' # "full" => Following(rx_head') = rx_tail'
                      /\ pc' = "arm" => rx_head' # rx_tail'
    BY DEF Handover
  <1>1. NoMishap
    BY DEF Next, Packet, Nothing, USB_DEV, BUS_RESET, CONFIG_CHANGED, DATA_RECEIVED,
           VCom1_USB_get_data, Check, Flagged, TimedOut, Take, Free, WasFull, Advance, Arm,
           history, mishaps, NoMishap, TypeOK, vars
  <1>2. /\ rx_full = 1 => pc \notin {"advance", "arm"}
        /\ rx_full = 1 /\ pc # "full" => Following(rx_head) = rx_tail
        /\ pc = "arm" => rx_head # rx_tail
        /\ pc = "advance" => Following(rx_head) # rx_tail /\ rx_full = 0
    BY <1>1 DEF Handover, Ordered, InOrderInv, Reading
  <1>3. CASE Nothing \/ BUS_RESET \/ CONFIG_CHANGED \/ TimedOut \/ UNCHANGED vars
             \/ \E n \in 1 .. MaxLen : Packet(n)
    <2>1. UNCHANGED ring /\ (UNCHANGED pc \/ (pc = "wait" /\ pc' = "check"))
      BY <1>3 DEF Packet, Nothing, BUS_RESET, CONFIG_CHANGED, TimedOut, vars
    <2> QED
      BY <1>2, <2>1 DEF ring
  <1>4. CASE DATA_RECEIVED
    <2>1. rx_full = 0 /\ pc \notin {"advance", "arm"} /\ pc' = pc
      BY <1>1, <1>4, DutyOfBus DEF DATA_RECEIVED, NoMishap
    <2>2. CASE Rearm
      BY <1>2, <2>1, <2>2 DEF Rearm, ring
    <2>3. CASE Accept(Head(completed))
      BY <1>2, <2>1, <2>3 DEF Accept
    <2> QED
      BY <1>4, <2>2, <2>3 DEF DATA_RECEIVED
  <1>5. CASE Check \/ Flagged
    BY <1>2, <1>5 DEF Check, Flagged, ring
  <1>6. CASE Take
    BY <1>2, <1>6 DEF Take
  <1>7. CASE Free
    BY <1>2, <1>7 DEF Free
  <1>8. CASE WasFull
    BY <1>2, <1>8 DEF WasFull, ClearFull
  <1>9. CASE Advance
    BY <1>2, <1>9 DEF Advance
  <1>10. CASE Arm
    BY <1>2, <1>10 DEF Arm, ring
  <1> QED
    BY <1>3, <1>4, <1>5, <1>6, <1>7, <1>8, <1>9, <1>10 DEF Next, USB_DEV, VCom1_USB_get_data

(* Hence it always holds.                                                   *)
LEMMA HandoverAlways == Spec => []Handover
  <1>1. Init => Handover
    BY DEF Init, Handover
  <1>2. TypeOK /\ Quiet /\ OneReceive /\ Ordered /\ Handover /\ [Next]_vars => Handover'
    BY HandoverKept
  <1> QED
    BY <1>1, <1>2, OrdersAlways, PTL DEF Spec

(* The comment at lines 492-494 of USB_virtual_com1.c is refuted by one     *)
(* interleaving only: unless a callback found the ring full between the     *)
(* move of the tail and the look at rx_full, the buffer that the reader     *)
(* arms is free, for any number of buffers.                                 *)
THEOREM OvertakingIsTheCause == Spec => [](~overtaken => ArmsFreeBuffer)
  <1>1. Handover => (~overtaken => ArmsFreeBuffer)
    BY DEF Handover, NoMishap, ArmsFreeBuffer
  <1> QED
    BY <1>1, HandoverAlways, PTL

(* The reader is never left without work while there is some: when it looks *)
(* and finds the ring empty, every packet called back has been read to its  *)
(* end, and a configured device has a buffer armed or a call back to come,  *)
(* or the stack has refused the last arming and nothing comes any more      *)
(* (lines 314-336 and 462-505), unless one of the two mishaps has happened. *)
NothingHidden ==
  ~reconfigured /\ ~overtaken /\ pc \in {"check", "wait"} /\ IsEmpty =>
    /\ sent = last[1] + (IF Pending THEN 1 ELSE 0)
    /\ last[2] = size[last[1]]
    /\ configured => Len(armed) + Len(completed) = (IF refused THEN 0 ELSE 1)

(* The reader that sees the ring empty has read all that was received, and  *)
(* there is a reception to wait for unless the stack refused it: the safety *)
(* half of AllRead.                                                         *)
THEOREM EmptyMeansRead == Spec => []NothingHidden
  <1>1. TypeOK /\ OneReceive /\ Ordered /\ Handover => NothingHidden
    <2> SUFFICES ASSUME TypeOK, OneReceive, Ordered, Handover, NoMishap,
                        pc \in {"check", "wait"}, rx_tail = rx_head
                 PROVE  /\ sent = last[1] + (IF Pending THEN 1 ELSE 0)
                        /\ last[2] = size[last[1]]
                        /\ configured => Len(armed) + Len(completed) = (IF refused THEN 0 ELSE 1)
      BY DEF NothingHidden, NoMishap, IsEmpty
    <2>1. Dist(rx_tail, rx_head) = 0 /\ Following(rx_head) # rx_tail
      BY Numbers, RingFacts, SizeAssumption
    <2>2. rx_full = 0 /\ ~HeadFull
      BY <2>1 DEF Handover, HeadFull, TypeOK
    <2>3. ~Mid /\ last[2] <= size[last[1]] /\ Counted
      BY DEF Ordered, InOrderInv, Reading
    <2>4. last[2] = size[last[1]]
      BY <2>3, Numbers DEF Mid
    <2>5. Base = last[1] + 1
      BY <2>3 DEF Base
    <2>6. sent = last[1] + (IF Pending THEN 1 ELSE 0)
      BY <2>1, <2>2, <2>3, <2>5, Numbers DEF Counted
    <2>7. configured => Len(armed) + Len(completed) = (IF refused THEN 0 ELSE 1)
      BY <2>2, DutyFacts DEF OneReceive, NoMishap
    <2> QED
      BY <2>4, <2>6, <2>7
  <1> QED
    BY <1>1, OrdersAlways, HandoverAlways, PTL
===============================================================================
