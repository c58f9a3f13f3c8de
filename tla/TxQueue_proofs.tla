----------------------------- MODULE TxQueue_proofs -----------------------------
(***************************************************************************)
(* Theorems about the transmit queue of the KW40, for any messages and any *)
(* size of the ring: its type correctness, that the head has one owner at  *)
(* a time, that it implements TxFifo, and how long a packet waits.         *)
(***************************************************************************)
EXTENDS TxQueueProps, SequenceTheorems, TLAPS

(* What a push knows while it is under way.  OwnsHead alone does not        *)
(* survive the store of the head: that the slot is still free and holds     *)
(* what was written is what makes the store an acceptance.                  *)
Pushed(fields) ==
  /\ Succ(phead) # master_queue_tail
  /\ \A f \in fields : master_queue[phead][f] = msg

PushSound ==
  /\ mpc # "idle" => msg \in Messages
  /\ mpc = "chan" => Pushed({})
  /\ mpc = "len" => Pushed({"chan"})
  /\ mpc = "data" => Pushed({"chan", "len"})
  /\ mpc = "head" => Pushed({"chan", "len", "data"})

-------------------------------------------------------------------------------
(* Slots and indices.                                                       *)
LEMMA SlotFacts ==
  /\ Slots \subseteq Nat /\ 0 \in Slots
  /\ \A i \in Slots : Succ(i) \in Slots
  BY SizeAssumption DEF Slots, Succ

(* A whole packet is a packet.                                              *)
LEMMA PacketFacts == \A m \in Known : Whole(m) \in Packet
  BY DEF Whole, Packet

-------------------------------------------------------------------------------
(* Type correctness is inductive: the steps of a push keep it, ...          *)
LEMMA PushTypes ==
  ASSUME TypeOK, PushBegin \/ PushGoesOn
  PROVE  TypeOK'
  <1> USE DEF TypeOK
  <1>1. CASE PushBegin
    BY <1>1 DEF PushBegin, ring, spi, Known
  <1>2. CASE PushRoom
    BY <1>2 DEF PushRoom, ring, spi
  <1>3. CASE PushChan
    <2>1. [master_queue[phead] EXCEPT !.chan = msg] \in Packet
      BY DEF Packet
    <2> QED
      BY <1>3, <2>1 DEF PushChan, Fill, spi
  <1>4. CASE PushLen
    <2>1. [master_queue[phead] EXCEPT !.len = msg] \in Packet
      BY DEF Packet
    <2> QED
      BY <1>4, <2>1 DEF PushLen, Fill, spi
  <1>5. CASE PushData
    <2>1. [master_queue[phead] EXCEPT !.data = msg] \in Packet
      BY DEF Packet
    <2> QED
      BY <1>5, <2>1 DEF PushData, Fill, spi
  <1>6. CASE PushHead
    BY <1>6, SlotFacts DEF PushHead, spi
  <1> QED
    BY <1>1, <1>2, <1>3, <1>4, <1>5, <1>6 DEF PushGoesOn

(* ... and so do those of the SPI task.                                     *)
LEMMA SpiTypes ==
  ASSUME TypeOK, Move \/ Parse
  PROVE  TypeOK'
  <1> USE DEF TypeOK
  <1>0. Whole(None) \in Packet
    BY PacketFacts DEF Known
  <1>1. CASE Move
    BY <1>0, <1>1, SlotFacts DEF Move, local
  <1>2. CASE ParseOther
    BY <1>2 DEF ParseOther, ring, local
  <1>3. CASE ParseDone
    BY <1>3 DEF ParseDone, ring, local
  <1>4. CASE ParseReset
    BY <1>0, <1>4, SlotFacts DEF ParseReset, Known
  <1>5. ASSUME NEW a \in Acks, ParseSetting(a)
        PROVE  TypeOK'
    <2>1. Whole(a) \in Packet
      BY PacketFacts DEF Known
    <2> QED
      BY <1>5, <2>1, SlotFacts DEF ParseSetting, local
  <1> QED
    BY <1>1, <1>2, <1>3, <1>4, <1>5 DEF Parse

(* Every variable of the queue keeps its type.                              *)
THEOREM TypeCorrect == Spec => []TypeOK
  <1>1. Init => TypeOK
    BY SlotFacts, PacketFacts DEF Init, TypeOK, Known
  <1>2. TypeOK /\ [Next]_vars => TypeOK'
    <2> SUFFICES ASSUME TypeOK, [Next]_vars
                 PROVE  TypeOK'
      OBVIOUS
    <2>1. CASE UNCHANGED vars
      BY <2>1 DEF vars, ring, local, spi, TypeOK
    <2> QED
      BY <2>1, PushTypes, SpiTypes DEF Next
  <1> QED
    BY <1>1, <1>2, PTL DEF Spec

-------------------------------------------------------------------------------
(* One owner of the head.                                                   *)
LEMMA OwnerKept ==
  ASSUME TypeOK, OwnsHead, [Next]_vars
  PROVE  OwnsHead'
  <1> USE DEF OwnsHead
  <1>1. CASE PushBegin
    BY <1>1 DEF PushBegin, ring, spi
  <1>2. CASE PushRoom
    BY <1>2 DEF PushRoom, MainAt, ring, spi
  <1>3. CASE PushChan \/ PushLen \/ PushData
    BY <1>3 DEF PushChan, PushLen, PushData, Fill, MainAt, spi
  <1>4. CASE PushHead
    BY <1>4 DEF PushHead
  <1>5. CASE Move
    BY <1>5 DEF Move, local
  <1>6. CASE Parse
    <2>1. ASSUME NEW a \in Acks, ParseSetting(a)
          PROVE  OwnsHead'
      BY <2>1 DEF ParseSetting, local
    <2>2. CASE ParseOther \/ ParseDone \/ ParseReset
      BY <2>2 DEF ParseOther, ParseDone, ParseReset, ring, local
    <2> QED
      BY <1>6, <2>1, <2>2 DEF Parse
  <1>7. CASE UNCHANGED vars
    BY <1>7 DEF vars, ring, local, spi
  <1> QED
    BY <1>1, <1>2, <1>3, <1>4, <1>5, <1>6, <1>7 DEF Next, PushGoesOn

(* What a push knows stays true under preemption: an exchange moves the     *)
(* tail away from the slot being filled, never onto it.                     *)
LEMMA PushKept ==
  ASSUME TypeOK, OwnsHead, PushSound, [Next]_vars
  PROVE  PushSound'
  <1> USE DEF PushSound, Pushed
  <1>1. CASE PushBegin
    BY <1>1 DEF PushBegin
  <1>2. CASE PushRoom
    BY <1>2 DEF PushRoom, MainAt, ring
  <1>3. CASE PushChan
    BY <1>3 DEF PushChan, Fill, MainAt, TypeOK, Packet
  <1>4. CASE PushLen
    BY <1>4 DEF PushLen, Fill, MainAt, TypeOK, Packet
  <1>5. CASE PushData
    BY <1>5 DEF PushData, Fill, MainAt, TypeOK, Packet
  <1>6. CASE PushHead
    BY <1>6 DEF PushHead
  <1>7. CASE Move
    <2>1. UNCHANGED <<master_queue, local>>
      BY <1>7 DEF Move
    <2>2. ASSUME mpc \in {"chan", "len", "data", "head"},
                 Succ(phead) # master_queue_tail
          PROVE  Succ(phead) # master_queue_tail'
      <3>1. phead = master_queue_head
        BY <2>2 DEF OwnsHead
      <3> QED
        BY <1>7, <2>2, <3>1, SizeAssumption DEF Move, Succ, TypeOK, Slots
    <2> QED
      BY <2>1, <2>2 DEF local
  <1>8. CASE Parse
    <2>1. ASSUME NEW a \in Acks, ParseSetting(a)
          PROVE  PushSound'
      BY <2>1 DEF ParseSetting, OwnsHead, local
    <2>2. CASE ParseOther \/ ParseDone \/ ParseReset
      BY <2>2 DEF ParseOther, ParseDone, ParseReset, ring, local
    <2> QED
      BY <1>8, <2>1, <2>2 DEF Parse
  <1>9. CASE UNCHANGED vars
    BY <1>9 DEF vars, ring, local
  <1> QED
    BY <1>1, <1>2, <1>3, <1>4, <1>5, <1>6, <1>7, <1>8, <1>9
    DEF Next, PushGoesOn

(* Main_task's copy of the head is the head as long as it is in use.        *)
THEOREM HeadHasOneOwner == Spec => []OwnsHead
  <1>1. Init => OwnsHead
    BY DEF Init, OwnsHead
  <1>2. TypeOK /\ OwnsHead /\ [Next]_vars => OwnsHead'
    BY OwnerKept
  <1> QED
    BY <1>1, <1>2, TypeCorrect, PTL DEF Spec

(* What is written is in the slot, and the slot is free, until the store.   *)
THEOREM PushAlwaysSound == Spec => []PushSound
  <1>1. Init => PushSound
    BY DEF Init, PushSound
  <1>2. TypeOK /\ OwnsHead /\ PushSound /\ [Next]_vars => PushSound'
    BY PushKept
  <1> QED
    BY <1>1, <1>2, TypeCorrect, HeadHasOneOwner, PTL DEF Spec

-------------------------------------------------------------------------------
(* The ring as a sequence.                                                  *)
LEMMA ContentFacts ==
  ASSUME NEW q \in [Slots -> Packet], NEW h \in Slots, NEW t \in Slots
  PROVE  /\ Used(h, t) \in 0 .. MKW_QUEUE_SZ - 1
         /\ Used(h, t) = 0 <=> t = h
         /\ Used(h, t) = MKW_QUEUE_SZ - 1 <=> Succ(h) = t
         /\ \A i \in 1 .. Used(h, t) : Nth(t, i) \in Slots /\ Nth(t, i) # h
         /\ Content(q, h, t) \in Seq(Packet)
         /\ Len(Content(q, h, t)) = Used(h, t)
         /\ \A i \in 1 .. Used(h, t) : Content(q, h, t)[i] = q[Nth(t, i)]
  <1> USE SizeAssumption DEF Slots
  <1>1. Used(h, t) \in 0 .. MKW_QUEUE_SZ - 1
    BY DEF Used
  <1>2. Used(h, t) = 0 <=> t = h
    BY DEF Used
  <1>3. Used(h, t) = MKW_QUEUE_SZ - 1 <=> Succ(h) = t
    BY DEF Used, Succ
  <1>4. \A i \in 1 .. Used(h, t) : Nth(t, i) \in Slots /\ Nth(t, i) # h
    BY DEF Used, Nth
  <1>5. Content(q, h, t) \in Seq(Packet) /\ Len(Content(q, h, t)) = Used(h, t)
    <2> DEFINE n == Used(h, t)
    <2>1. n \in Nat
      BY <1>1
    <2>2. Content(q, h, t) = [i \in 1 .. n |-> q[Nth(t, i)]]
      BY DEF Content
    <2>3. \A i \in 1 .. n : q[Nth(t, i)] \in Packet
      BY <1>4
    <2> HIDE DEF n
    <2>4. Content(q, h, t) \in Seq(Packet) /\ Len(Content(q, h, t)) = n
      BY <2>1, <2>2, <2>3
    <2> QED
      BY <2>4 DEF n
  <1>6. \A i \in 1 .. Used(h, t) : Content(q, h, t)[i] = q[Nth(t, i)]
    BY DEF Content
  <1> QED
    BY <1>1, <1>2, <1>3, <1>4, <1>5, <1>6

(* The slot at the head can be written unnoticed.                           *)
LEMMA FillUnseen ==
  ASSUME NEW q \in [Slots -> Packet], NEW h \in Slots, NEW t \in Slots, NEW p
  PROVE  Content([q EXCEPT ![h] = p], h, t) = Content(q, h, t)
  <1>1. \A i \in 1 .. Used(h, t) : [q EXCEPT ![h] = p][Nth(t, i)] = q[Nth(t, i)]
    BY ContentFacts
  <1> QED
    BY <1>1 DEF Content

(* Advancing the head appends the packet in its slot.                       *)
LEMMA HeadAppends ==
  ASSUME NEW q \in [Slots -> Packet], NEW h \in Slots, NEW t \in Slots,
         Succ(h) # t
  PROVE  Content(q, Succ(h), t) = Append(Content(q, h, t), q[h])
  <1> DEFINE n == Used(h, t)
             c == Content(q, h, t)
             d == Content(q, Succ(h), t)
  <1>1. n \in Nat /\ n < MKW_QUEUE_SZ - 1
    BY ContentFacts, SizeAssumption
  <1>2. Used(Succ(h), t) = n + 1
    BY SizeAssumption DEF Used, Succ, Slots
  <1>3. Nth(t, n + 1) = h
    BY SizeAssumption DEF Used, Nth, Slots
  <1>4. c \in Seq(Packet) /\ Len(c) = n /\ \A i \in 1 .. n : c[i] = q[Nth(t, i)]
    BY ContentFacts
  <1>5. /\ d \in Seq(Packet) /\ Len(d) = n + 1
        /\ \A i \in 1 .. n + 1 : d[i] = q[Nth(t, i)]
    <2>1. Succ(h) \in Slots
      BY SlotFacts
    <2>2. /\ d \in Seq(Packet) /\ Len(d) = Used(Succ(h), t)
          /\ \A i \in 1 .. Used(Succ(h), t) : d[i] = q[Nth(t, i)]
      BY <2>1, ContentFacts
    <2> HIDE DEF n, d
    <2> QED
      BY <1>2, <2>2
  <1>6. q[h] \in Packet
    OBVIOUS
  <1> HIDE DEF n, c, d
  <1>7. /\ Append(c, q[h]) \in Seq(Packet) /\ Len(Append(c, q[h])) = n + 1
        /\ \A i \in 1 .. n : Append(c, q[h])[i] = c[i]
        /\ Append(c, q[h])[n + 1] = q[h]
    BY <1>4, <1>6, AppendProperties
  <1>8. \A i \in 1 .. n + 1 : d[i] = Append(c, q[h])[i]
    BY <1>1, <1>3, <1>4, <1>5, <1>7
  <1>9. d = Append(c, q[h])
    BY <1>5, <1>7, <1>8, SeqEqual
  <1> QED
    BY <1>9 DEF c, d

(* Advancing the tail takes the first packet off.                           *)
LEMMA TailRemoves ==
  ASSUME NEW q \in [Slots -> Packet], NEW h \in Slots, NEW t \in Slots,
         t # h
  PROVE  /\ Content(q, h, t) # <<>>
         /\ Head(Content(q, h, t)) = q[t]
         /\ Content(q, h, Succ(t)) = Tail(Content(q, h, t))
  <1> DEFINE n == Used(h, t)
             c == Content(q, h, t)
             d == Content(q, h, Succ(t))
  <1>1. n \in Nat /\ n > 0
    BY ContentFacts, SizeAssumption
  <1>2. Used(h, Succ(t)) = n - 1
    BY SizeAssumption DEF Used, Succ, Slots
  <1>3. /\ Nth(t, 1) = t
        /\ \A i \in 1 .. n - 1 : Nth(Succ(t), i) = Nth(t, i + 1)
    BY SizeAssumption DEF Used, Nth, Succ, Slots
  <1>4. c \in Seq(Packet) /\ Len(c) = n /\ \A i \in 1 .. n : c[i] = q[Nth(t, i)]
    BY ContentFacts
  <1>5. /\ d \in Seq(Packet) /\ Len(d) = n - 1
        /\ \A i \in 1 .. n - 1 : d[i] = q[Nth(Succ(t), i)]
    <2>1. Succ(t) \in Slots
      BY SlotFacts
    <2>2. /\ d \in Seq(Packet) /\ Len(d) = Used(h, Succ(t))
          /\ \A i \in 1 .. Used(h, Succ(t)) : d[i] = q[Nth(Succ(t), i)]
      BY <2>1, ContentFacts
    <2> HIDE DEF n, d
    <2> QED
      BY <1>2, <2>2
  <1> HIDE DEF n, c, d
  <1>6. c # <<>>
    BY <1>1, <1>4
  <1>7. Head(c) = q[t]
    BY <1>1, <1>3, <1>4, <1>6
  <1>8. /\ Tail(c) \in Seq(Packet) /\ Len(Tail(c)) = n - 1
        /\ \A i \in 1 .. n - 1 : Tail(c)[i] = c[i + 1]
    BY <1>4, <1>6, HeadTailProperties
  <1>9. \A i \in 1 .. n - 1 : d[i] = Tail(c)[i]
    BY <1>1, <1>3, <1>4, <1>5, <1>8
  <1>10. d = Tail(c)
    BY <1>5, <1>8, <1>9, SeqEqual
  <1> QED
    BY <1>6, <1>7, <1>10 DEF c, d
-------------------------------------------------------------------------------
(* The queue implements TxFifo.                                             *)

(* A step of Main_task is a call, a refusal, an acceptance, or unseen.      *)
LEMMA PushSimulates ==
  ASSUME TypeOK, OwnsHead, PushSound, PushBegin \/ PushGoesOn
  PROVE  [Fifo!Next]_Fifo!vars
  <1>0. /\ master_queue \in [Slots -> Packet]
        /\ master_queue_head \in Slots /\ master_queue_tail \in Slots
    BY DEF TypeOK
  <1>1. CASE PushBegin
    <2>1. Waiting' = Waiting
      BY <1>1 DEF PushBegin, ring, Waiting, Content, Used, Nth
    <2> QED
      BY <1>1, <2>1 DEF PushBegin, spi, Fifo!Next, Fifo!Call
  <1>2. CASE PushRoom
    <2>1. Waiting' = Waiting /\ tx_buf' = tx_buf
      BY <1>2 DEF PushRoom, ring, spi, Waiting, Content, Used, Nth
    <2>2. CASE Succ(phead) = master_queue_tail
      <3>1. phead = master_queue_head
        BY <1>2 DEF PushRoom, MainAt, OwnsHead
      <3>2. Len(Waiting) = MKW_QUEUE_SZ - 1
        BY <1>0, <2>2, <3>1, ContentFacts DEF Waiting
      <3>3. result' = "error"
        BY <1>2, <2>2 DEF PushRoom
      <3> QED
        BY <2>1, <3>2, <3>3 DEF Fifo!Next, Fifo!Refuse
    <2>3. CASE Succ(phead) # master_queue_tail
      <3>1. result' = result
        BY <1>2, <2>3 DEF PushRoom
      <3> QED
        BY <2>1, <3>1 DEF Fifo!vars
    <2> QED
      BY <2>2, <2>3
  <1>3. CASE PushChan \/ PushLen \/ PushData
    <2>1. PICK p : master_queue' = [master_queue EXCEPT ![phead] = p]
      BY <1>3 DEF PushChan, PushLen, PushData, Fill
    <2>2. /\ UNCHANGED <<master_queue_head, master_queue_tail, tx_buf, result>>
          /\ phead = master_queue_head
      BY <1>3 DEF PushChan, PushLen, PushData, Fill, MainAt, OwnsHead, spi
    <2>3. Content(master_queue', master_queue_head, master_queue_tail)
            = Content(master_queue, master_queue_head, master_queue_tail)
      BY <1>0, <2>1, <2>2, FillUnseen
    <2>4. Waiting' = Waiting
      BY <2>2, <2>3 DEF Waiting, Content, Used, Nth
    <2> QED
      BY <2>2, <2>4 DEF Fifo!vars
  <1>4. CASE PushHead
    <2>1. mpc = "head" /\ phead = master_queue_head
      BY <1>4 DEF PushHead, MainAt, OwnsHead
    <2>2. /\ master_queue_head' = Succ(master_queue_head)
          /\ UNCHANGED <<master_queue, master_queue_tail, tx_buf>>
          /\ result' = "ok"
      BY <1>4, <2>1 DEF PushHead, spi
    <2>3. msg \in Messages /\ Succ(master_queue_head) # master_queue_tail
      BY <2>1 DEF PushSound, Pushed
    <2>4. master_queue[master_queue_head] = Whole(msg)
      <3>1. master_queue[master_queue_head] \in Packet
        BY <1>0
      <3>2. /\ master_queue[master_queue_head].chan = msg
            /\ master_queue[master_queue_head].len = msg
            /\ master_queue[master_queue_head].data = msg
        BY <2>1 DEF PushSound, Pushed
      <3> QED
        BY <3>1, <3>2 DEF Packet, Whole
    <2>5. Waiting' = Append(Waiting, Whole(msg))
      <3>1. Content(master_queue, Succ(master_queue_head), master_queue_tail)
              = Append(Waiting, Whole(msg))
        BY <1>0, <2>3, <2>4, HeadAppends DEF Waiting
      <3>2. Waiting'
              = Content(master_queue, Succ(master_queue_head), master_queue_tail)
        BY <2>2 DEF Waiting, Content, Used, Nth, Succ
      <3> QED
        BY <3>1, <3>2
    <2>6. Len(Waiting) < MKW_QUEUE_SZ - 1
      BY <1>0, <2>3, ContentFacts, SizeAssumption DEF Waiting
    <2>7. Fifo!Put(Whole(msg))
      BY <2>2, <2>5, <2>6 DEF Fifo!Put
    <2> QED
      BY <2>3, <2>7 DEF Fifo!Next
  <1> QED
    BY <1>1, <1>2, <1>3, <1>4 DEF PushGoesOn

(* An exchange takes the oldest packet off the ring, or sends nothing.      *)
LEMMA MoveTakes ==
  ASSUME TypeOK, Move
  PROVE  IF Waiting = <<>>
           THEN tx_buf' = Whole(None) /\ Waiting' = <<>>
           ELSE tx_buf' = Head(Waiting) /\ Waiting' = Tail(Waiting)
  <1>0. /\ master_queue \in [Slots -> Packet]
        /\ master_queue_head \in Slots /\ master_queue_tail \in Slots
    BY DEF TypeOK
  <1>1. CASE master_queue_tail = master_queue_head
    <2>1. /\ UNCHANGED <<master_queue, master_queue_head, master_queue_tail>>
          /\ tx_buf' = Whole(None)
      BY <1>1 DEF Move
    <2>2. Waiting = <<>>
      BY <1>0, <1>1, ContentFacts DEF Waiting
    <2>3. Waiting' = Waiting
      BY <2>1 DEF Waiting, Content, Used, Nth
    <2> QED
      BY <2>1, <2>2, <2>3
  <1>2. CASE master_queue_tail # master_queue_head
    <2>1. /\ UNCHANGED <<master_queue, master_queue_head>>
          /\ tx_buf' = master_queue[master_queue_tail]
          /\ master_queue_tail' = Succ(master_queue_tail)
      BY <1>2 DEF Move
    <2>2. /\ Waiting # <<>>
          /\ Head(Waiting) = master_queue[master_queue_tail]
          /\ Content(master_queue, master_queue_head, Succ(master_queue_tail))
               = Tail(Waiting)
      BY <1>0, <1>2, TailRemoves DEF Waiting
    <2>3. Waiting'
            = Content(master_queue, master_queue_head, Succ(master_queue_tail))
      BY <2>1 DEF Waiting, Content, Used, Nth, Succ
    <2> QED
      BY <2>1, <2>2, <2>3
  <1> QED
    BY <1>1, <1>2

(* A step of the SPI task sends the oldest packet or none, or accepts or    *)
(* refuses an acknowledgement, or clears the queue, or is unseen.           *)
LEMMA SpiSimulates ==
  ASSUME TypeOK, Move \/ Parse
  PROVE  [Fifo!Next]_Fifo!vars
  <1>0. /\ master_queue \in [Slots -> Packet]
        /\ master_queue_head \in Slots /\ master_queue_tail \in Slots
    BY DEF TypeOK
  <1>1. CASE Move
    <2>1. result' = result
      BY <1>1 DEF Move
    <2> QED
      BY <1>1, <2>1, MoveTakes DEF Fifo!Next, Fifo!Send, Fifo!SendNothing
  <1>2. CASE ParseOther \/ ParseDone
    <2>1. UNCHANGED <<master_queue, master_queue_head, master_queue_tail,
                      tx_buf, result>>
      BY <1>2 DEF ParseOther, ParseDone, ring
    <2>2. Waiting' = Waiting
      BY <2>1 DEF Waiting, Content, Used, Nth
    <2> QED
      BY <2>1, <2>2 DEF Fifo!vars
  <1>3. ASSUME NEW a \in Acks, ParseSetting(a)
        PROVE  [Fifo!Next]_Fifo!vars
    <2>1. CASE Succ(master_queue_head) = master_queue_tail
      <3>1. /\ UNCHANGED <<master_queue, master_queue_head, master_queue_tail, tx_buf>>
            /\ result' = "error"
        BY <1>3, <2>1 DEF ParseSetting
      <3>2. Waiting' = Waiting
        BY <3>1 DEF Waiting, Content, Used, Nth
      <3>3. Len(Waiting) = MKW_QUEUE_SZ - 1
        BY <1>0, <2>1, ContentFacts DEF Waiting
      <3> QED
        BY <3>1, <3>2, <3>3 DEF Fifo!Next, Fifo!Refuse
    <2>2. CASE Succ(master_queue_head) # master_queue_tail
      <3> DEFINE q == [master_queue EXCEPT ![master_queue_head] = Whole(a)]
      <3>1. /\ master_queue' = q
            /\ master_queue_head' = Succ(master_queue_head)
            /\ UNCHANGED <<master_queue_tail, tx_buf>>
            /\ result' = "ok"
        BY <1>3, <2>2 DEF ParseSetting
      <3>2. /\ q \in [Slots -> Packet]
            /\ q[master_queue_head] = Whole(a)
        BY <1>0, PacketFacts DEF Known
      <3>3. Content(q, master_queue_head, master_queue_tail) = Waiting
        BY <1>0, FillUnseen DEF Waiting
      <3>4. Waiting' = Content(q, Succ(master_queue_head), master_queue_tail)
        BY <3>1 DEF Waiting, Content, Used, Nth, Succ
      <3>5. Len(Waiting) < MKW_QUEUE_SZ - 1
        BY <1>0, <2>2, ContentFacts, SizeAssumption DEF Waiting
      <3> HIDE DEF q
      <3>6. Waiting' = Append(Waiting, Whole(a))
        BY <1>0, <2>2, <3>2, <3>3, <3>4, HeadAppends
      <3>7. Fifo!Put(Whole(a))
        BY <3>1, <3>5, <3>6 DEF Fifo!Put
      <3> QED
        BY <3>7 DEF Fifo!Next
    <2> QED
      BY <2>1, <2>2
  <1>4. CASE ParseReset
    <2>1. /\ master_queue' \in [Slots -> Packet]
          /\ master_queue_head' \in Slots /\ master_queue_tail' \in Slots
          /\ master_queue_tail' = master_queue_head'
      BY <1>4, SlotFacts, PacketFacts DEF ParseReset, Known
    <2>2. Content(master_queue', master_queue_head', master_queue_tail') = <<>>
      BY <2>1, ContentFacts
    <2>3. Waiting' = <<>>
      BY <2>2 DEF Waiting, Content, Used, Nth
    <2> QED
      BY <1>4, <2>3 DEF ParseReset, Fifo!Next, Fifo!Clear
  <1> QED
    BY <1>1, <1>2, <1>3, <1>4 DEF Parse

(* Whatever the interleaving of its two users, the ring is a FIFO of whole  *)
(* packets that refuses one only when it is full.                           *)
THEOREM ImplementsFifo == Spec => RefinesFifo
  <1>1. Init => Fifo!Init
    <2> SUFFICES ASSUME Init
                 PROVE  Fifo!Init
      OBVIOUS
    <2>1. /\ master_queue \in [Slots -> Packet]
          /\ master_queue_head \in Slots /\ master_queue_tail \in Slots
          /\ master_queue_tail = master_queue_head
      BY SlotFacts, PacketFacts DEF Init, Known
    <2>2. Waiting = <<>>
      BY <2>1, ContentFacts DEF Waiting
    <2> QED
      BY <2>2 DEF Init, Fifo!Init
  <1>2. TypeOK /\ OwnsHead /\ PushSound /\ [Next]_vars => [Fifo!Next]_Fifo!vars
    <2> SUFFICES ASSUME TypeOK, OwnsHead, PushSound, [Next]_vars
                 PROVE  [Fifo!Next]_Fifo!vars
      OBVIOUS
    <2>1. CASE UNCHANGED vars
      BY <2>1 DEF vars, ring, spi, Fifo!vars, Waiting, Content, Used, Nth
    <2> QED
      BY <2>1, PushSimulates, SpiSimulates DEF Next
  <1> QED
    BY <1>1, <1>2, TypeCorrect, HeadHasOneOwner, PushAlwaysSound, PTL
    DEF Spec, RefinesFifo, Fifo!Spec

-------------------------------------------------------------------------------
(* How long a packet waits.                                                 *)

(* An exchange takes the oldest packet off the ring, if there is one.       *)
ExchangeTakesOldest ==
  spc = "sleep" /\ spc' = "parse" =>
    IF Waiting = <<>>
      THEN tx_buf' = Whole(None) /\ Waiting' = <<>>
      ELSE tx_buf' = Head(Waiting) /\ Waiting' = Tail(Waiting)

(* Nothing else does, but a reset of the chip: packets are only added, and  *)
(* only at the end.                                                         *)
OthersOnlyAppend ==
  ~(spc = "sleep" /\ spc' = "parse") /\ ~ParseReset =>
    \/ Waiting' = Waiting
    \/ \E m \in Messages \cup Acks : Waiting' = Append(Waiting, Whole(m))

(* A step that leaves the tail alone and moves the head by one slot at most *)
(* makes no packet disappear.                                               *)
LEMMA NothingTaken ==
  ASSUME TypeOK, TypeOK', [Fifo!Next]_Fifo!vars,
         master_queue_tail' = master_queue_tail,
         \/ master_queue_head' = master_queue_head
         \/ /\ master_queue_head' = Succ(master_queue_head)
            /\ Succ(master_queue_head) # master_queue_tail
  PROVE  \/ Waiting' = Waiting
         \/ \E m \in Messages \cup Acks : Waiting' = Append(Waiting, Whole(m))
  <1> DEFINE n == Used(master_queue_head, master_queue_tail)
  <1>1. Waiting \in Seq(Packet) /\ Len(Waiting) = n /\ n \in Nat
    BY ContentFacts, SizeAssumption DEF TypeOK, Waiting
  <1>2. Len(Waiting') = Used(master_queue_head', master_queue_tail')
    <2>1. /\ master_queue' \in [Slots -> Packet]
          /\ master_queue_head' \in Slots /\ master_queue_tail' \in Slots
      BY DEF TypeOK
    <2>2. Waiting' = Content(master_queue', master_queue_head', master_queue_tail')
      BY DEF Waiting, Content, Used, Nth
    <2> QED
      BY <2>1, <2>2, ContentFacts
  <1>3. Used(master_queue_head', master_queue_tail') >= n
    <2>1. /\ master_queue_head \in 0 .. MKW_QUEUE_SZ - 1
          /\ master_queue_tail \in 0 .. MKW_QUEUE_SZ - 1
          /\ MKW_QUEUE_SZ \in Nat /\ MKW_QUEUE_SZ > 1
      BY SizeAssumption DEF TypeOK, Slots
    <2>2. CASE master_queue_head' = master_queue_head
      BY <1>1, <2>2
    <2>3. CASE /\ master_queue_head' = Succ(master_queue_head)
               /\ Succ(master_queue_head) # master_queue_tail
      <3>1. Used(Succ(master_queue_head), master_queue_tail) = n + 1
        BY <2>1, <2>3 DEF Used, Succ
      <3> QED
        BY <1>1, <2>3, <3>1
    <2> QED
      BY <2>2, <2>3
  <1> HIDE DEF n
  <1>4. CASE Waiting = <<>>
    BY <1>4 DEF Fifo!Next, Fifo!Put, Fifo!Call, Fifo!Refuse, Fifo!Send,
                Fifo!SendNothing, Fifo!Clear, Fifo!vars
  <1>5. CASE Waiting # <<>>
    <2>1. Len(Tail(Waiting)) = n - 1 /\ n > 0
      BY <1>1, <1>5, HeadTailProperties, EmptySeq
    <2>2. Waiting' # Tail(Waiting) /\ Waiting' # <<>>
      BY <1>1, <1>2, <1>3, <2>1
    <2> QED
      BY <1>5, <2>2 DEF Fifo!Next, Fifo!Put, Fifo!Call, Fifo!Refuse, Fifo!Send,
                  Fifo!SendNothing, Fifo!Clear, Fifo!vars
  <1> QED
    BY <1>4, <1>5

(* A packet that is accepted as the n-th of the ring leaves with the n-th   *)
(* exchange from then on, n being less than the size of the ring, unless    *)
(* the chip is reset (App_comm_channel.c:118-174): what each of the         *)
(* exchanges that AcceptedLeaves counts on brings about.                    *)
THEOREM EachExchangeTakesOne ==
  Spec => /\ [](Len(Waiting) < MKW_QUEUE_SZ)
          /\ [][ExchangeTakesOldest /\ OthersOnlyAppend]_vars
  <1>1. TypeOK => Len(Waiting) < MKW_QUEUE_SZ
    BY ContentFacts, SizeAssumption DEF TypeOK, Waiting
  <1>2. /\ TypeOK /\ TypeOK' /\ OwnsHead /\ PushSound /\ [Next]_vars
        => [ExchangeTakesOldest /\ OthersOnlyAppend]_vars
    <2> SUFFICES ASSUME TypeOK, TypeOK', OwnsHead, PushSound, Next
                 PROVE  ExchangeTakesOldest /\ OthersOnlyAppend
      OBVIOUS
    <2>1. CASE Move
      BY <2>1, MoveTakes DEF Move, ExchangeTakesOldest, OthersOnlyAppend
    <2>2. CASE ParseReset
      BY <2>2 DEF ParseReset, ExchangeTakesOldest, OthersOnlyAppend
    <2>3. CASE PushBegin \/ PushGoesOn \/ ParseOther \/ ParseDone \/ \E a \in Acks : ParseSetting(a)
      <3>1. [Fifo!Next]_Fifo!vars
        BY <2>3, PushSimulates, SpiSimulates DEF Parse
      <3>2. spc' # "parse" \/ spc # "sleep"
        BY <2>3 DEF PushBegin, PushGoesOn, PushRoom, PushChan, PushLen, PushData, PushHead,
                    Fill, MainAt, spi, ParseOther, ParseDone, ParseSetting
      <3>3. /\ master_queue_tail' = master_queue_tail
            /\ \/ master_queue_head' = master_queue_head
               \/ /\ master_queue_head' = Succ(master_queue_head)
                  /\ Succ(master_queue_head) # master_queue_tail
        BY <2>3 DEF PushBegin, PushGoesOn, PushRoom, PushChan, PushLen, PushData, PushHead,
                    Fill, MainAt, ring, ParseOther, ParseDone, ParseSetting,
                    OwnsHead, PushSound, Pushed
      <3> QED
        BY <3>1, <3>2, <3>3, NothingTaken DEF ExchangeTakesOldest, OthersOnlyAppend
    <2> QED
      BY <2>1, <2>2, <2>3 DEF Next, Parse
  <1> QED
    BY <1>1, <1>2, TypeCorrect, HeadHasOneOwner, PushAlwaysSound, PTL DEF Spec
===============================================================================
