--------------------------------- MODULE VcomRx --------------------------------
(***************************************************************************)
(* Reception on a virtual COM port (App/USB_2VCOM/USB_virtual_com1.c; the  *)
(* second port is its twin).  Packets come into a ring of IN_BUF_QUANTITY  *)
(* buffers.  The task USB_DEV runs the callbacks of the USB stack, the     *)
(* terminal task takes the bytes with VCom1_USB_get_data.  USB_DEV has the *)
(* higher priority: a callback is one step, and it may come between any    *)
(* two steps of the reader.                                                *)
(*                                                                         *)
(* There is no lock.  The flow control is that a packet is accepted only   *)
(* into a buffer armed with USB_Class_CDC_Recv_Data: the callback arms the *)
(* next one, or sets rx_full and leaves that to the reader.  The stack may *)
(* refuse to arm (rx_errors counts it, nobody tries again).                *)
(*                                                                         *)
(* The controller (external) completes armed transfers in their order and  *)
(* the stack calls back in that order; a bus reset or a new configuration  *)
(* drops the transfers that are armed, and comes after the callbacks of    *)
(* those that are complete.                                                *)
(***************************************************************************)
EXTENDS Naturals, Sequences

CONSTANTS
  IN_BUF_QUANTITY,      \* buffers of the ring: 2
  MaxLen,               \* bound: bytes in a packet
  MaxPackets,           \* bound: packets the host sends
  MaxErrors             \* bound: empty or failed transfers, refusals, resets

ASSUME SizeAssumption ==
  /\ IN_BUF_QUANTITY \in Nat \ {0, 1} /\ MaxLen \in Nat \ {0}
  /\ MaxPackets \in Nat /\ MaxErrors \in Nat

Bufs    == 0 .. IN_BUF_QUANTITY - 1
Packets == 1 .. MaxPackets

VARIABLES
  configured,
  rx_head, rx_tail, rx_full,
  len, pos,             \* rx_pack_cbl[i].len and .pos
  content,              \* rx_pack_cbl[i].buff: the number of its packet
  flag,                 \* VCOM_FLAG_RECEIVED
  armed,                \* buffers given to the controller, in order
  completed,            \* sizes of the completions not yet called back
  pc,                   \* the reader
  sent, size,           \* history: packets sent, and their sizes
  last,                 \* history: packet and place of the byte last read
  reconfigured,         \* history: a CONFIG_CHANGED armed a full ring
  overtaken,            \* history: the reader armed a buffer it has yet to read
  refused,              \* history: the last arming was refused
  errors

ring    == <<rx_head, rx_tail, rx_full, len, pos>>
bus     == <<content, armed, completed>>
mishaps == <<reconfigured, overtaken>>
history == <<sent, size, last>>
trouble == <<refused, errors>>
vars    == <<configured, ring, flag, bus, pc, history, mishaps, trouble>>

\* Faulty: the index wraps one buffer too late.
FollowingLate(i) == IF i + 1 > IN_BUF_QUANTITY THEN 0 ELSE i + 1

Following(i) == IF i + 1 >= IN_BUF_QUANTITY THEN 0 ELSE i + 1

Init ==
  /\ configured = FALSE
  /\ rx_head = 0 /\ rx_tail = 0 /\ rx_full = 0
  /\ len = [i \in Bufs |-> 0] /\ pos = [i \in Bufs |-> 0]
  /\ content = [i \in Bufs |-> 0] /\ flag = FALSE
  /\ armed = << >> /\ completed = << >>
  /\ pc = "check"
  /\ sent = 0 /\ size = [p \in 0 .. MaxPackets |-> 0] /\ last = <<0, 0>>
  /\ reconfigured = FALSE /\ overtaken = FALSE
  /\ refused = FALSE /\ errors = 0

-------------------------------------------------------------------------------
(* The host and the controller                                              *)

\* A packet of n bytes comes into the first armed buffer.  An endpoint answers
\* only while the device is configured.
Packet(n) ==
  /\ configured /\ armed # << >> /\ sent < MaxPackets
  /\ sent' = sent + 1 /\ size' = [size EXCEPT ![sent + 1] = n]
  /\ content' = [content EXCEPT ![Head(armed)] = sent + 1]
  /\ armed' = Tail(armed) /\ completed' = Append(completed, n)
  /\ UNCHANGED <<configured, ring, flag, pc, last, mishaps, trouble>>

\* An empty packet, or a transfer that failed.
Nothing ==
  /\ configured /\ armed # << >> /\ errors < MaxErrors
  /\ errors' = errors + 1
  /\ armed' = Tail(armed) /\ completed' = Append(completed, 0)
  /\ UNCHANGED <<configured, ring, flag, content, pc, history, mishaps, refused>>

-------------------------------------------------------------------------------
(* Callbacks, in the task USB_DEV                                           *)

\* Buffer i is armed, or the stack refuses it: no descriptor, or a busy one.
\* Then only rx_errors is counted, and at a configuration not even that.
USB_Class_CDC_Recv_Data(queue, i) ==
  \/ armed' = Append(queue, i) /\ refused' = FALSE /\ UNCHANGED errors
  \/ /\ errors < MaxErrors /\ errors' = errors + 1
     /\ armed' = queue /\ refused' = TRUE

BUS_RESET ==
  /\ completed = << >> /\ errors < MaxErrors
  /\ errors' = errors + 1
  /\ configured' = FALSE
  /\ armed' = << >>
  /\ UNCHANGED <<ring, flag, content, completed, pc, history, mishaps, refused>>

\* The buffer at the head is armed, whether it holds an unread packet or not.
CONFIG_CHANGED ==
  /\ completed = << >> /\ ~configured
  /\ USB_Class_CDC_Recv_Data(<< >>, rx_head)
  /\ configured' = TRUE
  /\ reconfigured' = (reconfigured \/ rx_full = 1 \/ pc \in {"advance", "arm"})
  /\ UNCHANGED <<ring, flag, content, completed, pc, history, overtaken>>

\* The packet is in the buffer at the head: arm the next buffer or, when that
\* is the tail, leave it to the reader.
Accept(n) ==
  LET next == Following(rx_head) IN
  /\ len' = [len EXCEPT ![rx_head] = n] /\ pos' = [pos EXCEPT ![rx_head] = 0]
  /\ IF next # rx_tail
       THEN /\ rx_head' = next
            /\ USB_Class_CDC_Recv_Data(armed, next)
            /\ UNCHANGED rx_full
       ELSE /\ rx_full' = 1
            /\ UNCHANGED <<rx_head, armed, trouble>>
  /\ flag' = TRUE
  /\ UNCHANGED rx_tail

\* Nothing was received: arm the same buffer again.
Rearm ==
  /\ USB_Class_CDC_Recv_Data(armed, rx_head)
  /\ UNCHANGED <<ring, flag>>

DATA_RECEIVED ==
  /\ configured /\ completed # << >>
  /\ completed' = Tail(completed)
  /\ \/ Head(completed) > 0 /\ Accept(Head(completed))
     \/ Head(completed) = 0 /\ Rearm
  /\ UNCHANGED <<configured, content, pc, history, mishaps>>

USB_DEV == BUS_RESET \/ CONFIG_CHANGED \/ DATA_RECEIVED

-------------------------------------------------------------------------------
(* VCom1_USB_get_data, called again and again by the terminal task          *)

\* Faulty: a full ring is taken for an empty one.
EmptyOrFull == rx_tail = rx_head \/ rx_full = 1

IsEmpty == rx_tail = rx_head

Check ==
  /\ pc = "check"
  /\ pc' = IF IsEmpty THEN "wait" ELSE "take"
  /\ UNCHANGED <<configured, ring, flag, bus, history, mishaps, trouble>>

\* The event is there: look again, for it may be an old one.
Flagged ==
  /\ pc = "wait" /\ flag
  /\ flag' = FALSE
  /\ pc' = IF IsEmpty THEN "check" ELSE "take"
  /\ UNCHANGED <<configured, ring, bus, history, mishaps, trouble>>

TimedOut ==
  /\ pc = "wait" /\ pc' = "check"
  /\ UNCHANGED <<configured, ring, flag, bus, history, mishaps, trouble>>

\* Faulty: the buffer is kept one byte too long.
EndsLate(p) == p > len[rx_tail]

Ends(p) == p >= len[rx_tail]

Take ==
  /\ pc = "take"
  /\ last' = <<content[rx_tail], pos[rx_tail] + 1>>
  /\ pos' = [pos EXCEPT ![rx_tail] = @ + 1]
  /\ pc' = IF Ends(pos[rx_tail] + 1) THEN "free" ELSE "check"
  /\ UNCHANGED <<configured, rx_head, rx_tail, rx_full, len, flag, bus,
                 sent, size, mishaps, trouble>>

Free ==
  /\ pc = "free"
  /\ rx_tail' = Following(rx_tail) /\ pc' = "full"
  /\ UNCHANGED <<configured, rx_head, rx_full, len, pos, flag, bus, history, mishaps,
                 trouble>>

\* Faulty: the flag is left set.
KeepFull == UNCHANGED rx_full

ClearFull == rx_full' = 0

\* rx_full may have been set before the tail moved or since: in the second case
\* the next buffer is the tail.
WasFull ==
  /\ pc = "full"
  /\ ClearFull
  /\ pc' = IF rx_full = 1 THEN "advance" ELSE "check"
  /\ overtaken' = (overtaken \/ (rx_full = 1 /\ Following(rx_head) = rx_tail))
  /\ UNCHANGED <<configured, rx_head, rx_tail, len, pos, flag, bus, history,
                 reconfigured, trouble>>

Advance ==
  /\ pc = "advance"
  /\ rx_head' = Following(rx_head) /\ pc' = "arm"
  /\ UNCHANGED <<configured, rx_tail, rx_full, len, pos, flag, bus, history, mishaps,
                 trouble>>

Arm ==
  /\ pc = "arm"
  /\ USB_Class_CDC_Recv_Data(armed, rx_head)
  /\ pc' = "check"
  /\ UNCHANGED <<configured, ring, flag, content, completed, history, mishaps>>

VCom1_USB_get_data ==
  Check \/ Flagged \/ TimedOut \/ Take \/ Free \/ WasFull \/ Advance \/ Arm

Next ==
  \/ \E n \in 1 .. MaxLen : Packet(n)
  \/ Nothing
  \/ USB_DEV
  \/ VCom1_USB_get_data

Spec == Init /\ [][Next]_vars

\* Both tasks run; a wait ends with the event or with its time-out; the host
\* configures the device after a reset.
FairSpec ==
  Spec /\ WF_vars(CONFIG_CHANGED) /\ WF_vars(DATA_RECEIVED) /\ WF_vars(VCom1_USB_get_data)

-------------------------------------------------------------------------------
\* Types: the indices stay inside the ring of buffers.
TypeOK ==
  /\ configured \in BOOLEAN
  /\ rx_head \in Bufs /\ rx_tail \in Bufs /\ rx_full \in {0, 1}
  /\ len \in [Bufs -> 0 .. MaxLen] /\ pos \in [Bufs -> Nat]
  /\ content \in [Bufs -> 0 .. MaxPackets]
  /\ flag \in BOOLEAN
  /\ armed \in Seq(Bufs) /\ completed \in Seq(0 .. MaxLen)
  /\ pc \in {"check", "wait", "take", "free", "full", "advance", "arm"}
  /\ sent \in 0 .. MaxPackets /\ size \in [0 .. MaxPackets -> 0 .. MaxLen]
  /\ last \in (0 .. MaxPackets) \X Nat
  /\ reconfigured \in BOOLEAN /\ overtaken \in BOOLEAN
  /\ refused \in BOOLEAN /\ errors \in 0 .. MaxErrors

\* Exactly one of the controller, the callback and the reader has to see to the
\* next packet: none is armed twice and no re-arming is lost, however callbacks
\* fall into the reader (lines 314-329 and 483-505), as long as the host does
\* not configure the device while the ring is full.  Only the refusal of an
\* arming, which the code counts and forgets (lines 209, 319, 336, 503), leaves
\* it with nobody, and then until the next configuration.
OneReceive ==
  configured /\ ~reconfigured =>
    Len(armed) + Len(completed) + rx_full
      + (IF pc \in {"advance", "arm"} THEN 1 ELSE 0) = (IF refused THEN 0 ELSE 1)

\* The byte after the one last read.
IsNext(byte) ==
  byte = IF last[2] < size[last[1]] THEN <<last[1], last[2] + 1>> ELSE <<last[1] + 1, 1>>

\* Each byte is read once and in the order sent: a buffer is neither refilled
\* while it is read nor read before it is filled (lines 300-329 and 477-505),
\* unless one of the two mishaps has happened.
InOrder ==
  [][last' # last /\ ~reconfigured /\ ~overtaken => IsNext(last')]_vars

\* Every packet that is received gets read to its end: the flow control never
\* stops for good (lines 492-504), unless one of the two mishaps has happened.
AllRead ==
  \A p \in Packets :
    (sent >= p) ~> (last[1] > p \/ last = <<p, size[p]>> \/ reconfigured \/ overtaken)

\* The comment at lines 492-494: if the queue was full, no reception has been
\* started by the receiving side, and it has to be started here, in the buffer
\* just freed.  So the buffer that the reader arms holds no unread packet.
ArmsFreeBuffer == pc = "arm" /\ ~reconfigured => rx_head # rx_tail
===============================================================================
