-------------------------------- MODULE TxQueue --------------------------------
(***************************************************************************)
(* The queue of packets that the KW40 sends to the MK66, and its two users *)
(* (KW40_Firmware/App/App_comm_channel.c).                                 *)
(*                                                                         *)
(* Main_task queues what the BLE peer writes (CommandService_write,        *)
(* Write_to_value_k66wrdata); the SPI task, which preempts it at any       *)
(* point, sends one packet per exchange and, while the MK66 configures the *)
(* chip, queues acknowledgements itself.  There is no lock: what keeps the *)
(* two from queueing at the same time is that Main_task waits for the end  *)
(* of the settings before it takes up messages of the peer, and that the   *)
(* MK66 sends no settings after that end but after a reset of the chip     *)
(* (BleLink).  Main_task runs only while the SPI task sleeps; its push is  *)
(* one step per access to the ring.                                        *)
(***************************************************************************)
EXTENDS Naturals, Sequences

CONSTANTS
  Messages,             \* what Main_task queues: commands and serial data
  Acks,                 \* acknowledgements of settings
  None,                 \* no message: a buffer of zeros
  MKW_QUEUE_SZ          \* slots of the ring

ASSUME SizeAssumption == MKW_QUEUE_SZ \in Nat \ {0, 1}

VARIABLES
  master_queue,         \* the slots of the ring, written field by field
  master_queue_head, master_queue_tail,
  spc,                  \* the SPI task: "sleep" or, after the transfer, "parse"
  phase,                \* "settings" until EVENT_SETTINGS_DONE, then "run"
  mpc,                  \* where Main_task is in Push_message_to_tx_queue
  msg, phead,           \* its arguments and its copy of the head
  tx_buf,               \* the packet of the last exchange
  result                \* history: what the last push returned

ring  == <<master_queue, master_queue_head, master_queue_tail>>
local == <<mpc, msg, phead>>
spi   == <<spc, phase, tx_buf>>
vars  == <<ring, local, spi, result>>

Slots == 0 .. MKW_QUEUE_SZ - 1

\* Faulty: the index wraps one slot late.
SuccLate(i) == IF i >= MKW_QUEUE_SZ THEN 0 ELSE i + 1

Succ(i) == IF i + 1 >= MKW_QUEUE_SZ THEN 0 ELSE i + 1

\* A packet all of whose fields belong to m.
Whole(m) == [chan |-> m, len |-> m, data |-> m]

Init ==
  /\ master_queue = [i \in Slots |-> Whole(None)]
  /\ master_queue_head = 0 /\ master_queue_tail = 0
  /\ mpc = "idle" /\ msg = None /\ phead = 0
  /\ spc = "sleep" /\ phase = "settings" /\ tx_buf = Whole(None)
  /\ result = "none"

-------------------------------------------------------------------------------
(* Main_task: Push_message_to_tx_queue                                      *)

MainAt(from) == mpc = from /\ spc = "sleep"

\* Faulty: messages of the peer are taken up before the settings are done.
PushBeginEarly ==
  /\ MainAt("idle")
  /\ mpc' = "room"
  /\ msg' \in Messages
  /\ phead' = master_queue_head
  /\ result' = "none"
  /\ UNCHANGED <<ring, spi>>

\* A message of the peer is taken up; the head is read.
PushBegin ==
  /\ MainAt("idle") /\ phase = "run"
  /\ mpc' = "room"
  /\ msg' \in Messages
  /\ phead' = master_queue_head
  /\ result' = "none"
  /\ UNCHANGED <<ring, spi>>

\* Faulty: nobody looks whether there is room.
PushRoomUnchecked ==
  /\ MainAt("room")
  /\ mpc' = "chan"
  /\ UNCHANGED <<ring, spi, msg, phead, result>>

\* RESULT_ERROR when the next head would meet the tail.
PushRoom ==
  /\ MainAt("room")
  /\ IF Succ(phead) = master_queue_tail
       THEN mpc' = "idle" /\ result' = "error"
       ELSE mpc' = "chan" /\ UNCHANGED result
  /\ UNCHANGED <<ring, spi, msg, phead>>

\* The slot is filled field by field ...
Fill(from, packet, to) ==
  /\ MainAt(from)
  /\ master_queue' = [master_queue EXCEPT ![phead] = packet]
  /\ mpc' = to
  /\ UNCHANGED <<master_queue_head, master_queue_tail, spi, msg, phead, result>>

PushChan == Fill("chan", [master_queue[phead] EXCEPT !.chan = msg], "len")
PushLen  == Fill("len", [master_queue[phead] EXCEPT !.len = msg], "data")
PushData == Fill("data", [master_queue[phead] EXCEPT !.data = msg], "head")

\* ... and handed over by storing the head.
PushHead ==
  /\ MainAt("head")
  /\ master_queue_head' = Succ(phead)
  /\ mpc' = "idle"
  /\ result' = "ok"
  /\ UNCHANGED <<master_queue, master_queue_tail, spi, msg, phead>>

PushGoesOn == PushRoom \/ PushChan \/ PushLen \/ PushData \/ PushHead

-------------------------------------------------------------------------------
(* The SPI task: one exchange every tick                                    *)

\* Faulty: the packet stays in the queue.
MoveKeeps ==
  /\ spc = "sleep"
  /\ spc' = "parse"
  /\ tx_buf' = IF master_queue_tail = master_queue_head
                 THEN Whole(None) ELSE master_queue[master_queue_tail]
  /\ UNCHANGED <<ring, phase, local, result>>

\* Move_msg_from_queue_to_trasmitter and the transfer
Move ==
  /\ spc = "sleep"
  /\ spc' = "parse"
  /\ IF master_queue_tail = master_queue_head
       THEN /\ tx_buf' = Whole(None)
            /\ UNCHANGED master_queue_tail
       ELSE /\ tx_buf' = master_queue[master_queue_tail]
            /\ master_queue_tail' = Succ(master_queue_tail)
  /\ UNCHANGED <<master_queue, master_queue_head, phase, local, result>>

\* Faulty: the next exchange follows without a sleep.
ParseNoDelay ==
  /\ spc = "parse"
  /\ IF master_queue_tail = master_queue_head
       THEN /\ tx_buf' = Whole(None)
            /\ UNCHANGED master_queue_tail
       ELSE /\ tx_buf' = master_queue[master_queue_tail]
            /\ master_queue_tail' = Succ(master_queue_tail)
  /\ UNCHANGED <<master_queue, master_queue_head, spc, phase, local, result>>

\* Parse_received_data: what the MK66 sent brings nothing into the queue ...
ParseOther ==
  /\ spc = "parse"
  /\ spc' = "sleep"
  /\ UNCHANGED <<ring, local, phase, tx_buf, result>>

\* ... or is SETT_DONE, and Main_task goes on ...
ParseDone ==
  /\ spc = "parse" /\ phase = "settings"
  /\ spc' = "sleep"
  /\ phase' = "run"
  /\ UNCHANGED <<ring, local, tx_buf, result>>

\* ... or SETT_WRITE: App_accept_parameter pushes its acknowledgement ...
ParseSetting(a) ==
  /\ spc = "parse" /\ phase = "settings"
  /\ spc' = "sleep"
  /\ IF Succ(master_queue_head) = master_queue_tail
       THEN /\ result' = "error"
            /\ UNCHANGED <<master_queue, master_queue_head>>
       ELSE /\ result' = "ok"
            /\ master_queue' = [master_queue EXCEPT ![master_queue_head] = Whole(a)]
            /\ master_queue_head' = Succ(master_queue_head)
  /\ UNCHANGED <<master_queue_tail, local, phase, tx_buf>>

\* ... or RESET: App_reset, and everything starts again.
ParseReset ==
  /\ spc = "parse"
  /\ master_queue' = [i \in Slots |-> Whole(None)]
  /\ master_queue_head' = 0 /\ master_queue_tail' = 0
  /\ mpc' = "idle" /\ msg' = None /\ phead' = 0
  /\ spc' = "sleep" /\ phase' = "settings" /\ tx_buf' = Whole(None)
  /\ result' = "none"

Parse ==
  \/ ParseOther \/ ParseDone \/ ParseReset
  \/ \E a \in Acks : ParseSetting(a)

-------------------------------------------------------------------------------
Next == PushBegin \/ PushGoesOn \/ Move \/ Parse

Spec == Init /\ [][Next]_vars

(* The SPI task is periodic: it goes through its exchanges, whatever they   *)
(* bring (nothing obliges the MK66 to send a setting, the end of the        *)
(* settings or a reset).  Main_task gets the processor while it sleeps,      *)
(* though not necessarily each time.                                        *)
FairSpec == Spec /\ WF_vars(Move \/ ParseOther) /\ SF_vars(PushGoesOn)
===============================================================================
