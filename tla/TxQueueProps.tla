------------------------------ MODULE TxQueueProps ------------------------------
(***************************************************************************)
(* What the transmit queue of the KW40 must guarantee, and its refinement  *)
(* of TxFifo.                                                              *)
(***************************************************************************)
EXTENDS TxQueue

Known  == Messages \cup Acks \cup {None}
Packet == [chan : Known, len : Known, data : Known]

(* Type correctness.                                                       *)
TypeOK ==
  /\ master_queue \in [Slots -> Packet]
  /\ master_queue_head \in Slots /\ master_queue_tail \in Slots
  /\ mpc \in {"idle", "room", "chan", "len", "data", "head"}
  /\ msg \in Known /\ phead \in Slots
  /\ spc \in {"sleep", "parse"} /\ phase \in {"settings", "run"}
  /\ tx_buf \in Packet
  /\ result \in {"none", "ok", "error"}

-------------------------------------------------------------------------------
(* The packets between tail t and head h of ring q, oldest first.           *)

Used(h, t) == IF t <= h THEN h - t ELSE h + MKW_QUEUE_SZ - t
Nth(t, i)  == IF t + i - 1 < MKW_QUEUE_SZ THEN t + i - 1
                                          ELSE t + i - 1 - MKW_QUEUE_SZ
Content(q, h, t) == [i \in 1 .. Used(h, t) |-> q[Nth(t, i)]]

Waiting == Content(master_queue, master_queue_head, master_queue_tail)

Fifo == INSTANCE TxFifo WITH
  Packets  <- {Whole(m) : m \in Messages \cup Acks},
  Empty    <- Whole(None),
  Capacity <- MKW_QUEUE_SZ - 1,
  fifo     <- Waiting,
  wire     <- tx_buf

(* The ring behaves as a FIFO of whole packets, though one task fills a     *)
(* slot while the other, which preempts it, empties the ring: nothing is    *)
(* sent half written, twice or out of order, and nothing is refused while   *)
(* there is room (App_comm_channel.c:118-174).                              *)
RefinesFifo == Fifo!Spec

(* A push of Main_task is never interrupted by one of the SPI task: the     *)
(* head it read is still the head until it stores the next one              *)
(* (App_comm_channel.c:154, 172; Main.c:98, 207).                           *)
OwnsHead == mpc # "idle" => phase = "run" /\ phead = master_queue_head

(* Every packet that was accepted leaves, unless the chip is reset: the     *)
(* exchanges are periodic and each one takes the oldest packet.             *)
Queued(m) == \E i \in DOMAIN Waiting : Waiting[i] = Whole(m)
AcceptedLeaves ==
  \A m \in Messages :
    (phase = "run" /\ Queued(m)) ~> (tx_buf = Whole(m) \/ phase = "settings")

(* Every push returns to the peer's callback.                               *)
PushReturns == (mpc # "idle") ~> (mpc = "idle")
===============================================================================
