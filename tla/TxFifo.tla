-------------------------------- MODULE TxFifo --------------------------------
(***************************************************************************)
(* What the transmit queue of KW40_Firmware/App/App_comm_channel.c         *)
(* promises: packets leave for the MK66 whole, once and in the order in    *)
(* which they were accepted, one per exchange, and one is refused only     *)
(* while Capacity of them are waiting.  TxQueue implements this.           *)
(***************************************************************************)
EXTENDS Naturals, Sequences

CONSTANTS
  Packets,              \* what can be queued
  Empty,                \* what an exchange sends when nothing is queued
  Capacity              \* MKW_QUEUE_SZ - 1: the ring keeps one slot empty

VARIABLES
  fifo,                 \* the packets waiting, oldest first
  wire,                 \* the packet of the last exchange
  result                \* of the last push: "none" while it is under way

vars == <<fifo, wire, result>>

Init ==
  /\ fifo = <<>>
  /\ wire = Empty
  /\ result = "none"

\* Push_message_to_tx_queue is called, and returns RESULT_OK or RESULT_ERROR.
Call ==
  /\ result' = "none"
  /\ UNCHANGED <<fifo, wire>>

Put(p) ==
  /\ Len(fifo) < Capacity
  /\ fifo' = Append(fifo, p)
  /\ result' = "ok"
  /\ UNCHANGED wire

Refuse ==
  /\ Len(fifo) = Capacity
  /\ result' = "error"
  /\ UNCHANGED <<fifo, wire>>

\* One exchange of the SPI task.
Send ==
  /\ fifo # <<>>
  /\ wire' = Head(fifo)
  /\ fifo' = Tail(fifo)
  /\ UNCHANGED result

SendNothing ==
  /\ fifo = <<>>
  /\ wire' = Empty
  /\ UNCHANGED <<fifo, result>>

\* The chip restarts.
Clear ==
  /\ fifo' = <<>>
  /\ wire' = Empty
  /\ result' = "none"

Next ==
  \/ \E p \in Packets : Put(p)
  \/ Call \/ Refuse \/ Send \/ SendNothing \/ Clear

Spec == Init /\ [][Next]_vars
===============================================================================
